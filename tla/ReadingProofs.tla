----------------------------- MODULE ReadingProofs -----------------------------
(***************************************************************************)
(* Proofs about ReadingSync: however devices edit, sync, lose their sync   *)
(* state and are stopped, a device that is up to date shows what the       *)
(* account holds, a cycle has one Khatma, no wird is overwritten unmerged, *)
(* progress is kept against undos, and deletions are for good.             *)
(*                                                                         *)
(* The invariant says of each device what its sync state promises. Knows:  *)
(* what the state says of the account (base, known, acked) is so, in the   *)
(* account's generation. Has: what the account changed up to the state's   *)
(* change number is on the device, or is marked deleted there, or is in    *)
(* the pages not applied yet. It holds of the saved state and of the one   *)
(* the sync carries, which runs ahead of the saved one until it is saved;  *)
(* and it survives the changes of others because the account numbers each  *)
(* change higher than all before (Grows). An answer not yet applied        *)
(* (AnswerOK) is what the account still has, or the account changed since  *)
(* and will tell again.                                                    *)
(*                                                                         *)
(* That no undo takes the place of saved progress needs a second one,      *)
(* ProgressInv: which wirds there can be at all (Lawful), and that the     *)
(* account is never behind the version a sync state tells of, while the    *)
(* device's wird has taken that version in unless the account is ahead of  *)
(* it and will tell a newer one (KeepsUp).                                 *)
(***************************************************************************)
EXTENDS ReadingSync, TLAPS, WellFoundedInduction

(* The state of the account, the devices and their syncs. *)
Typed ==
    /\ account \in [gen : Nat, seq : Nat, recs : [Keys -> AccountRecord]]
    /\ data \in [ReadingDevices -> Data]
    /\ meta \in [ReadingDevices -> Meta]
    /\ sync \in [ReadingDevices -> Sync]
    /\ strayPush \subseteq ReadingChange

(* The records: numbered by one counter, and empty unless live. *)
AccountOK ==
    /\ \A k \in Keys : LET r == account.recs[k] IN
          /\ r.rev = 0 => r = Absent
          /\ r.rev > 0 => r.chg \in 1..account.seq
          /\ ~r.live => r.body = NoWird
          /\ r.live => r.rev > 0
          /\ k # WirdKey /\ r.live => r.body.at # 0
    /\ \A j, k \in Keys : account.recs[j].rev > 0 /\ account.recs[k].rev > 0
                          /\ account.recs[j].chg = account.recs[k].chg => j = k
    /\ account.gen = 0 => \A k \in Keys : account.recs[k].rev = 0
    /\ OneKhatmaPerCycle

ChangeOK(c) == IF c.del THEN c.body = NoWird ELSE c.key # WirdKey => c.body.at # 0

(* Nothing that is marked deleted on a device is still there. *)
MarksOK(dt) ==
    /\ WirdKey \in dt.deleted => dt.wird = NoWird
    /\ \A k \in KhatmaKeys : k \in dt.deleted => dt.khatmas[k] = 0

(* What a sync state says of the account is so. *)
Knows(m) ==
    /\ m.gen <= account.gen
    /\ m.gen = 0 => m = EmptyMeta
    /\ m.gen = account.gen =>
         LET r == account.recs[WirdKey] IN
         /\ m.since <= account.seq
         /\ \A k \in m.acked : Deleted(account.recs[k])
         /\ \A k \in m.known : account.recs[k].rev > 0
         /\ m.base.rev <= r.rev
         /\ m.base # NoBase => r.rev > 0
         /\ r.live /\ m.base.rev = r.rev => m.base.wird = r.body

(* What the sync state says was taken from the account is on the device, or in the  *)
(* pages not applied yet.                                                           *)
Current(k) == [key |-> k, rec |-> account.recs[k]]
Has(m, dt, got) ==
    m.gen = account.gen =>
        \A k \in Keys : LET r == account.recs[k] IN
            r.chg <= m.since =>
              /\ k # WirdKey /\ r.live =>
                    dt.khatmas[k] = r.body.at \/ k \in dt.deleted \/ Current(k) \in got
              /\ k = WirdKey /\ r.live =>
                    m.base = [rev |-> r.rev, wird |-> r.body] \/ Current(k) \in got
              /\ Deleted(r) => k \in dt.deleted \/ Current(k) \in got

GotOK(m, got) ==
    /\ m.gen = 0 => got = {}
    /\ m.gen = account.gen =>
         /\ \A g \in got : g = Current(g.key) \/ account.recs[g.key].chg > m.since
         /\ \A g, h \in got : g.key = h.key => g = h

(* An answer not applied yet is what the account still has, or will be told anew. *)
AnswerOK(a, m) ==
    /\ a.gen \in 1..account.gen /\ m.gen <= a.gen
    /\ a.status = "applied" => a.rec.rev > 0 /\ a.key = a.sent.key
    /\ a.status = "applied" /\ ~a.sent.del => a.rec.live
    /\ a.status = "applied" /\ ~a.sent.del /\ a.key = WirdKey => a.rec.body = a.sent.body
    /\ a.status = "duplicate" => a.sent.key # WirdKey
    /\ a.gen = account.gen /\ m.gen \in {0, a.gen} =>
         LET r == account.recs[a.key] IN
         /\ a.rec = r \/ (r.chg > m.since /\ r.rev > a.rec.rev)
         /\ a.rec.live => a.rec.rev > 0
         /\ Deleted(a.rec) => Deleted(r)
         /\ a.rec.live /\ a.key # WirdKey =>
              \A k \in KhatmaKeys : k # a.key /\ k[1] = a.key[1] /\ account.recs[k].live
                  => account.recs[k].chg > m.since
         /\ a.status = "duplicate" /\ account.recs[a.sent.key].live
              => account.recs[a.sent.key].chg > m.since

(* The sync s of a device with the data dt and the saved sync state m. *)
SyncOK(dt, m, s) ==
    /\ s.st = "idle" => s = NotSyncing
    /\ Knows(s.meta)
    /\ \A c \in s.todo : ChangeOK(c)
    /\ s.st = "pulling" => GotOK(s.meta, s.got) /\ Has(s.meta, dt, s.got)
    /\ s.st \notin {"idle", "pulling"} => Has(s.meta, dt, {})
    /\ s.st \in {"ready", "answered"} => m = s.meta
    /\ s.st = "answered" => AnswerOK(s.answer, s.meta)

DeviceOK(dt, m, s) ==
    /\ MarksOK(dt)
    /\ Knows(m) /\ Has(m, dt, {})
    /\ SyncOK(dt, m, s)

ReadingInv ==
    /\ Typed
    /\ AccountOK
    /\ \A c \in strayPush : ChangeOK(c)
    /\ \A d \in ReadingDevices : DeviceOK(data[d], meta[d], sync[d])

-----------------------------------------------------------------------------
LEMMA KeyFacts ==
    /\ WirdKey \notin KhatmaKeys /\ WirdKey \in Keys
    /\ \A k : k \in Keys <=> (k = WirdKey \/ k \in KhatmaKeys)
    /\ \A k \in KhatmaKeys : k \in Keys /\ k[1] \in Cycles /\ k # WirdKey
<1>1. \A k \in KhatmaKeys : k[2] # 0 /\ k[1] \in Cycles
    BY DEF KhatmaKeys
<1>2. WirdKey[2] = 0
    BY DEF WirdKey
<1> QED
    BY <1>1, <1>2 DEF Keys

LEMMA NoneTyped ==
    /\ NoWird \in Wird /\ Absent \in AccountRecord /\ EmptyMeta \in Meta
    /\ NoChange \in ReadingChange /\ NoAnswer \in Answer /\ NotSyncing \in Sync
    /\ NoBase.rev = 0 /\ NoBase.wird = NoWird /\ NoWird.at = 0
    /\ EmptyMeta.gen = 0 /\ EmptyMeta.since = 0 /\ EmptyMeta.base = NoBase
    /\ EmptyMeta.known = {} /\ EmptyMeta.acked = {}
    /\ Absent.rev = 0 /\ Absent.chg = 0 /\ Absent.live = FALSE /\ Absent.body = NoWird
    /\ NotSyncing.st = "idle" /\ NotSyncing.meta = EmptyMeta /\ NotSyncing.todo = {}
    /\ NotSyncing.got = {}
<1>0. WirdKey \in Keys
    BY KeyFacts
<1>1. LastPage \in Nat /\ 1 <= LastPage
    BY ReadingAssumption
<1>2. NoWird \in Wird /\ NoWird.at = 0
    BY <1>1 DEF NoWird, Wird, Page
<1>3. Absent \in AccountRecord /\ NoBase \in [rev : Nat, wird : Wird]
    BY <1>2 DEF Absent, AccountRecord, Body, NoBase
<1>4. EmptyMeta \in Meta
    BY <1>3 DEF EmptyMeta, Meta
<1>5. NoChange \in ReadingChange
    BY <1>0, <1>2 DEF NoChange, ReadingChange, Body
<1>6. NoAnswer \in Answer
    BY <1>0, <1>3, <1>5 DEF NoAnswer, Answer
<1>7. NotSyncing \in Sync
    BY <1>4, <1>6 DEF NotSyncing, Sync
<1> QED
    BY <1>2, <1>3, <1>4, <1>5, <1>6, <1>7
    DEF NoBase, EmptyMeta, Absent, NotSyncing

(* The least change number of a set of records. *)
LEMMA LeastNat ==
    ASSUME NEW T \in SUBSET Nat, T # {}
    PROVE  \E n \in T : \A m \in T : n <= m
<1>1. \E n \in T : \A m \in T : ~(<<m, n>> \in OpToRel(<, Nat))
    BY NatLessThanWellFounded, WFMin, Zenon
<1>2. \A m, n \in Nat : m < n => <<m, n>> \in OpToRel(<, Nat)
    BY DEF OpToRel
<1>3. PICK n \in T : \A m \in T : ~(<<m, n>> \in OpToRel(<, Nat))
    BY <1>1
<1>4. ASSUME NEW m \in T PROVE n <= m
  <2>1. m \in Nat /\ n \in Nat /\ ~(m < n)
      BY <1>2, <1>3
  <2> QED
      BY <2>1
<1> QED
    BY <1>3, <1>4

LEMMA FirstNew ==
    ASSUME Typed, NEW new \in SUBSET Keys, new # {}
    PROVE  \E first \in new : \A j \in new :
               account.recs[first].chg <= account.recs[j].chg
<1>1. \A k \in Keys : account.recs[k].chg \in Nat
    BY DEF Typed, AccountRecord
<1> DEFINE T == {account.recs[k].chg : k \in new}
<1>2. T \in SUBSET Nat /\ T # {}
    BY <1>1
<1>3. \E n \in T : \A m \in T : n <= m
    BY <1>2, LeastNat
<1> QED
    BY <1>3

(* One change on the account: one record, or nothing. *)
Grows ==
    /\ account'.gen = account.gen \/ (account.gen = 0 /\ account'.gen = 1)
    /\ account'.seq >= account.seq
    /\ \A k \in Keys :
         \/ account'.recs[k] = account.recs[k]
         \/ /\ account'.recs[k].chg > account.seq
            /\ account'.recs[k].rev > account.recs[k].rev
            /\ ~Deleted(account.recs[k])

LEMMA PushedShape ==
    ASSUME Typed, AccountOK, NEW c \in ReadingChange, ChangeOK(c), account' = Pushed(c)
    PROVE  /\ account' \in [gen : Nat, seq : Nat, recs : [Keys -> AccountRecord]]
           /\ account'.gen = IF account.gen = 0 THEN 1 ELSE account.gen
           /\ account'.recs[c.key] = Stored(c)
           /\ \A k \in Keys : k # c.key => account'.recs[k] = account.recs[k]
           /\ ~Writes(c) => account'.seq = account.seq /\ Stored(c) = account.recs[c.key]
           /\ Writes(c) => /\ account'.seq = account.seq + 1
                           /\ Stored(c) = [rev |-> account.recs[c.key].rev + 1,
                                           chg |-> account.seq + 1,
                                           live |-> ~c.del, body |-> c.body]
                           /\ ~Deleted(account.recs[c.key])
           /\ Writes(c) /\ ~c.del /\ c.key # WirdKey => Holder(c.key) = {}
<1>1. c.key \in Keys /\ c.body \in Body /\ c.del \in BOOLEAN
    BY DEF ReadingChange
<1>2. account.gen \in Nat /\ account.seq \in Nat /\ account.recs \in [Keys -> AccountRecord]
      /\ account.recs[c.key] \in AccountRecord
    BY <1>1 DEF Typed
<1>3. Stored(c) \in AccountRecord
    BY <1>1, <1>2 DEF Stored, AccountRecord
<1>4. Writes(c) => ~Deleted(account.recs[c.key])
    BY DEF Writes, Status, Refuses
<1>5. Writes(c) /\ ~c.del /\ c.key # WirdKey => Holder(c.key) = {}
    BY DEF Writes, Status
<1>6. account'.recs = [account.recs EXCEPT ![c.key] = Stored(c)]
      /\ account'.gen = (IF account.gen = 0 THEN 1 ELSE account.gen)
      /\ account'.seq = (IF Writes(c) THEN account.seq + 1 ELSE account.seq)
    BY DEF Pushed
<1>7. account' \in [gen : Nat, seq : Nat, recs : [Keys -> AccountRecord]]
    BY <1>1, <1>2, <1>3 DEF Pushed
<1> QED
    BY <1>1, <1>2, <1>3, <1>4, <1>5, <1>6, <1>7 DEF Stored

LEMMA PushedOK ==
    ASSUME Typed, AccountOK, NEW c \in ReadingChange, ChangeOK(c), account' = Pushed(c)
    PROVE  AccountOK' /\ Grows
<1>1. c.key \in Keys /\ c.body \in Wird /\ c.del \in BOOLEAN
      /\ account.gen \in Nat /\ account.seq \in Nat
      /\ \A k \in Keys : account.recs[k].rev \in Nat /\ account.recs[k].chg \in Nat
                         /\ account.recs[k].live \in BOOLEAN
    BY DEF ReadingChange, Body, Typed, AccountRecord
<1>2. CASE ~Writes(c)
  <2>1. \A k \in Keys : account'.recs[k] = account.recs[k]
      BY <1>2, PushedShape
  <2>2. account'.seq = account.seq /\ account'.gen = IF account.gen = 0 THEN 1 ELSE account.gen
      BY <1>2, PushedShape
  <2>3. OneKhatmaPerCycle'
      BY <2>1, KeyFacts DEF AccountOK, OneKhatmaPerCycle
  <2> QED
      BY <1>1, <2>1, <2>2, <2>3 DEF AccountOK, Grows
<1>3. CASE Writes(c)
  <2> DEFINE r == account'.recs[c.key]
  <2>1. /\ r.rev = account.recs[c.key].rev + 1 /\ r.chg = account.seq + 1
        /\ (r.live <=> ~c.del) /\ r.body = c.body
        /\ account'.seq = account.seq + 1 /\ ~Deleted(account.recs[c.key])
        /\ account'.gen = IF account.gen = 0 THEN 1 ELSE account.gen
        /\ \A k \in Keys : k # c.key => account'.recs[k] = account.recs[k]
        /\ (~c.del /\ c.key # WirdKey => Holder(c.key) = {})
    <3>1. r = [rev |-> account.recs[c.key].rev + 1, chg |-> account.seq + 1,
               live |-> ~c.del, body |-> c.body]
        BY <1>3, PushedShape
    <3>2. /\ r.rev = account.recs[c.key].rev + 1 /\ r.chg = account.seq + 1
          /\ r.live = ~c.del /\ r.body = c.body
        BY <3>1
    <3> HIDE DEF r
    <3> QED
        BY <1>1, <1>3, <3>2, PushedShape
  <2> HIDE DEF r
  <2>2. Grows
      BY <1>1, <2>1 DEF Grows, r
  <2>3. \A k \in Keys : LET q == account'.recs[k] IN
          /\ q.rev = 0 => q = Absent
          /\ q.rev > 0 => q.chg \in 1..account'.seq
          /\ ~q.live => q.body = NoWird
          /\ q.live => q.rev > 0
          /\ k # WirdKey /\ q.live => q.body.at # 0
    <3> SUFFICES ASSUME NEW k \in Keys
                 PROVE  LET q == account'.recs[k] IN
                          /\ q.rev = 0 => q = Absent
                          /\ q.rev > 0 => q.chg \in 1..account'.seq
                          /\ ~q.live => q.body = NoWird
                          /\ q.live => q.rev > 0
                          /\ k # WirdKey /\ q.live => q.body.at # 0
        OBVIOUS
    <3>1. CASE k = c.key
        BY <1>1, <2>1, <3>1 DEF r, ChangeOK
    <3>2. CASE k # c.key
        BY <1>1, <2>1, <3>2 DEF AccountOK
    <3> QED
        BY <3>1, <3>2
  <2>4. \A j, k \in Keys : account'.recs[j].rev > 0 /\ account'.recs[k].rev > 0
                          /\ account'.recs[j].chg = account'.recs[k].chg => j = k
      BY <1>1, <2>1 DEF AccountOK, r
  <2>5. OneKhatmaPerCycle'
    <3> SUFFICES ASSUME NEW j \in KhatmaKeys, NEW k \in KhatmaKeys,
                        account'.recs[j].live, account'.recs[k].live, j[1] = k[1]
                 PROVE  j = k
        BY DEF OneKhatmaPerCycle
    <3>1. CASE j # c.key /\ k # c.key
        BY <2>1, <3>1, KeyFacts DEF AccountOK, OneKhatmaPerCycle
    <3>2. CASE j = c.key \/ k = c.key
      <4>1. ~c.del /\ c.key \in KhatmaKeys
          BY <1>1, <2>1, <3>2, KeyFacts DEF r
      <4>2. \A i \in KhatmaKeys : i # c.key /\ i[1] = c.key[1] => ~account'.recs[i].live
          BY <2>1, <4>1, KeyFacts DEF Holder
      <4> QED
          BY <3>2, <4>2
    <3> QED
        BY <3>1, <3>2
  <2> QED
      BY <1>1, <2>1, <2>2, <2>3, <2>4, <2>5 DEF AccountOK
<1> QED
    BY <1>2, <1>3

LEMMA AccountTyped ==
    ASSUME Typed
    PROVE  /\ account.gen \in Nat /\ account.seq \in Nat
           /\ \A k \in Keys : /\ account.recs[k] \in AccountRecord
                              /\ account.recs[k].rev \in Nat /\ account.recs[k].chg \in Nat
                              /\ account.recs[k].live \in BOOLEAN
                              /\ account.recs[k].body \in Wird
    BY DEF Typed, AccountRecord, Body

LEMMA MetaTyped ==
    ASSUME NEW m \in Meta
    PROVE  /\ m.gen \in Nat /\ m.since \in Nat /\ m.base.rev \in Nat /\ m.base.wird \in Wird
           /\ m.known \in SUBSET KhatmaKeys /\ m.acked \in SUBSET Keys
           /\ \A k \in m.known : k \in Keys
           /\ m.base \in [rev : Nat, wird : Wird]
    BY KeyFacts DEF Meta

(* What is known of the account stays known when it grows. *)
LEMMA KnowsStill ==
    ASSUME Typed, Typed', AccountOK, AccountOK', Grows, NEW m \in Meta, Knows(m)
    PROVE  Knows(m)'
<1>1. WirdKey \in Keys
    BY KeyFacts
<1>t. \A k \in Keys : account.recs[k].rev \in Nat /\ account'.recs[k].rev \in Nat
    BY AccountTyped DEF Typed, AccountRecord
<1>2. CASE m.gen = account'.gen /\ account'.gen = account.gen
  <2>1. \A k \in m.acked : Deleted(account'.recs[k])
      BY <1>2, AccountTyped, MetaTyped DEF Knows, Grows, Deleted
  <2>2. \A k \in m.known : account'.recs[k].rev > 0
      BY <1>t, <1>2, MetaTyped DEF Knows, Grows
  <2>3. m.since <= account'.seq
      BY <1>2, AccountTyped, MetaTyped DEF Knows, Grows, Typed
  <2>4. LET r == account'.recs[WirdKey] IN
        /\ m.base.rev <= r.rev
        /\ m.base # NoBase => r.rev > 0
        /\ r.live /\ m.base.rev = r.rev => m.base.wird = r.body
    <3>1. m.base.rev <= account.recs[WirdKey].rev
        /\ (m.base # NoBase => account.recs[WirdKey].rev > 0)
        BY <1>2 DEF Knows
    <3>2. CASE account'.recs[WirdKey] = account.recs[WirdKey]
        BY <1>2, <3>1, <3>2 DEF Knows
    <3>3. CASE account'.recs[WirdKey].rev > account.recs[WirdKey].rev
        BY <1>1, <1>t, <3>1, <3>3, MetaTyped
    <3> QED
        BY <1>1, <3>2, <3>3 DEF Grows
  <2> QED
      BY <1>2, <2>1, <2>2, <2>3, <2>4 DEF Knows
<1>3. CASE m.gen # account'.gen \/ account'.gen # account.gen
    BY <1>3, AccountTyped, MetaTyped DEF Knows, Grows
<1> QED
    BY <1>2, <1>3

LEMMA HasStill ==
    ASSUME Typed, Typed', AccountOK, AccountOK', Grows, NEW m \in Meta, Knows(m),
           NEW dt, NEW got, Has(m, dt, got)
    PROVE  Has(m, dt, got)'
<1> SUFFICES ASSUME m.gen = account'.gen, NEW k \in Keys, account'.recs[k].chg <= m.since
             PROVE  LET r == account'.recs[k] IN
              /\ k # WirdKey /\ r.live =>
                    dt.khatmas[k] = r.body.at \/ k \in dt.deleted \/ Current(k)' \in got
              /\ k = WirdKey /\ r.live =>
                    m.base = [rev |-> r.rev, wird |-> r.body] \/ Current(k)' \in got
              /\ Deleted(r) => k \in dt.deleted \/ Current(k)' \in got
    BY DEF Has
<1>1. m.gen = account.gen
    BY AccountTyped, MetaTyped DEF Knows, Grows
<1>2. m.since <= account.seq
    BY <1>1 DEF Knows
<1>3. account'.recs[k] = account.recs[k]
    BY <1>2, AccountTyped, MetaTyped DEF Grows, Typed, AccountRecord
<1> QED
    BY <1>1, <1>3 DEF Has, Current

LEMMA GotStill ==
    ASSUME Typed, Typed', AccountOK, AccountOK', Grows, NEW m \in Meta, Knows(m),
           NEW got \in SUBSET Pulled, GotOK(m, got)
    PROVE  GotOK(m, got)'
<1> SUFFICES ASSUME m.gen = account'.gen, m.gen # 0
             PROVE  \A g \in got : g = Current(g.key)' \/ account'.recs[g.key].chg > m.since
    BY AccountTyped, MetaTyped DEF GotOK, Grows, Knows
<1>1. m.gen = account.gen /\ m.since <= account.seq
    BY AccountTyped, MetaTyped DEF Knows, Grows
<1> SUFFICES ASSUME NEW g \in got
             PROVE  g = Current(g.key)' \/ account'.recs[g.key].chg > m.since
    OBVIOUS
<1>2. g.key \in Keys
    BY DEF Pulled
<1>3. CASE account'.recs[g.key] = account.recs[g.key]
    BY <1>1, <1>3 DEF GotOK, Current
<1>4. CASE account'.recs[g.key].chg > account.seq
    BY <1>1, <1>2, <1>4, AccountTyped, MetaTyped DEF Typed, AccountRecord
<1> QED
    BY <1>2, <1>3, <1>4 DEF Grows

LEMMA AnswerStill ==
    ASSUME Typed, Typed', AccountOK, AccountOK', Grows, NEW m \in Meta, Knows(m),
           NEW a \in Answer, AnswerOK(a, m)
    PROVE  AnswerOK(a, m)'
<1>0. a.gen \in Nat /\ a.gen # 0 /\ a.gen <= account.gen /\ a.key \in Keys /\ a.sent.key \in Keys
      /\ a.rec.rev \in Nat
    BY AccountTyped DEF Answer, AnswerOK, ReadingChange, AccountRecord
<1>1. account'.gen = account.gen
    BY <1>0, AccountTyped DEF Grows
<1>2. CASE ~(a.gen = account.gen /\ m.gen \in {0, a.gen})
    BY <1>1, <1>2 DEF AnswerOK
<1>3. CASE a.gen = account.gen /\ m.gen \in {0, a.gen}
  <2>1. m.since <= account.seq /\ m.since \in Nat
      BY <1>3, AccountTyped, MetaTyped, NoneTyped DEF Knows
  <2>2. \A k \in Keys : /\ account.recs[k].chg \in Nat /\ account'.recs[k].chg \in Nat
                        /\ account.recs[k].rev \in Nat /\ account'.recs[k].rev \in Nat
                        /\ account.seq \in Nat
      BY AccountTyped DEF Typed, AccountRecord
  <2>3. \A k \in Keys : \/ account'.recs[k] = account.recs[k]
                        \/ account'.recs[k].chg > m.since
      BY <2>1, <2>2 DEF Grows
  <2>4. a.rec = account'.recs[a.key]
        \/ (account'.recs[a.key].chg > m.since /\ account'.recs[a.key].rev > a.rec.rev)
      BY <1>0, <1>3, <2>1, <2>2 DEF Grows, AnswerOK
  <2>5. Deleted(a.rec) => Deleted(account'.recs[a.key])
      BY <1>0, <1>3 DEF Grows, AnswerOK
  <2>6. a.rec.live /\ a.key # WirdKey =>
              \A k \in KhatmaKeys : k # a.key /\ k[1] = a.key[1] /\ account'.recs[k].live
                  => account'.recs[k].chg > m.since
      BY <1>3, <2>3, KeyFacts DEF AnswerOK
  <2>7. a.status = "duplicate" /\ account'.recs[a.sent.key].live
              => account'.recs[a.sent.key].chg > m.since
      BY <1>0, <1>3, <2>3 DEF AnswerOK
  <2> QED
      BY <1>1, <1>3, <2>4, <2>5, <2>6, <2>7 DEF AnswerOK
<1> QED
    BY <1>2, <1>3

-----------------------------------------------------------------------------
(* What records of the account do to a device's data. *)
RecOf(got, k) ==
    IF \E g \in got : g.key = k THEN (CHOOSE g \in got : g.key = k).rec ELSE Absent
Gone(got) == {g.key : g \in {x \in got : Deleted(x.rec)}}
Live(got) == {k \in KhatmaKeys : RecOf(got, k).live}
OnePerKey(got) == \A g, h \in got : g.key = h.key => g = h

LEMMA RecOfFacts ==
    ASSUME NEW got \in SUBSET Pulled, OnePerKey(got), NEW k \in Keys
    PROVE  /\ RecOf(got, k) \in AccountRecord
           /\ \A g \in got : g.key = k => RecOf(got, k) = g.rec
           /\ (\A g \in got : g.key # k) => RecOf(got, k) = Absent
           /\ k \in Gone(got) <=> \E g \in got : g.key = k /\ Deleted(g.rec)
           /\ k \in Gone(got) => ~RecOf(got, k).live
<1>1. \A g \in got : g.key = k => RecOf(got, k) = g.rec
    BY DEF RecOf, OnePerKey
<1>2. (\A g \in got : g.key # k) => RecOf(got, k) = Absent
    BY DEF RecOf
<1>3. RecOf(got, k) \in AccountRecord
    BY <1>1, <1>2, NoneTyped DEF Pulled
<1>4. k \in Gone(got) <=> \E g \in got : g.key = k /\ Deleted(g.rec)
    BY DEF Gone
<1>5. k \in Gone(got) => ~RecOf(got, k).live
    BY <1>1, <1>4 DEF Deleted
<1> QED
    BY <1>1, <1>2, <1>3, <1>4, <1>5

LEMMA MergeTyped ==
    ASSUME NEW l \in Wird, NEW r \in Wird, NEW b \in Wird
    PROVE  MergeWird(l, r, b) \in Wird
<1>1. \A w \in Wird : /\ [w EXCEPT !.saved = l.saved \/ r.saved] \in Wird
                      /\ [w EXCEPT !.seq = l.seq + 1, !.undone = NoCycle] \in Wird
                      /\ [w EXCEPT !.seq = r.seq + 1, !.undone = NoCycle] \in Wird
  <2>1. (l.saved \/ r.saved) \in BOOLEAN /\ l.seq + 1 \in Nat /\ r.seq + 1 \in Nat
        /\ NoCycle \in Cycles \cup {NoCycle}
      BY DEF Wird
  <2> QED
      BY <2>1 DEF Wird
<1> QED
    BY <1>1 DEF MergeWird, Position

AppliedKhatma(m, dt, got, k) ==
    IF k \in Gone(got) THEN 0
    ELSE IF k \in Live(got) \ dt.deleted THEN RecOf(got, k).body.at
    ELSE IF k \notin m.known /\ \E j \in Live(got) \ dt.deleted : j[1] = k[1] THEN 0
    ELSE dt.khatmas[k]

AppliedWird(m, dt, got) ==
    IF WirdKey \in Gone(got) THEN NoWird
    ELSE IF ~RecOf(got, WirdKey).live \/ WirdKey \in dt.deleted THEN dt.wird
    ELSE IF dt.wird = NoWird THEN RecOf(got, WirdKey).body
    ELSE MergeWird(dt.wird, RecOf(got, WirdKey).body, m.base.wird)

AppliedBase(m, got) ==
    IF WirdKey \in Gone(got) THEN NoBase
    ELSE IF RecOf(got, WirdKey).live
    THEN [rev |-> RecOf(got, WirdKey).rev, wird |-> RecOf(got, WirdKey).body]
    ELSE m.base

LEMMA AppliedShape ==
    ASSUME NEW m \in Meta, NEW dt \in Data, NEW got \in SUBSET Pulled, OnePerKey(got)
    PROVE  /\ Applied(m, dt, got).data \in Data
           /\ Applied(m, dt, got).data.deleted = dt.deleted \cup Gone(got)
           /\ Applied(m, dt, got).data.wird = AppliedWird(m, dt, got)
           /\ \A k \in KhatmaKeys :
                 Applied(m, dt, got).data.khatmas[k] = AppliedKhatma(m, dt, got, k)
           /\ Applied(m, dt, got).meta \in Meta
           /\ Applied(m, dt, got).meta.gen = m.gen /\ Applied(m, dt, got).meta.since = m.since
           /\ Applied(m, dt, got).meta.base = AppliedBase(m, got)
           /\ Applied(m, dt, got).meta.known = (m.known \cup Live(got)) \ Gone(got)
           /\ Applied(m, dt, got).meta.acked = m.acked \cup Gone(got)
<1> DEFINE dn == [wird |-> AppliedWird(m, dt, got),
                  khatmas |-> [k \in KhatmaKeys |-> AppliedKhatma(m, dt, got, k)],
                  deleted |-> dt.deleted \cup Gone(got)]
           mn == [m EXCEPT !.base = AppliedBase(m, got),
                           !.known = (m.known \cup Live(got)) \ Gone(got),
                           !.acked = m.acked \cup Gone(got)]
<1>0. m = [gen |-> m.gen, since |-> m.since, base |-> m.base, known |-> m.known,
           acked |-> m.acked]
    BY DEF Meta
<1>1. Applied(m, dt, got).data = dn /\ Applied(m, dt, got).meta = mn
  <2>1. Applied(m, dt, got).data = dn
      BY DEF Applied, Gone, Live, RecOf, AppliedWird, AppliedKhatma
  <2>2. Applied(m, dt, got).meta
          = [m EXCEPT !.base = AppliedBase(m, got), !.known = (@ \cup Live(got)) \ Gone(got),
                      !.acked = @ \cup Gone(got)]
      BY DEF Applied, Gone, Live, RecOf, AppliedBase
  <2>3. Applied(m, dt, got).meta = mn
      BY <2>2, <1>0
  <2> QED
      BY <2>1, <2>3
<1>2. RecOf(got, WirdKey).body \in Wird /\ RecOf(got, WirdKey).rev \in Nat
    BY RecOfFacts, KeyFacts DEF AccountRecord, Body
<1>3. dt.wird \in Wird /\ dt.khatmas \in [KhatmaKeys -> Nat] /\ dt.deleted \in SUBSET Keys
    BY DEF Data
<1>4. Gone(got) \in SUBSET Keys /\ Live(got) \in SUBSET KhatmaKeys
    BY DEF Gone, Pulled, Live
<1>5. AppliedWird(m, dt, got) \in Wird
    BY <1>2, <1>3, NoneTyped, MergeTyped, MetaTyped DEF AppliedWird
<1>6. \A k \in KhatmaKeys : RecOf(got, k).body.at \in Nat
    BY RecOfFacts, KeyFacts DEF AccountRecord, Body, Wird
<1>7. \A k \in KhatmaKeys : AppliedKhatma(m, dt, got, k) \in Nat
    BY <1>3, <1>6 DEF AppliedKhatma
<1>8. AppliedBase(m, got) \in [rev : Nat, wird : Wird]
    BY <1>2, MetaTyped, NoneTyped DEF NoBase, AppliedBase
<1>9. dn \in Data
    BY <1>3, <1>4, <1>5, <1>7 DEF Data
<1>10. mn \in Meta
  <2>1. (m.known \cup Live(got)) \ Gone(got) \in SUBSET KhatmaKeys
        /\ m.acked \cup Gone(got) \in SUBSET Keys
      BY <1>4, MetaTyped
  <2> QED
      BY <1>8, <2>1 DEF Meta
<1>11. /\ mn.gen = m.gen /\ mn.since = m.since /\ mn.base = AppliedBase(m, got)
       /\ mn.known = (m.known \cup Live(got)) \ Gone(got)
       /\ mn.acked = m.acked \cup Gone(got)
    BY DEF Meta
<1>12. /\ dn.wird = AppliedWird(m, dt, got) /\ dn.deleted = dt.deleted \cup Gone(got)
       /\ \A k \in KhatmaKeys : dn.khatmas[k] = AppliedKhatma(m, dt, got, k)
    OBVIOUS
<1> HIDE DEF dn, mn
<1> QED
    BY <1>1, <1>9, <1>10, <1>11, <1>12

LEMMA AppliedMarks ==
    ASSUME NEW m \in Meta, NEW dt \in Data, MarksOK(dt), NEW got \in SUBSET Pulled,
           OnePerKey(got)
    PROVE  MarksOK(Applied(m, dt, got).data)
<1> DEFINE dn == Applied(m, dt, got).data
<1>0. /\ dn.deleted = dt.deleted \cup Gone(got) /\ dn.wird = AppliedWird(m, dt, got)
      /\ \A k \in KhatmaKeys : dn.khatmas[k] = AppliedKhatma(m, dt, got, k)
    BY AppliedShape
<1> HIDE DEF dn
<1>1. \A k \in KhatmaKeys : k \in dn.deleted => dn.khatmas[k] = 0
  <2> SUFFICES ASSUME NEW k \in KhatmaKeys, k \in dn.deleted PROVE dn.khatmas[k] = 0
      OBVIOUS
  <2>1. k \in Gone(got) \/ (k \in dt.deleted /\ dt.khatmas[k] = 0)
      BY <1>0 DEF MarksOK
  <2>2. k \notin Live(got) \ dt.deleted \/ k \in Gone(got)
      BY <1>0
  <2> QED
      BY <1>0, <2>1, <2>2 DEF AppliedKhatma
<1>2. WirdKey \in dn.deleted => dn.wird = NoWird
    BY <1>0 DEF MarksOK, AppliedWird
<1> QED
    BY <1>1, <1>2 DEF MarksOK, dn

(* Records as the account has them, or as it will tell anew beyond a change number,  *)
(* take nothing away that the device had of it up to there.                          *)
LEMMA AppliedHas ==
    ASSUME Typed, AccountOK, NEW m \in Meta, NEW dt \in Data, NEW got \in SUBSET Pulled,
           OnePerKey(got), NEW n \in Nat,
           \A g \in got : g = Current(g.key) \/ account.recs[g.key].chg > n,
           \A g \in got : g.key # WirdKey /\ g.rec.live =>
               \A k \in KhatmaKeys : k # g.key /\ k[1] = g.key[1] /\ account.recs[k].live
                   => account.recs[k].chg > n,
           NEW k \in Keys, account.recs[k].chg <= n
    PROVE  LET dn == Applied(m, dt, got).data
               r == account.recs[k] IN
           /\ k # WirdKey /\ r.live /\ (\/ dt.khatmas[k] = r.body.at \/ k \in dt.deleted
                                        \/ Current(k) \in got)
                 => dn.khatmas[k] = r.body.at \/ k \in dn.deleted
           /\ Deleted(r) /\ (k \in dt.deleted \/ Current(k) \in got) => k \in dn.deleted
<1> DEFINE dn == Applied(m, dt, got).data
           r == account.recs[k]
<1>0. r.chg \in Nat /\ ~(r.chg > n)
    BY AccountTyped
<1>d. /\ dn.deleted = dt.deleted \cup Gone(got)
      /\ \A i \in KhatmaKeys : dn.khatmas[i] = AppliedKhatma(m, dt, got, i)
    BY AppliedShape
<1> HIDE DEF dn
<1>1. Deleted(r) /\ (k \in dt.deleted \/ Current(k) \in got) => k \in dn.deleted
    BY <1>d, RecOfFacts DEF Current
<1>2. ASSUME k # WirdKey, r.live, k \notin dn.deleted,
             dt.khatmas[k] = r.body.at \/ k \in dt.deleted \/ Current(k) \in got
      PROVE  dn.khatmas[k] = r.body.at
  <2>1. k \in KhatmaKeys /\ k \notin Gone(got) /\ k \notin dt.deleted
      BY <1>d, <1>2, KeyFacts
  <2>2. CASE \E g \in got : g.key = k
    <3>1. RecOf(got, k) = r
        BY <1>0, <2>2, RecOfFacts DEF Current
    <3>2. k \in Live(got) \ dt.deleted
        BY <1>2, <2>1, <3>1 DEF Live
    <3> QED
        BY <1>d, <2>1, <3>1, <3>2 DEF AppliedKhatma
  <2>3. CASE \A g \in got : g.key # k
    <3>1. k \notin Live(got)
        BY <2>3, RecOfFacts, NoneTyped DEF Live
    <3>2. \A j \in Live(got) : j[1] # k[1]
      <4> SUFFICES ASSUME NEW j \in Live(got), j[1] = k[1] PROVE FALSE
          OBVIOUS
      <4>1. j \in KhatmaKeys /\ j \in Keys /\ j # WirdKey /\ RecOf(got, j).live /\ j # k
          BY <3>1, KeyFacts DEF Live
      <4>2. PICK g \in got : g.key = j
          BY <4>1, RecOfFacts, NoneTyped
      <4>3. g.rec.live
          BY <4>1, <4>2, RecOfFacts
      <4> QED
          BY <1>0, <1>2, <2>1, <4>1, <4>2, <4>3
    <3>3. dt.khatmas[k] = r.body.at
        BY <1>2, <2>1, <2>3 DEF Current
    <3> QED
        BY <1>d, <2>1, <3>1, <3>2, <3>3 DEF AppliedKhatma
  <2> QED
      BY <2>2, <2>3
<1> QED
    BY <1>1, <1>2 DEF dn

-----------------------------------------------------------------------------
(* Records that are the account's, or that it will tell anew beyond n. *)
GotTrue(got, n) ==
    /\ \A g \in got : g = Current(g.key) \/ account.recs[g.key].chg > n
    /\ \A g \in got : g.key # WirdKey /\ g.rec.live =>
           \A k \in KhatmaKeys : k # g.key /\ k[1] = g.key[1] /\ account.recs[k].live
               => account.recs[k].chg > n

LEMMA HasKept ==
    ASSUME Typed, AccountOK, NEW m \in Meta, NEW dt \in Data, NEW got \in SUBSET Pulled,
           OnePerKey(got), NEW m0 \in Meta, m0.gen = account.gen => GotTrue(got, m0.since),
           Has(m0, dt, {})
    PROVE  Has(m0, Applied(m, dt, got).data, {})
<1> SUFFICES ASSUME m0.gen = account.gen, NEW k \in Keys, account.recs[k].chg <= m0.since
             PROVE  LET r == account.recs[k]
                        dn == Applied(m, dt, got).data IN
              /\ k # WirdKey /\ r.live => dn.khatmas[k] = r.body.at \/ k \in dn.deleted
              /\ k = WirdKey /\ r.live => m0.base = [rev |-> r.rev, wird |-> r.body]
              /\ Deleted(r) => k \in dn.deleted
    BY DEF Has
<1>1. m0.since \in Nat
    BY MetaTyped
<1>2. LET r == account.recs[k] IN
              /\ k # WirdKey /\ r.live => dt.khatmas[k] = r.body.at \/ k \in dt.deleted
              /\ k = WirdKey /\ r.live => m0.base = [rev |-> r.rev, wird |-> r.body]
              /\ Deleted(r) => k \in dt.deleted
    BY DEF Has
<1> QED
    BY <1>1, <1>2, AppliedHas DEF GotTrue

LEMMA HasTaken ==
    ASSUME Typed, AccountOK, NEW m \in Meta, NEW dt \in Data, NEW got \in SUBSET Pulled,
           OnePerKey(got), m.gen = account.gen => GotTrue(got, m.since),
           Has(m, dt, got)
    PROVE  Has(Applied(m, dt, got).meta, Applied(m, dt, got).data, {})
<1>0. /\ Applied(m, dt, got).meta.gen = m.gen /\ Applied(m, dt, got).meta.since = m.since
      /\ Applied(m, dt, got).meta.base = AppliedBase(m, got)
    BY AppliedShape
<1> SUFFICES ASSUME m.gen = account.gen, NEW k \in Keys, account.recs[k].chg <= m.since
             PROVE  LET r == account.recs[k]
                        dn == Applied(m, dt, got).data IN
              /\ k # WirdKey /\ r.live => dn.khatmas[k] = r.body.at \/ k \in dn.deleted
              /\ k = WirdKey /\ r.live =>
                    AppliedBase(m, got) = [rev |-> r.rev, wird |-> r.body]
              /\ Deleted(r) => k \in dn.deleted
    BY <1>0 DEF Has
<1>1. m.since \in Nat /\ account.recs[k].chg \in Nat
    BY MetaTyped, AccountTyped
<1>2. LET r == account.recs[k] IN
              /\ k # WirdKey /\ r.live =>
                    dt.khatmas[k] = r.body.at \/ k \in dt.deleted \/ Current(k) \in got
              /\ k = WirdKey /\ r.live =>
                    m.base = [rev |-> r.rev, wird |-> r.body] \/ Current(k) \in got
              /\ Deleted(r) => k \in dt.deleted \/ Current(k) \in got
    BY DEF Has
<1>3. ASSUME k = WirdKey, account.recs[k].live
      PROVE  AppliedBase(m, got) = [rev |-> account.recs[k].rev, wird |-> account.recs[k].body]
  <2>1. ~Deleted(account.recs[k])
      BY <1>3 DEF Deleted
  <2>2. \A g \in got : g.key = k => g = Current(k)
      BY <1>1 DEF GotTrue
  <2>3. WirdKey \notin Gone(got)
      BY <1>3, <2>1, <2>2, RecOfFacts DEF Current
  <2>4. CASE \E g \in got : g.key = k
    <3>1. RecOf(got, WirdKey) = account.recs[k]
        BY <1>3, <2>2, <2>4, RecOfFacts DEF Current
    <3> QED
        BY <1>3, <2>3, <3>1 DEF AppliedBase
  <2>5. CASE \A g \in got : g.key # k
    <3>1. ~RecOf(got, WirdKey).live
        BY <1>3, <2>5, RecOfFacts, NoneTyped
    <3> QED
        BY <1>2, <1>3, <2>3, <2>5, <3>1 DEF AppliedBase, Current
  <2> QED
      BY <2>4, <2>5
<1> QED
    BY <1>1, <1>2, <1>3, AppliedHas DEF GotTrue

LEMMA KnowsTaken ==
    ASSUME Typed, AccountOK, NEW m \in Meta, Knows(m), NEW dt \in Data,
           NEW got \in SUBSET Pulled, OnePerKey(got), m.gen = 0 => got = {},
           m.gen = account.gen => \A g \in got :
               LET r == account.recs[g.key] IN
               /\ Deleted(g.rec) => Deleted(r)
               /\ g.rec.live => r.rev > 0
               /\ g.rec.live /\ g.key = WirdKey =>
                    g.rec.rev <= r.rev /\ (g.rec.rev = r.rev => g.rec = r)
    PROVE  Knows(Applied(m, dt, got).meta)
<1> DEFINE mn == Applied(m, dt, got).meta
<1>0. /\ mn \in Meta /\ mn.gen = m.gen /\ mn.since = m.since /\ mn.base = AppliedBase(m, got)
      /\ mn.known = (m.known \cup Live(got)) \ Gone(got)
      /\ mn.acked = m.acked \cup Gone(got)
    BY AppliedShape
<1> HIDE DEF mn
<1>1. ASSUME m.gen = 0 PROVE mn = EmptyMeta
  <2>1. m = EmptyMeta /\ got = {}
      BY <1>1 DEF Knows
  <2>2. Gone(got) = {} /\ Live(got) = {} /\ RecOf(got, WirdKey) = Absent
      BY <2>1, NoneTyped DEF Gone, Live, RecOf
  <2>3. mn.gen = 0 /\ mn.since = 0 /\ mn.base = NoBase /\ mn.known = {} /\ mn.acked = {}
      BY <1>0, <2>1, <2>2, NoneTyped DEF AppliedBase
  <2> QED
      BY <1>0, <2>3 DEF Meta, EmptyMeta
<1>2. ASSUME m.gen = account.gen
      PROVE  LET r == account.recs[WirdKey] IN
         /\ mn.since <= account.seq
         /\ \A k \in mn.acked : Deleted(account.recs[k])
         /\ \A k \in mn.known : account.recs[k].rev > 0
         /\ mn.base.rev <= r.rev
         /\ mn.base # NoBase => r.rev > 0
         /\ r.live /\ mn.base.rev = r.rev => mn.base.wird = r.body
  <2>0. /\ m.since <= account.seq
        /\ \A k \in m.acked : Deleted(account.recs[k])
        /\ \A k \in m.known : account.recs[k].rev > 0
        /\ m.base.rev <= account.recs[WirdKey].rev
        /\ m.base # NoBase => account.recs[WirdKey].rev > 0
        /\ account.recs[WirdKey].live /\ m.base.rev = account.recs[WirdKey].rev
              => m.base.wird = account.recs[WirdKey].body
      BY <1>2 DEF Knows
  <2>1. \A k \in Gone(got) : Deleted(account.recs[k])
      BY <1>2 DEF Gone
  <2>2. \A k \in Live(got) : account.recs[k].rev > 0
      BY <1>2, RecOfFacts, NoneTyped, KeyFacts DEF Live
  <2>3. CASE WirdKey \in Gone(got)
    <3>1. mn.base = NoBase /\ Deleted(account.recs[WirdKey])
        BY <1>0, <2>1, <2>3 DEF AppliedBase
    <3> QED
        BY <1>0, <2>0, <2>1, <2>2, <3>1, NoneTyped, AccountTyped, KeyFacts DEF Deleted
  <2>4. CASE WirdKey \notin Gone(got) /\ ~RecOf(got, WirdKey).live
    <3>1. mn.base = m.base
        BY <1>0, <2>4 DEF AppliedBase
    <3> QED
        BY <1>0, <2>0, <2>1, <2>2, <3>1
  <2>5. CASE WirdKey \notin Gone(got) /\ RecOf(got, WirdKey).live
    <3>1. mn.base.rev = RecOf(got, WirdKey).rev /\ mn.base.wird = RecOf(got, WirdKey).body
        BY <1>0, <2>5 DEF AppliedBase
    <3>2. PICK g \in got : g.key = WirdKey /\ g.rec = RecOf(got, WirdKey)
        BY <2>5, RecOfFacts, KeyFacts, NoneTyped
    <3>3. /\ account.recs[WirdKey].rev > 0 /\ mn.base.rev <= account.recs[WirdKey].rev
          /\ mn.base.rev = account.recs[WirdKey].rev => mn.base.wird = account.recs[WirdKey].body
        BY <1>2, <2>5, <3>1, <3>2
    <3> QED
        BY <1>0, <2>0, <2>1, <2>2, <3>3
  <2> QED
      BY <2>3, <2>4, <2>5
<1>3. mn.gen <= account.gen
    BY <1>0 DEF Knows
<1> QED
    BY <1>0, <1>1, <1>2, <1>3 DEF Knows, mn

-----------------------------------------------------------------------------
(* A step of one device; a change of the account. *)
LEMMA StepKept ==
    ASSUME ReadingInv, NEW d \in ReadingDevices, NEW dt \in Data, NEW m \in Meta, NEW s \in Sync,
           DeviceOK(dt, m, s),
           data' = [data EXCEPT ![d] = dt], meta' = [meta EXCEPT ![d] = m],
           sync' = [sync EXCEPT ![d] = s], account' = account,
           strayPush' \in SUBSET ReadingChange, \A c \in strayPush' : ChangeOK(c)
    PROVE  ReadingInv'
<1>1. Typed'
    BY DEF ReadingInv, Typed
<1>2. AccountOK'
    BY DEF ReadingInv, AccountOK, OneKhatmaPerCycle
<1>3. \A x, y, z : DeviceOK(x, y, z) <=> DeviceOK(x, y, z)'
    BY DEF DeviceOK, SyncOK, MarksOK, Knows, Has, GotOK, AnswerOK, Current
<1>4. ASSUME NEW e \in ReadingDevices
      PROVE  DeviceOK(data[e], meta[e], sync[e])'
  <2>1. ASSUME NEW x, NEW y, NEW z, x = data'[e], y = meta'[e], z = sync'[e]
        PROVE  DeviceOK(x, y, z)'
    <3>1. DeviceOK(x, y, z)
        BY <2>1 DEF ReadingInv, Typed
    <3> QED
        BY <1>3, <3>1
  <2> QED
      BY <2>1
<1> QED
    BY <1>1, <1>2, <1>4 DEF ReadingInv

LEMMA DeviceStill ==
    ASSUME Typed, Typed', AccountOK, AccountOK', Grows,
           NEW dt, NEW m \in Meta, NEW s \in Sync, DeviceOK(dt, m, s)
    PROVE  DeviceOK(dt, m, s)'
<1>1. s.meta \in Meta /\ s.got \in SUBSET Pulled /\ s.answer \in Answer
    BY DEF Sync
<1>2. Knows(m)' /\ Has(m, dt, {})'
    BY KnowsStill, HasStill DEF DeviceOK
<1>3. Knows(s.meta)'
    BY <1>1, KnowsStill DEF DeviceOK, SyncOK
<1>4. s.st = "pulling" => GotOK(s.meta, s.got)' /\ Has(s.meta, dt, s.got)'
    BY <1>1, GotStill, HasStill DEF DeviceOK, SyncOK
<1>5. s.st \notin {"idle", "pulling"} => Has(s.meta, dt, {})'
    BY <1>1, HasStill DEF DeviceOK, SyncOK
<1>6. s.st = "answered" => AnswerOK(s.answer, s.meta)'
    BY <1>1, AnswerStill DEF DeviceOK, SyncOK
<1> QED
    BY <1>2, <1>3, <1>4, <1>5, <1>6 DEF DeviceOK, SyncOK, MarksOK

(* The reader changes the device's data. *)
LEMMA EditKept ==
    ASSUME ReadingInv, NEW d \in ReadingDevices, NEW dt \in Data, Edit(d, dt), MarksOK(dt),
           data[d].deleted \subseteq dt.deleted,
           \A k \in KhatmaKeys : \/ dt.khatmas[k] = data[d].khatmas[k]
                                 \/ data[d].khatmas[k] = 0 \/ k \in dt.deleted
    PROVE  ReadingInv'
<1>1. data[d] \in Data /\ meta[d] \in Meta /\ sync[d] \in Sync
      /\ DeviceOK(data[d], meta[d], sync[d])
    BY DEF ReadingInv, Typed
<1>2. ASSUME NEW m, NEW got, Has(m, data[d], got)
      PROVE  Has(m, dt, got)
    BY <1>2, KeyFacts DEF Has, ReadingInv, AccountOK
<1>3. DeviceOK(dt, meta[d], sync[d])
    BY <1>1, <1>2 DEF DeviceOK, SyncOK
<1>4. meta' = [meta EXCEPT ![d] = meta[d]] /\ sync' = [sync EXCEPT ![d] = sync[d]]
      /\ data' = [data EXCEPT ![d] = dt] /\ account' = account /\ strayPush' = strayPush
    BY DEF Edit, ReadingInv, Typed
<1> QED
    BY <1>1, <1>3, <1>4, StepKept DEF ReadingInv, Typed

LEMMA ReaderKept ==
    ASSUME ReadingInv, NEW d \in ReadingDevices, Reader(d)
    PROVE  ReadingInv'
<1>1. data[d] \in Data /\ MarksOK(data[d])
    BY DEF ReadingInv, Typed, DeviceOK
<1>2. data[d] = [wird |-> data[d].wird, khatmas |-> data[d].khatmas, deleted |-> data[d].deleted]
      /\ data[d].wird \in Wird /\ data[d].khatmas \in [KhatmaKeys -> Nat]
      /\ data[d].deleted \in SUBSET Keys
    BY <1>1 DEF Data
<1>3. \A t \in Instants : t \in Nat
    BY ReadingAssumption
<1>4. LastPage \in Page /\ 1 \in Page
    BY ReadingAssumption DEF Page
<1>5. ASSUME NEW p \in Page, NEW t \in Instants, SaveWirdPage(d, p, t)
      PROVE  ReadingInv'
  <2> DEFINE w == data[d].wird
             wn == [w EXCEPT !.page = p, !.at = t, !.saved = @ \/ p # w.page]
             dt == [data[d] EXCEPT !.wird = wn]
  <2>1. Edit(d, dt) /\ w # NoWird
      BY <1>5 DEF SaveWirdPage
  <2>2. wn \in Wird
      BY <1>2, <1>3 DEF Wird
  <2> HIDE DEF wn
  <2>3. dt = [wird |-> wn, khatmas |-> data[d].khatmas, deleted |-> data[d].deleted]
      BY <1>2
  <2> HIDE DEF dt
  <2>4. dt \in Data /\ MarksOK(dt) /\ dt.deleted = data[d].deleted
        /\ dt.khatmas = data[d].khatmas
      BY <1>1, <1>2, <2>1, <2>2, <2>3 DEF Data, MarksOK
  <2> QED
      BY <2>1, <2>4, EditKept
<1>6. ASSUME NEW c \in Cycles, NEW t \in Instants, ConfirmKhatma(d, c, t)
      PROVE  ReadingInv'
  <2>1. PICK k \in KhatmaKeys :
            /\ FreeKhatma(data[d], k)
            /\ Edit(d, [data[d] EXCEPT
                       !.khatmas[k] = t,
                       !.wird = [cyc |-> c, seq |-> data[d].wird.seq + 1, page |-> 1, at |-> t,
                                 saved |-> FALSE, undone |-> NoCycle]])
      BY <1>6 DEF ConfirmKhatma
  <2> DEFINE wn == [cyc |-> c, seq |-> data[d].wird.seq + 1, page |-> 1, at |-> t,
                    saved |-> FALSE, undone |-> NoCycle]
             dt == [data[d] EXCEPT !.khatmas[k] = t, !.wird = wn]
  <2>2. wn \in Wird
      BY <1>2, <1>3, <1>4 DEF Wird
  <2>3. k \notin data[d].deleted /\ data[d].khatmas[k] = 0 /\ data[d].wird # NoWird
      BY <1>6, <2>1 DEF FreeKhatma, ConfirmKhatma
  <2>4. Edit(d, dt)
      BY <2>1
  <2> HIDE DEF wn
  <2>5. dt \in Data /\ dt.deleted = data[d].deleted
        /\ dt.khatmas = [data[d].khatmas EXCEPT ![k] = t]
      BY <1>1, <1>3, <2>2 DEF Data
  <2> HIDE DEF dt
  <2>6. \A j \in KhatmaKeys : j # k => dt.khatmas[j] = data[d].khatmas[j]
      BY <1>2, <2>5
  <2>7. MarksOK(dt)
      BY <1>1, <2>3, <2>5, <2>6 DEF MarksOK
  <2> QED
      BY <2>3, <2>4, <2>5, <2>6, <2>7, EditKept
<1>7. ASSUME NEW k \in KhatmaKeys, RemoveKhatma(d, k)
      PROVE  ReadingInv'
  <2> DEFINE w == data[d].wird
             undo == w # NoWird /\ opened[w.cyc] = k /\ ~w.saved /\ w.page = 1
             wn == IF undo THEN [cyc |-> k[1], seq |-> w.seq + 1, page |-> LastPage,
                                 at |-> w.at, saved |-> TRUE, undone |-> w.cyc]
                   ELSE w
             dt == [data[d] EXCEPT !.khatmas[k] = 0, !.deleted = @ \cup {k}, !.wird = wn]
  <2>1. wn \in Wird /\ (w = NoWird => wn = NoWird)
      BY <1>2, <1>4, KeyFacts DEF Wird
  <2>2. Edit(d, dt)
      BY <1>7 DEF RemoveKhatma
  <2> HIDE DEF wn, undo
  <2>3. dt \in Data /\ dt.deleted = data[d].deleted \cup {k} /\ dt.wird = wn
        /\ dt.khatmas = [data[d].khatmas EXCEPT ![k] = 0]
      BY <1>1, <2>1, KeyFacts DEF Data
  <2> HIDE DEF dt
  <2>4. dt.khatmas[k] = 0 /\ \A j \in KhatmaKeys : j # k => dt.khatmas[j] = data[d].khatmas[j]
      BY <1>2, <2>3
  <2>5. MarksOK(dt)
      BY <1>1, <2>1, <2>3, <2>4, KeyFacts DEF MarksOK
  <2> QED
      BY <2>2, <2>3, <2>4, <2>5, EditKept
<1>8. CASE DeleteWird(d)
  <2> DEFINE dt == [data[d] EXCEPT !.wird = NoWird, !.deleted = @ \cup {WirdKey}]
  <2>1. Edit(d, dt)
      BY <1>8 DEF DeleteWird
  <2>2. dt \in Data /\ dt.deleted = data[d].deleted \cup {WirdKey} /\ dt.wird = NoWird
        /\ dt.khatmas = data[d].khatmas
      BY <1>2, KeyFacts, NoneTyped DEF Data
  <2> HIDE DEF dt
  <2>3. MarksOK(dt)
      BY <1>1, <2>2, KeyFacts DEF MarksOK
  <2> QED
      BY <2>1, <2>2, <2>3, EditKept
<1> QED
    BY <1>5, <1>6, <1>7, <1>8 DEF Reader

-----------------------------------------------------------------------------
(* Failures. *)
LEMMA EmptyKnown ==
    ASSUME Typed, AccountOK, NEW dt
    PROVE  Knows(EmptyMeta) /\ Has(EmptyMeta, dt, {}) /\ GotOK(EmptyMeta, {})
<1>1. \A k \in Keys : account.recs[k].chg <= 0 => ~account.recs[k].live
                                                  /\ ~Deleted(account.recs[k])
    BY AccountTyped DEF AccountOK, Deleted
<1>2. Has(EmptyMeta, dt, {})
    BY <1>1, NoneTyped DEF Has
<1>3. Knows(EmptyMeta)
    BY NoneTyped, KeyFacts, AccountTyped DEF Knows, AccountOK
<1> QED
    BY <1>2, <1>3 DEF GotOK

LEMMA AbandonKept ==
    ASSUME ReadingInv, NEW d \in ReadingDevices, Abandon(d)
    PROVE  ReadingInv'
<1>1. data[d] \in Data /\ meta[d] \in Meta /\ sync[d] \in Sync /\ Typed /\ AccountOK
      /\ DeviceOK(data[d], meta[d], sync[d])
    BY DEF ReadingInv, Typed
<1>2. DeviceOK(data[d], meta[d], NotSyncing)
    BY <1>1, EmptyKnown, NoneTyped DEF DeviceOK, SyncOK
<1>3. meta' = [meta EXCEPT ![d] = meta[d]] /\ sync' = [sync EXCEPT ![d] = NotSyncing]
      /\ data' = [data EXCEPT ![d] = data[d]] /\ account' = account
    BY <1>1 DEF Abandon, Typed
<1>4. strayPush' \in SUBSET ReadingChange /\ \A c \in strayPush' : ChangeOK(c)
  <2>1. sync[d].todo \in SUBSET ReadingChange
      BY <1>1 DEF Sync
  <2>2. strayPush \in SUBSET ReadingChange /\ \A c \in strayPush : ChangeOK(c)
      BY DEF ReadingInv, Typed
  <2>3. \A c \in sync[d].todo : ChangeOK(c)
      BY <1>1 DEF DeviceOK, SyncOK
  <2>4. strayPush' = strayPush \/ strayPush' = strayPush \cup sync[d].todo
      BY DEF Abandon
  <2> QED
      BY <2>1, <2>2, <2>3, <2>4
<1> QED
    BY <1>1, <1>2, <1>3, <1>4, NoneTyped, StepKept

LEMMA LoseKept ==
    ASSUME ReadingInv, NEW d \in ReadingDevices, LoseMeta(d) \/ LoseStops(d)
    PROVE  ReadingInv'
<1>1. data[d] \in Data /\ meta[d] \in Meta /\ sync[d] \in Sync /\ Typed /\ AccountOK
      /\ DeviceOK(data[d], meta[d], sync[d])
      /\ strayPush \in SUBSET ReadingChange /\ \A c \in strayPush : ChangeOK(c)
    BY DEF ReadingInv, Typed
<1>2. CASE LoseMeta(d)
  <2>1. DeviceOK(data[d], EmptyMeta, sync[d])
      BY <1>1, <1>2, EmptyKnown DEF DeviceOK, SyncOK, LoseMeta
  <2>2. meta' = [meta EXCEPT ![d] = EmptyMeta] /\ sync' = [sync EXCEPT ![d] = sync[d]]
        /\ data' = [data EXCEPT ![d] = data[d]] /\ account' = account /\ strayPush' = strayPush
      BY <1>1, <1>2 DEF LoseMeta, Typed
  <2> QED
      BY <1>1, <2>1, <2>2, NoneTyped, StepKept
<1>3. CASE LoseStops(d)
  <2> DEFINE dt == [data[d] EXCEPT !.wird = NoWird]
  <2>1. dt \in Data /\ dt.wird = NoWird /\ dt.khatmas = data[d].khatmas
        /\ dt.deleted = data[d].deleted
      BY <1>1, NoneTyped DEF Data
  <2>2. data' = [data EXCEPT ![d] = dt]
      BY <1>1, <1>3 DEF LoseStops, Typed
  <2> HIDE DEF dt
  <2>3. DeviceOK(dt, meta[d], sync[d])
      BY <1>1, <2>1 DEF DeviceOK, SyncOK, MarksOK, Has
  <2>4. meta' = [meta EXCEPT ![d] = meta[d]] /\ sync' = [sync EXCEPT ![d] = sync[d]]
        /\ account' = account /\ strayPush' = strayPush
      BY <1>1, <1>3 DEF LoseStops, Typed
  <2> QED
      BY <1>1, <2>1, <2>2, <2>3, <2>4, StepKept
<1> QED
    BY <1>2, <1>3

LEMMA StrayKept ==
    ASSUME ReadingInv, DeliverStray
    PROVE  ReadingInv'
<1>1. PICK c \in strayPush : account' = Pushed(c) /\ strayPush' = strayPush \ {c}
                             /\ UNCHANGED <<data, meta, sync>>
    BY DEF DeliverStray
<1>2. c \in ReadingChange /\ ChangeOK(c) /\ Typed /\ AccountOK
    BY DEF ReadingInv, Typed
<1>3. AccountOK' /\ Grows /\ Typed'
    BY <1>1, <1>2, PushedOK, PushedShape DEF Typed
<1>4. ASSUME NEW d \in ReadingDevices
      PROVE  DeviceOK(data[d], meta[d], sync[d])'
  <2>1. \A x \in {data[d]}, m \in {meta[d]}, s \in {sync[d]} : DeviceOK(x, m, s)'
      BY <1>2, <1>3, DeviceStill DEF ReadingInv, Typed
  <2> QED
      BY <1>1, <2>1
<1> QED
    BY <1>1, <1>3, <1>4 DEF ReadingInv

LEMMA ReplaceKept ==
    ASSUME ReadingInv, ReplaceRecords
    PROVE  ReadingInv'
<1>1. PICK n \in 0..account.seq :
        account' = [gen |-> account.gen + 1, seq |-> n,
                    recs |-> [k \in Keys |-> IF account.recs[k].chg <= n THEN account.recs[k]
                                             ELSE Absent]]
    BY DEF ReplaceRecords
<1>u. UNCHANGED <<data, meta, sync, strayPush>> /\ account.gen # 0
    BY DEF ReplaceRecords
<1>2. account.gen \in Nat /\ account.seq \in Nat /\ Typed /\ AccountOK
      /\ account.recs \in [Keys -> AccountRecord]
    BY AccountTyped DEF ReadingInv, Typed
<1> DEFINE left == [k \in Keys |-> IF account.recs[k].chg <= n THEN account.recs[k] ELSE Absent]
<1>3. left \in [Keys -> AccountRecord]
      /\ \A k \in Keys : left[k] = Absent \/ (left[k] = account.recs[k] /\ left[k].chg <= n)
    BY <1>2, NoneTyped
<1>4. account'.gen = account.gen + 1 /\ account'.recs = left /\ account'.seq = n
      /\ account' \in [gen : Nat, seq : Nat, recs : [Keys -> AccountRecord]]
    BY <1>1, <1>2, <1>3
<1> HIDE DEF left
<1>5. Typed'
    BY <1>u, <1>2, <1>4 DEF Typed
<1>6. AccountOK'
  <2>1. OneKhatmaPerCycle'
      BY <1>2, <1>3, <1>4, NoneTyped, KeyFacts DEF AccountOK, OneKhatmaPerCycle
  <2>2. \A k \in Keys : LET r == left[k] IN
          /\ r.rev = 0 => r = Absent
          /\ r.rev > 0 => r.chg \in 1..n
          /\ ~r.live => r.body = NoWird
          /\ r.live => r.rev > 0
          /\ k # WirdKey /\ r.live => r.body.at # 0
      BY <1>2, <1>3, NoneTyped DEF AccountOK
  <2>3. \A j, k \in Keys : left[j].rev > 0 /\ left[k].rev > 0 /\ left[j].chg = left[k].chg => j = k
      BY <1>2, <1>3, NoneTyped DEF AccountOK
  <2> QED
      BY <1>2, <1>4, <1>u, <2>1, <2>2, <2>3 DEF AccountOK
<1>7. ASSUME NEW m \in Meta, Knows(m)
      PROVE  /\ Knows(m)' /\ \A dt, got : Has(m, dt, got)'
             /\ \A got : GotOK(m, got) => GotOK(m, got)'
             /\ \A a \in Answer : AnswerOK(a, m) => AnswerOK(a, m)'
  <2>1. m.gen < account'.gen /\ m.gen \in Nat
      BY <1>2, <1>4, <1>7, MetaTyped DEF Knows
  <2>2. Knows(m)' /\ \A dt, got : Has(m, dt, got)'
      BY <1>4, <1>7, <2>1 DEF Knows, Has
  <2>3. \A got : GotOK(m, got) => GotOK(m, got)'
      BY <1>4, <2>1 DEF GotOK
  <2>4. ASSUME NEW a \in Answer, AnswerOK(a, m)
        PROVE  AnswerOK(a, m)'
    <3>1. a.gen \in 1..account.gen /\ a.gen < account'.gen /\ a.gen \in 1..account'.gen
        BY <1>2, <1>4, <2>4 DEF AnswerOK
    <3> QED
        BY <2>4, <3>1 DEF AnswerOK
  <2> QED
      BY <2>2, <2>3, <2>4
<1>8. ASSUME NEW d \in ReadingDevices
      PROVE  DeviceOK(data[d], meta[d], sync[d])'
  <2>1. \A x \in {data[d]}, m \in {meta[d]}, s \in {sync[d]} : DeviceOK(x, m, s)'
    <3> SUFFICES ASSUME NEW x \in Data, NEW m \in Meta, NEW s \in Sync, DeviceOK(x, m, s)
                 PROVE  DeviceOK(x, m, s)'
        BY DEF ReadingInv, Typed
    <3>1. s.meta \in Meta /\ s.answer \in Answer
        BY DEF Sync
    <3> QED
        BY <1>7, <3>1 DEF DeviceOK, SyncOK, MarksOK
  <2> QED
      BY <1>u, <2>1
<1> QED
    BY <1>u, <1>5, <1>6, <1>8 DEF ReadingInv

-----------------------------------------------------------------------------
(* The steps of a sync. *)
LEMMA ContentTyped ==
    ASSUME NEW t \in Nat
    PROVE  KhatmaContent(t) \in Wird /\ KhatmaContent(t).at = t
    BY NoneTyped DEF KhatmaContent, Wird

LEMMA UploadOK ==
    ASSUME NEW m \in Meta, NEW dt \in Data
    PROVE  ToUpload(m, dt) \in SUBSET ReadingChange /\ \A c \in ToUpload(m, dt) : ChangeOK(c)
<1> SUFFICES ASSUME NEW c \in ToUpload(m, dt) PROVE c \in ReadingChange /\ ChangeOK(c)
    OBVIOUS
<1>1. CASE c = [key |-> WirdKey, del |-> FALSE, base |-> m.base.rev, body |-> dt.wird]
    BY <1>1, MetaTyped, KeyFacts DEF ReadingChange, ChangeOK, Body, Data
<1>2. ASSUME NEW k \in KhatmaKeys, dt.khatmas[k] # 0,
             c = [key |-> k, del |-> FALSE, base |-> 0, body |-> KhatmaContent(dt.khatmas[k])]
      PROVE  c \in ReadingChange /\ ChangeOK(c)
  <2>1. dt.khatmas[k] \in Nat /\ KhatmaContent(dt.khatmas[k]) \in Wird
        /\ KhatmaContent(dt.khatmas[k]).at # 0
      BY <1>2, ContentTyped DEF Data
  <2> QED
      BY <1>2, <2>1, KeyFacts DEF ReadingChange, ChangeOK, Body
<1>3. ASSUME NEW k \in dt.deleted \ m.acked,
             c = [key |-> k, del |-> TRUE, base |-> 0, body |-> NoWird]
      PROVE  c \in ReadingChange /\ ChangeOK(c)
    BY <1>3, NoneTyped DEF ReadingChange, ChangeOK, Body, Data
<1> QED
    BY <1>1, <1>2, <1>3 DEF ToUpload, DeletesToUpload

LEMMA SaveKept ==
    ASSUME ReadingInv, NEW d \in ReadingDevices, SaveMeta(d)
    PROVE  ReadingInv'
<1> DEFINE s == sync[d]
           todo == IF s.todo # {} THEN s.todo ELSE ToUpload(s.meta, data[d])
           sn == IF todo = {} THEN NotSyncing ELSE [s EXCEPT !.st = "ready", !.todo = todo]
<1>1. data[d] \in Data /\ s \in Sync /\ s.meta \in Meta /\ Typed /\ AccountOK
      /\ DeviceOK(data[d], meta[d], s)
      /\ strayPush \in SUBSET ReadingChange /\ \A c \in strayPush : ChangeOK(c)
    BY DEF ReadingInv, Typed, Sync
<1>2. s.st = "saving" /\ meta' = [meta EXCEPT ![d] = s.meta] /\ sync' = [sync EXCEPT ![d] = sn]
      /\ data' = [data EXCEPT ![d] = data[d]] /\ account' = account /\ strayPush' = strayPush
    BY <1>1 DEF SaveMeta, ReaderUntouched, Typed
<1>3. todo \in SUBSET ReadingChange /\ \A c \in todo : ChangeOK(c)
  <2>1. s.todo \in SUBSET ReadingChange /\ \A c \in s.todo : ChangeOK(c)
      BY <1>1 DEF Sync, DeviceOK, SyncOK
  <2> QED
      BY <1>1, <2>1, UploadOK
<1> HIDE DEF todo
<1>4. CASE todo = {}
  <2>1. DeviceOK(data[d], s.meta, NotSyncing)
      BY <1>1, <1>2, EmptyKnown, NoneTyped DEF DeviceOK, SyncOK
  <2> QED
      BY <1>1, <1>2, <1>4, <2>1, NoneTyped, StepKept
<1>5. CASE todo # {}
  <2>1. sn \in Sync /\ sn.st = "ready" /\ sn.todo = todo /\ sn.meta = s.meta
      BY <1>1, <1>3, <1>5 DEF Sync
  <2> HIDE DEF sn
  <2>2. DeviceOK(data[d], s.meta, sn)
      BY <1>1, <1>2, <1>3, <2>1 DEF DeviceOK, SyncOK
  <2> QED
      BY <1>1, <1>2, <2>1, <2>2, StepKept
<1> QED
    BY <1>4, <1>5

(* What the account answers to a change is what it has after it. *)
LEMMA AnswerShape ==
    ASSUME Typed, AccountOK, NEW c \in ReadingChange, ChangeOK(c), account' = Pushed(c)
    PROVE  /\ AnswerTo(c) \in Answer
           /\ AnswerTo(c).gen = account'.gen /\ AnswerTo(c).sent = c
           /\ AnswerTo(c).status = Status(c)
           /\ AnswerTo(c).rec = account'.recs[AnswerTo(c).key]
           /\ IF Status(c) = "duplicate"
              THEN AnswerTo(c).key \in Holder(c.key) ELSE AnswerTo(c).key = c.key
<1> DEFINE k == IF Status(c) = "duplicate" THEN CHOOSE j \in Holder(c.key) : TRUE ELSE c.key
           rec == IF k = c.key THEN Stored(c) ELSE account.recs[k]
           a == [gen |-> Pushed(c).gen, status |-> Status(c), key |-> k, rec |-> rec, sent |-> c]
<1>1. AnswerTo(c) = a
    BY DEF AnswerTo
<1>2. c.key \in Keys
    BY DEF ReadingChange
<1>3. Status(c) = "duplicate" => k \in Holder(c.key)
    BY DEF Status
<1>4. k \in Keys
    BY <1>2, <1>3, KeyFacts DEF Holder
<1>5. rec = account'.recs[k] /\ rec \in AccountRecord /\ account'.gen \in Nat
      /\ account'.gen = Pushed(c).gen
    BY <1>4, PushedShape
<1>6. Status(c) \in {"none", "applied", "conflict", "deleted", "duplicate"}
    BY DEF Status
<1>7. Status(c) # "duplicate" => k = c.key
    OBVIOUS
<1> HIDE DEF k, rec
<1>8. a \in Answer
    BY <1>4, <1>5, <1>6 DEF Answer
<1> QED
    BY <1>1, <1>3, <1>5, <1>7, <1>8

LEMMA AnswerIsOK ==
    ASSUME Typed, AccountOK, NEW c \in ReadingChange, ChangeOK(c), account' = Pushed(c),
           NEW m \in Meta, Knows(m), NEW a, a = AnswerTo(c)
    PROVE  AnswerOK(a, m)'
<1>0. c.key \in Keys /\ c.del \in BOOLEAN /\ AccountOK' /\ Grows /\ a \in Answer
    BY PushedOK, AnswerShape DEF ReadingChange
<1>1. account.gen \in Nat /\ account.seq \in Nat /\ m.gen \in Nat /\ m.since \in Nat
    BY AccountTyped, MetaTyped
<1>2. a.gen = account'.gen /\ a.gen \in 1..account'.gen /\ m.gen <= a.gen
    BY <1>1, AnswerShape, PushedShape DEF Knows
<1>3. a.sent = c /\ a.status = Status(c) /\ a.rec = account'.recs[a.key] /\ a.key \in Keys
    BY AnswerShape, <1>0 DEF Answer
<1>4. a.status = "duplicate" =>
         a.sent.key # WirdKey /\ ~account'.recs[a.sent.key].live
  <2>1. SUFFICES ASSUME Status(c) = "duplicate"
                 PROVE  c.key # WirdKey /\ ~account'.recs[c.key].live
      BY <1>3
  <2>2. c.key # WirdKey /\ ~account.recs[c.key].live /\ ~Writes(c)
      BY <2>1 DEF Status, Writes
  <2> QED
      BY <2>2, PushedShape
<1>5. a.status = "applied" => a.key = c.key /\ a.rec = Stored(c)
    BY <1>3, AnswerShape, PushedShape
<1>6. ASSUME a.status = "applied"
      PROVE  /\ a.rec.rev > 0
             /\ ~c.del => a.rec.live
             /\ ~c.del /\ c.key = WirdKey => a.rec.body = c.body
  <2>1. CASE Writes(c)
    <3>1. a.rec.rev = account.recs[c.key].rev + 1 /\ a.rec.live = ~c.del /\ a.rec.body = c.body
        BY <1>5, <1>6, <2>1, PushedShape
    <3>2. account.recs[c.key].rev \in Nat
        BY <1>0, AccountTyped
    <3>3. a.rec.rev > 0
        BY <3>1, <3>2
    <3> QED
        BY <3>1, <3>3
  <2>2. CASE ~Writes(c)
    <3>1. a.rec = account.recs[c.key]
        BY <1>5, <1>6, <2>2, PushedShape
    <3>2. IF c.del THEN Deleted(account.recs[c.key])
          ELSE c.key # WirdKey /\ account.recs[c.key].live
        BY <1>3, <1>6, <2>2 DEF Writes
    <3> QED
        BY <1>0, <3>1, <3>2 DEF AccountOK, Deleted
  <2> QED
      BY <2>1, <2>2
<1>7. a.rec.live => a.rec.rev > 0
    BY <1>0, <1>3 DEF AccountOK
<1>8. a.rec.live /\ a.key # WirdKey =>
           \A k \in KhatmaKeys : k # a.key /\ k[1] = a.key[1] => ~account'.recs[k].live
    BY <1>0, <1>3, KeyFacts DEF AccountOK, OneKhatmaPerCycle
<1> QED
    BY <1>2, <1>3, <1>4, <1>5, <1>6, <1>7, <1>8 DEF AnswerOK

LEMMA PushKept ==
    ASSUME ReadingInv, NEW d \in ReadingDevices, PushChange(d)
    PROVE  ReadingInv'
<1> DEFINE s == sync[d]
<1>1. PICK c \in FirstOf(s.todo) :
          /\ s.st = "ready" /\ account' = Pushed(c)
          /\ sync' = [sync EXCEPT ![d] = [s EXCEPT !.st = "answered", !.todo = @ \ {c},
                                                   !.answer = AnswerTo(c)]]
          /\ UNCHANGED <<data, meta, strayPush>>
    BY DEF PushChange, ReaderUntouched
<1>2. s \in Sync /\ s.meta \in Meta /\ s.todo \in SUBSET ReadingChange /\ Typed /\ AccountOK
      /\ meta[d] \in Meta /\ DeviceOK(data[d], meta[d], s)
    BY DEF ReadingInv, Typed, Sync
<1>3. c \in s.todo /\ c \in ReadingChange /\ ChangeOK(c)
    BY <1>2 DEF FirstOf, DeviceOK, SyncOK
<1> DEFINE sn == [s EXCEPT !.st = "answered", !.todo = @ \ {c}, !.answer = AnswerTo(c)]
<1>4. sync' = [sync EXCEPT ![d] = sn]
    BY <1>1
<1>5. AnswerTo(c) \in Answer /\ AccountOK' /\ Grows
    BY <1>1, <1>2, <1>3, AnswerShape, PushedOK
<1>6. sn \in Sync /\ sn.st = "answered" /\ sn.meta = s.meta /\ sn.todo = s.todo \ {c}
      /\ sn.answer = AnswerTo(c)
    BY <1>2, <1>5 DEF Sync
<1> HIDE DEF sn
<1>7. Typed'
  <2>1. account' \in [gen : Nat, seq : Nat, recs : [Keys -> AccountRecord]]
      BY <1>1, <1>2, <1>3, PushedShape
  <2> QED
      BY <1>1, <1>2, <1>4, <1>6, <2>1 DEF Typed
<1>8. ASSUME NEW x, NEW m \in Meta, NEW z \in Sync, DeviceOK(x, m, z)
      PROVE  DeviceOK(x, m, z)'
    BY <1>2, <1>5, <1>7, <1>8, DeviceStill
<1>9. ASSUME NEW x, NEW m, NEW z, x = data[d], m = meta[d], z = sn
      PROVE  DeviceOK(x, m, z)'
  <2>1. DeviceOK(x, m, s) /\ m \in Meta /\ m = s.meta /\ s.st = "ready"
      BY <1>1, <1>2, <1>9 DEF DeviceOK, SyncOK
  <2>2. Knows(m)' /\ Has(m, x, {})' /\ MarksOK(x)
      BY <1>2, <1>5, <1>7, <2>1, KnowsStill, HasStill DEF DeviceOK
  <2>3. \A a : a = AnswerTo(c) => AnswerOK(a, m)'
      BY <1>1, <1>2, <1>3, <2>1, AnswerIsOK DEF DeviceOK
  <2>4. \A e \in z.todo : ChangeOK(e)
      BY <1>2, <1>6, <1>9 DEF DeviceOK, SyncOK
  <2>5. z.st = "answered" /\ z.meta = m /\ z.answer = AnswerTo(c)
      BY <1>6, <1>9, <2>1
  <2> QED
      BY <2>2, <2>3, <2>4, <2>5 DEF DeviceOK, SyncOK, MarksOK
<1>10. ASSUME NEW e \in ReadingDevices
       PROVE  DeviceOK(data[e], meta[e], sync[e])'
  <2>1. CASE e = d
    <3>1. \A x, m, z : x = data'[e] /\ m = meta'[e] /\ z = sync'[e] => DeviceOK(x, m, z)'
        BY <1>1, <1>2, <1>4, <1>9, <2>1 DEF Typed
    <3> QED
        BY <3>1
  <2>2. CASE e # d
    <3>1. DeviceOK(data[e], meta[e], sync[e]) /\ meta[e] \in Meta /\ sync[e] \in Sync
        BY DEF ReadingInv, Typed
    <3>2. \A x, m, z : x = data'[e] /\ m = meta'[e] /\ z = sync'[e] => DeviceOK(x, m, z)'
        BY <1>1, <1>2, <1>4, <1>8, <2>2, <3>1 DEF Typed
    <3> QED
        BY <3>2
  <2> QED
      BY <2>1, <2>2
<1> QED
    BY <1>1, <1>5, <1>7, <1>10 DEF ReadingInv

(* applyResults. *)
LEMMA FreshFacts ==
    ASSUME Typed, AccountOK, NEW m \in Meta, NEW dt \in Data, NEW a \in Answer,
           Knows(m), Has(m, dt, {}), AnswerOK(a, m), m.gen = 0 \/ a.gen = m.gen
    PROVE  LET fresh == [m EXCEPT !.gen = a.gen] IN
           /\ fresh \in Meta /\ fresh.gen = a.gen /\ fresh.since = m.since
           /\ Knows(fresh) /\ Has(fresh, dt, {}) /\ fresh.gen # 0
<1> DEFINE fresh == [m EXCEPT !.gen = a.gen]
<1>1. a.gen \in Nat /\ a.gen # 0 /\ a.gen <= account.gen
    BY AccountTyped DEF Answer, AnswerOK
<1>2. fresh \in Meta /\ fresh.gen = a.gen /\ fresh.since = m.since /\ fresh.base = m.base
      /\ fresh.known = m.known /\ fresh.acked = m.acked
    BY <1>1 DEF Meta
<1> HIDE DEF fresh
<1>3. CASE m.gen = 0
  <2>1. m = EmptyMeta
      BY <1>3 DEF Knows
  <2>2. \A k \in Keys : account.recs[k].chg <= 0 => ~account.recs[k].live
                                                    /\ ~Deleted(account.recs[k])
      BY AccountTyped DEF AccountOK, Deleted
  <2>3. Has(fresh, dt, {})
      BY <1>2, <2>1, <2>2, NoneTyped DEF Has
  <2>4. Knows(fresh)
    <3>1. \A k \in Keys : account.recs[k].live => account.recs[k].rev # 0
        BY AccountTyped DEF AccountOK
    <3> QED
        BY <1>1, <1>2, <2>1, <3>1, NoneTyped, KeyFacts, AccountTyped DEF Knows
  <2> QED
      BY <1>1, <1>2, <2>3, <2>4 DEF fresh
<1>4. CASE a.gen = m.gen
  <2>1. Has(fresh, dt, {})
      BY <1>2, <1>4 DEF Has
  <2>2. Knows(fresh)
      BY <1>1, <1>2, <1>4 DEF Knows
  <2> QED
      BY <1>1, <1>2, <2>1, <2>2 DEF fresh
<1> QED
    BY <1>3, <1>4

LEMMA ResultOK ==
    ASSUME Typed, AccountOK, NEW m \in Meta, NEW dt \in Data, NEW a \in Answer, MarksOK(dt),
           Knows(m), Has(m, dt, {}), AnswerOK(a, m), m.gen = 0 \/ a.gen = m.gen
    PROVE  LET next == ResultApplied(m, dt, a) IN
           /\ next.data \in Data /\ next.meta \in Meta /\ MarksOK(next.data)
           /\ dt.deleted \subseteq next.data.deleted
           /\ Has(m, next.data, {})
           /\ Knows(next.meta) /\ Has(next.meta, next.data, {})
<1> DEFINE fresh == [m EXCEPT !.gen = a.gen]
           next == ResultApplied(m, dt, a)
<1>1. /\ fresh \in Meta /\ fresh.gen = a.gen /\ fresh.since = m.since
      /\ Knows(fresh) /\ Has(fresh, dt, {}) /\ fresh.gen # 0
    BY FreshFacts
<1>2. a.key \in Keys /\ a.rec \in AccountRecord /\ a.gen \in Nat /\ a.sent \in ReadingChange
      /\ a.rec.rev \in Nat /\ a.rec.body \in Wird /\ a.sent.body \in Wird
      /\ account.gen \in Nat /\ account.recs[a.key].rev \in Nat
      /\ account.recs[a.key].chg \in Nat
    BY AccountTyped DEF Answer, AccountRecord, Body, ReadingChange
<1>3. CASE Taken(a)
  <2> DEFINE base == IF a.key = WirdKey THEN [fresh EXCEPT !.base = Acknowledged(dt, a)]
                     ELSE [fresh EXCEPT !.known = @ \cup {a.key}]
  <2>1. next.data = dt /\ next.meta = base
      BY <1>3 DEF ResultApplied
  <2>2. a.status = "applied" /\ ~a.sent.del /\ a.rec.rev > 0 /\ a.rec.live
        /\ (a.key = WirdKey => a.rec.body = a.sent.body)
      BY <1>3 DEF Taken, AnswerOK
  <2>3. fresh.gen = account.gen => /\ a.rec.rev <= account.recs[a.key].rev
                                   /\ account.recs[a.key].rev > 0
                                   /\ a.rec = account.recs[a.key]
                                      \/ (account.recs[a.key].chg > m.since
                                          /\ account.recs[a.key].rev > a.rec.rev)
      BY <1>1, <1>2, <2>2 DEF AnswerOK
  <2> HIDE DEF fresh
  <2>4. CASE a.key = WirdKey
    <3> DEFINE mn == [fresh EXCEPT !.base = Acknowledged(dt, a)]
    <3>1. next.meta = mn
        BY <2>1, <2>4
    <3>2. Acknowledged(dt, a) = [rev |-> a.rec.rev, wird |-> a.rec.body]
        BY <2>2, <2>4 DEF Acknowledged
    <3>3. mn \in Meta /\ mn.gen = fresh.gen /\ mn.since = fresh.since
          /\ mn.known = fresh.known /\ mn.acked = fresh.acked
          /\ mn.base = [rev |-> a.rec.rev, wird |-> a.rec.body]
          /\ mn.base.rev = a.rec.rev /\ mn.base.wird = a.rec.body
        BY <1>1, <1>2, <3>2 DEF Meta
    <3> HIDE DEF mn
    <3>4. Knows(mn)
        BY <1>1, <1>2, <2>3, <2>4, <3>3 DEF Knows
    <3>5. Has(mn, dt, {})
        BY <1>1, <1>2, <2>3, <2>4, <3>3, MetaTyped DEF Has
    <3> QED
        BY <2>1, <3>1, <3>3, <3>4, <3>5
  <2>5. CASE a.key # WirdKey
    <3> DEFINE mn == [fresh EXCEPT !.known = @ \cup {a.key}]
    <3>1. next.meta = mn
        BY <2>1, <2>5
    <3>3. mn \in Meta /\ mn.gen = fresh.gen /\ mn.since = fresh.since
          /\ mn.known = fresh.known \cup {a.key} /\ mn.acked = fresh.acked
          /\ mn.base = fresh.base
        BY <1>1, <1>2, <2>5, KeyFacts DEF Meta
    <3> HIDE DEF mn
    <3>4. Knows(mn)
        BY <1>1, <1>2, <2>3, <3>3 DEF Knows
    <3>5. Has(mn, dt, {})
        BY <1>1, <3>3 DEF Has
    <3> QED
        BY <2>1, <3>1, <3>3, <3>4, <3>5
  <2> QED
      BY <2>4, <2>5
<1>4. CASE ~Taken(a)
  <2> DEFINE dropped == IF a.status = "duplicate" THEN [dt EXCEPT !.khatmas[a.sent.key] = 0]
                        ELSE dt
             got == {[key |-> a.key, rec |-> a.rec]}
  <2>1. next = Applied(fresh, dropped, got)
      BY <1>4 DEF ResultApplied
  <2>2. a.status = "duplicate" => a.sent.key \in KhatmaKeys
      BY <1>2, KeyFacts DEF AnswerOK, ReadingChange
  <2>3. dropped \in Data /\ dropped.wird = dt.wird /\ dropped.deleted = dt.deleted
        /\ \A k \in KhatmaKeys : dropped.khatmas[k] =
             IF a.status = "duplicate" /\ k = a.sent.key THEN 0 ELSE dt.khatmas[k]
      BY <2>2 DEF Data
  <2> HIDE DEF dropped
  <2>4. MarksOK(dropped)
      BY <2>3 DEF MarksOK
  <2>5. got \in SUBSET Pulled /\ OnePerKey(got)
      BY <1>2 DEF Pulled, OnePerKey
  <2>6. ASSUME a.gen = account.gen
        PROVE  /\ GotTrue(got, m.since)
               /\ \A m0 \in Meta : m0.since = m.since /\ Has(m0, dt, {}) => Has(m0, dropped, {})
    <3>1. GotTrue(got, m.since)
        BY <2>6 DEF GotTrue, AnswerOK, Current
    <3>2. a.status = "duplicate" /\ account.recs[a.sent.key].live
              => account.recs[a.sent.key].chg > m.since
        BY <2>6 DEF AnswerOK
    <3>3. ASSUME NEW m0 \in Meta, m0.since = m.since, Has(m0, dt, {})
          PROVE  Has(m0, dropped, {})
      <4> SUFFICES ASSUME m0.gen = account.gen, NEW k \in Keys,
                          account.recs[k].chg <= m0.since, k # WirdKey, account.recs[k].live
                   PROVE  \/ dropped.khatmas[k] = account.recs[k].body.at
                          \/ k \in dropped.deleted
          BY <2>3, <3>3 DEF Has
      <4>1. dt.khatmas[k] = account.recs[k].body.at \/ k \in dt.deleted
          BY <3>3 DEF Has
      <4>2. ~(a.status = "duplicate" /\ k = a.sent.key)
          BY <3>2, <3>3, AccountTyped, MetaTyped
      <4> QED
          BY <2>3, <4>1, <4>2, KeyFacts
    <3> QED
        BY <3>1, <3>3
  <2>7. m.gen = account.gen => a.gen = account.gen
      BY <1>2 DEF AnswerOK
  <2>8. Has(m, next.data, {})
    <3>1. Has(m, dropped, {})
        BY <2>6, <2>7 DEF Has
    <3> QED
        BY <1>1, <2>1, <2>3, <2>5, <2>6, <2>7, <3>1, HasKept
  <2>9. Has(next.meta, next.data, {})
    <3>1. Has(fresh, dropped, {})
        BY <1>1, <2>6 DEF Has
    <3>2. Has(fresh, dropped, got)
        BY <3>1 DEF Has
    <3> QED
        BY <1>1, <2>1, <2>3, <2>5, <2>6, <3>2, HasTaken
  <2>10. Knows(next.meta)
    <3>1. ASSUME a.gen = account.gen, NEW g \in got
          PROVE  LET r == account.recs[g.key] IN
               /\ Deleted(g.rec) => Deleted(r)
               /\ g.rec.live => r.rev > 0
               /\ g.rec.live /\ g.key = WirdKey =>
                    g.rec.rev <= r.rev /\ (g.rec.rev = r.rev => g.rec = r)
      <4>1. a.rec = account.recs[a.key] \/ account.recs[a.key].rev > a.rec.rev
          BY <3>1 DEF AnswerOK
      <4>2. (Deleted(a.rec) => Deleted(account.recs[a.key])) /\ (a.rec.live => a.rec.rev > 0)
          BY <3>1 DEF AnswerOK
      <4> QED
          BY <1>2, <4>1, <4>2
    <3> QED
        BY <1>1, <2>1, <2>3, <2>5, <3>1, KnowsTaken
  <2>11. next.data \in Data /\ next.meta \in Meta
         /\ next.data.deleted = dropped.deleted \cup Gone(got)
    <3> HIDE DEF fresh, got
    <3> QED
        BY <1>1, <2>1, <2>3, <2>5, AppliedShape
  <2>12. MarksOK(next.data)
    <3> HIDE DEF fresh, got
    <3> QED
        BY <1>1, <2>1, <2>3, <2>4, <2>5, AppliedMarks
  <2>13. dt.deleted \subseteq next.data.deleted
      BY <2>3, <2>11
  <2> HIDE DEF next
  <2> QED
      BY <2>8, <2>9, <2>10, <2>11, <2>12, <2>13 DEF next
<1> QED
    BY <1>3, <1>4

LEMMA ReceiveKept ==
    ASSUME ReadingInv, NEW d \in ReadingDevices, ReceiveResult(d)
    PROVE  ReadingInv'
<1> DEFINE s == sync[d]
           a == s.answer
           next == ResultApplied(s.meta, data[d], a)
           restart == s.meta.gen # 0 /\ a.gen # s.meta.gen
<1>1. data[d] \in Data /\ s \in Sync /\ s.meta \in Meta /\ a \in Answer /\ Typed /\ AccountOK
      /\ meta[d] \in Meta /\ DeviceOK(data[d], meta[d], s)
      /\ strayPush \in SUBSET ReadingChange /\ \A c \in strayPush : ChangeOK(c)
    BY DEF ReadingInv, Typed, Sync
<1>2. s.st = "answered" /\ meta[d] = s.meta /\ AnswerOK(a, s.meta)
      /\ Knows(s.meta) /\ Has(s.meta, data[d], {}) /\ MarksOK(data[d])
      /\ \A c \in s.todo : ChangeOK(c)
    BY <1>1 DEF ReceiveResult, DeviceOK, SyncOK
<1>3. meta' = [meta EXCEPT ![d] = meta[d]] /\ account' = account /\ strayPush' = strayPush
    BY <1>1 DEF ReceiveResult, ReaderUntouched, Typed
<1>4. CASE restart
  <2> DEFINE sn == [NotSyncing EXCEPT !.st = "pulling"]
  <2>1. data' = [data EXCEPT ![d] = data[d]] /\ sync' = [sync EXCEPT ![d] = sn]
      BY <1>1, <1>4 DEF ReceiveResult, Typed
  <2>2. sn \in Sync /\ sn.st = "pulling" /\ sn.meta = EmptyMeta /\ sn.todo = {} /\ sn.got = {}
      BY NoneTyped DEF Sync
  <2> HIDE DEF sn
  <2>3. DeviceOK(data[d], meta[d], sn)
      BY <1>1, <2>2, EmptyKnown DEF DeviceOK, SyncOK
  <2> QED
      BY <1>1, <1>3, <2>1, <2>2, <2>3, StepKept
<1>5. CASE ~restart
  <2> DEFINE sn == [s EXCEPT !.st = "saving", !.meta = next.meta, !.answer = NoAnswer]
  <2>1. data' = [data EXCEPT ![d] = next.data] /\ sync' = [sync EXCEPT ![d] = sn]
      BY <1>5 DEF ReceiveResult
  <2>2. /\ next.data \in Data /\ next.meta \in Meta /\ MarksOK(next.data)
        /\ Has(meta[d], next.data, {}) /\ Knows(next.meta) /\ Has(next.meta, next.data, {})
      BY <1>1, <1>2, <1>5, ResultOK
  <2> HIDE DEF next
  <2>3. sn \in Sync /\ sn.st = "saving" /\ sn.meta = next.meta /\ sn.todo = s.todo
      BY <1>1, <2>2, NoneTyped DEF Sync
  <2> HIDE DEF sn
  <2>4. DeviceOK(next.data, meta[d], sn)
      BY <1>2, <2>2, <2>3 DEF DeviceOK, SyncOK
  <2> QED
      BY <1>1, <1>3, <2>1, <2>2, <2>3, <2>4, StepKept
<1> QED
    BY <1>4, <1>5

(* A page of the feed. *)
LEMMA DownloadFacts ==
    ASSUME NEW m \in Meta, NEW dt \in Data, MarksOK(dt), NEW got \in SUBSET Pulled,
           OnePerKey(got)
    PROVE  LET next == AppliedDownload(m, dt, got)
               ap == Applied(m, dt, got) IN
           /\ next.meta = ap.meta /\ next.data \in Data /\ MarksOK(next.data)
           /\ next.data.khatmas = ap.data.khatmas /\ next.data.deleted = ap.data.deleted
<1> DEFINE next == AppliedDownload(m, dt, got)
           ap == Applied(m, dt, got)
<1>1. ap.data \in Data /\ ap.meta \in Meta /\ MarksOK(ap.data) /\ ap.meta.base.wird \in Wird
    BY AppliedShape, AppliedMarks, MetaTyped
<1>2. ap = [data |-> ap.data, meta |-> ap.meta]
    BY DEF Applied
<1>3. CASE ap.data.wird = NoWird /\ WirdKey \notin ap.data.deleted
  <2> DEFINE dn == [ap.data EXCEPT !.wird = ap.meta.base.wird]
  <2>1. next = [ap EXCEPT !.data.wird = ap.meta.base.wird]
      BY <1>3 DEF AppliedDownload
  <2> HIDE DEF ap
  <2>2. next.meta = ap.meta /\ next.data = dn
      BY <1>2, <2>1
  <2>3. dn \in Data /\ dn.khatmas = ap.data.khatmas /\ dn.deleted = ap.data.deleted
      BY <1>1 DEF Data
  <2> HIDE DEF dn
  <2>4. MarksOK(dn)
      BY <1>1, <1>3, <2>3 DEF MarksOK
  <2> QED
      BY <1>1, <2>2, <2>3, <2>4 DEF ap
<1>4. CASE ~(ap.data.wird = NoWird /\ WirdKey \notin ap.data.deleted)
  <2>1. next = ap
      BY <1>4 DEF AppliedDownload
  <2> QED
      BY <1>1, <2>1
<1> QED
    BY <1>3, <1>4

LEMMA PullKept ==
    ASSUME ReadingInv, NEW d \in ReadingDevices, PullPage(d)
    PROVE  ReadingInv'
<1> DEFINE s == IF sync[d].st = "idle"
                THEN [NotSyncing EXCEPT !.st = "pulling", !.meta = meta[d]] ELSE sync[d]
           dt == data[d]
           new == Newer(s.meta.since)
           first == CHOOSE k \in new : \A j \in new :
                        account.recs[k].chg <= account.recs[j].chg
           last == \A k \in new : k = first
           page == IF new = {} THEN {} ELSE {[key |-> first, rec |-> account.recs[first]]}
           got == {g \in s.got : new = {} \/ g.key # first} \cup page
           m == [s.meta EXCEPT !.gen = IF account.gen = 0 THEN @ ELSE account.gen,
                               !.since = IF new = {} THEN @ ELSE NextSince(first)]
           next == AppliedDownload(m, dt, got)
           again == account.gen # 0 /\ s.meta.gen \notin {0, account.gen}
<1>1. dt \in Data /\ meta[d] \in Meta /\ sync[d] \in Sync /\ Typed /\ AccountOK
      /\ DeviceOK(dt, meta[d], sync[d])
      /\ strayPush \in SUBSET ReadingChange /\ \A c \in strayPush : ChangeOK(c)
    BY DEF ReadingInv, Typed
<1>2. /\ s.st = "pulling"
      /\ meta' = [meta EXCEPT ![d] = meta[d]] /\ account' = account /\ strayPush' = strayPush
      /\ \/ /\ again
            /\ sync' = [sync EXCEPT ![d] =
                 [s EXCEPT !.meta = [EmptyMeta EXCEPT !.gen = account.gen], !.got = {}]]
            /\ data' = data
         \/ /\ ~again /\ ~last
            /\ sync' = [sync EXCEPT ![d] = [s EXCEPT !.meta = m, !.got = got]]
            /\ data' = data
         \/ /\ ~again /\ last
            /\ sync' = [sync EXCEPT ![d] =
                 [s EXCEPT !.st = "saving", !.meta = next.meta, !.got = {}]]
            /\ data' = [data EXCEPT ![d] = next.data]
    BY <1>1 DEF PullPage, ReaderUntouched, Typed
<1>3. /\ s \in Sync /\ s.meta \in Meta /\ s.got \in SUBSET Pulled
      /\ Knows(s.meta) /\ GotOK(s.meta, s.got) /\ Has(s.meta, dt, s.got)
      /\ \A c \in s.todo : ChangeOK(c)
      /\ MarksOK(dt) /\ Knows(meta[d]) /\ Has(meta[d], dt, {})
  <2>1. CASE sync[d].st = "idle"
    <3>1. s \in Sync /\ s.meta = meta[d] /\ s.got = {} /\ s.todo = {}
        BY <1>1, <2>1, NoneTyped DEF Sync
    <3> HIDE DEF s
    <3> QED
        BY <1>1, <3>1 DEF DeviceOK, GotOK
  <2>2. CASE sync[d].st # "idle"
    <3>1. s = sync[d]
        BY <2>2
    <3> HIDE DEF s
    <3> QED
        BY <1>1, <1>2, <3>1 DEF DeviceOK, SyncOK, Sync
  <2> QED
      BY <2>1, <2>2
<1> HIDE DEF s
<1>4. CASE again
  <2> DEFINE mn == [EmptyMeta EXCEPT !.gen = account.gen]
             sn == [s EXCEPT !.meta = mn, !.got = {}]
  <2>1. mn \in Meta /\ mn.gen = account.gen /\ mn.since = 0 /\ mn.base = NoBase
        /\ mn.known = {} /\ mn.acked = {}
      BY <1>1, NoneTyped, AccountTyped DEF Meta
  <2> HIDE DEF mn
  <2>2. sn \in Sync /\ sn.st = "pulling" /\ sn.meta = mn /\ sn.got = {} /\ sn.todo = s.todo
      BY <1>2, <1>3, <2>1 DEF Sync
  <2>3. data' = [data EXCEPT ![d] = dt] /\ sync' = [sync EXCEPT ![d] = sn]
      BY <1>1, <1>2, <1>4 DEF Typed, mn
  <2> HIDE DEF sn
  <2>4. \A k \in Keys : /\ account.recs[k].chg <= 0 => ~account.recs[k].live
                                                       /\ ~Deleted(account.recs[k])
                        /\ account.recs[k].live => account.recs[k].rev # 0
      BY <1>1, AccountTyped DEF AccountOK, Deleted
  <2>5. Has(mn, dt, {})
      BY <2>1, <2>4 DEF Has
  <2>6. Knows(mn)
      BY <1>1, <1>4, <2>1, <2>4, NoneTyped, KeyFacts, AccountTyped DEF Knows
  <2>7. GotOK(mn, {})
      BY DEF GotOK
  <2>8. DeviceOK(dt, meta[d], sn)
      BY <1>3, <2>2, <2>5, <2>6, <2>7 DEF DeviceOK, SyncOK
  <2> QED
      BY <1>1, <1>2, <2>2, <2>3, <2>8, StepKept
<1>5. ASSUME ~again
      PROVE  /\ m \in Meta /\ m.since \in Nat /\ s.meta.since <= m.since
             /\ m.gen = (IF account.gen = 0 THEN s.meta.gen ELSE account.gen)
             /\ m.base = s.meta.base /\ m.known = s.meta.known /\ m.acked = s.meta.acked
             /\ new # {} => first \in new /\ m.since = account.recs[first].chg
             /\ new = {} => m.since = s.meta.since
             /\ \A k \in new : account.recs[k].chg <= m.since => k = first
             /\ m.gen = account.gen
             /\ Knows(m)
             /\ s.meta.gen # account.gen => s.got = {} /\ s.meta.since = 0
             /\ new \in SUBSET Keys
             /\ \A k \in Keys \ new : account.recs[k].chg <= s.meta.since
  <2>0. /\ account.gen \in Nat /\ s.meta.gen \in Nat /\ s.meta.since \in Nat
        /\ \A k \in Keys : account.recs[k].chg \in Nat /\ account.recs[k].rev \in Nat
      BY <1>1, <1>3, AccountTyped, MetaTyped
  <2>1. new \in SUBSET Keys /\ \A k \in Keys : k \in new <=> account.recs[k].chg > s.meta.since
      BY DEF Newer
  <2> HIDE DEF new
  <2>2. new # {} => /\ first \in new
                    /\ \A j \in new : account.recs[first].chg <= account.recs[j].chg
      BY <1>1, <2>1, FirstNew
  <2> HIDE DEF first
  <2>3. s.meta = [gen |-> s.meta.gen, since |-> s.meta.since, base |-> s.meta.base,
                  known |-> s.meta.known, acked |-> s.meta.acked]
      BY <1>3 DEF Meta
  <2>4. /\ m.gen = (IF account.gen = 0 THEN s.meta.gen ELSE account.gen)
        /\ m.since = (IF new = {} THEN s.meta.since ELSE account.recs[first].chg)
        /\ m.base = s.meta.base /\ m.known = s.meta.known /\ m.acked = s.meta.acked
      BY <1>3, <2>3 DEF NextSince, Meta
  <2>5. (IF account.gen = 0 THEN s.meta.gen ELSE account.gen) \in Nat
        /\ (IF new = {} THEN s.meta.since ELSE account.recs[first].chg) \in Nat
      BY <2>0, <2>1, <2>2
  <2>6. m \in Meta
      BY <1>3, <2>5 DEF NextSince, Meta
  <2> HIDE DEF m
  <2>7. m.gen = account.gen /\ (account.gen = 0 => s.meta.gen = 0)
      BY <1>3, <2>0, <2>4 DEF Knows
  <2>8. s.meta.gen # account.gen => s.meta = EmptyMeta /\ s.got = {} /\ s.meta.gen = 0
      BY <1>3, <1>5, <2>7 DEF Knows, GotOK
  <2>9. \A k \in new : account.recs[k].rev > 0
      BY <1>1, <2>0, <2>1, NoneTyped DEF AccountOK
  <2>10. \A k \in new : account.recs[k].chg <= m.since => k = first
      BY <1>1, <2>0, <2>1, <2>2, <2>4, <2>9 DEF AccountOK
  <2>11. m.since <= account.seq /\ s.meta.since <= m.since
    <3>1. s.meta.since <= account.seq
        BY <1>1, <1>3, <2>0, <2>8, NoneTyped, AccountTyped DEF Knows
    <3> QED
        BY <1>1, <2>0, <2>1, <2>2, <2>4, <2>9, <3>1 DEF AccountOK
  <2>12. Knows(m)
    <3>1. CASE s.meta.gen = account.gen
      <4>1. m.gen = 0 => m = EmptyMeta
        <5> SUFFICES ASSUME m.gen = 0 PROVE m = EmptyMeta
            OBVIOUS
        <5>1. s.meta = EmptyMeta /\ account.gen = 0
            BY <1>3, <2>7, <3>1 DEF Knows
        <5>2. new = {}
            BY <1>1, <2>0, <2>9, <2>1, <5>1 DEF AccountOK
        <5>3. m.gen = 0 /\ m.since = 0 /\ m.base = NoBase /\ m.known = {} /\ m.acked = {}
            BY <2>4, <5>1, <5>2, NoneTyped
        <5> QED
            BY <2>6, <5>3 DEF Meta, EmptyMeta
      <4> QED
          BY <1>3, <2>4, <2>7, <2>11, <3>1, <4>1 DEF Knows
    <3>2. CASE s.meta.gen # account.gen
      <4>1. /\ m.base = NoBase /\ m.known = {} /\ m.acked = {} /\ account.gen # 0
            /\ NoBase.rev = 0
          BY <2>0, <2>4, <2>8, <3>2, NoneTyped
      <4>2. account.recs[WirdKey].live => account.recs[WirdKey].rev > 0
          BY <1>1, KeyFacts DEF AccountOK
      <4> QED
          BY <2>0, <2>7, <2>11, <4>1, <4>2, KeyFacts DEF Knows
    <3> QED
        BY <3>1, <3>2
  <2> QED
      BY <2>0, <2>1, <2>2, <2>4, <2>6, <2>7, <2>8, <2>10, <2>11, <2>12, NoneTyped
<1>6. ASSUME ~again
      PROVE  /\ got \in SUBSET Pulled /\ OnePerKey(got)
             /\ \A g \in got : g = Current(g.key) \/ account.recs[g.key].chg > m.since
             /\ m.gen = 0 => got = {}
             /\ Has(m, dt, got)
  <2>0. /\ s.meta.since \in Nat /\ m.since \in Nat
        /\ \A k \in Keys : account.recs[k].chg \in Nat /\ account.recs[k].rev \in Nat
                           /\ account.recs[k] \in AccountRecord
      BY <1>1, <1>3, <1>5, <1>6, AccountTyped, MetaTyped
  <2>1. \A k \in Keys : k \in new <=> account.recs[k].chg > s.meta.since
      BY DEF Newer
  <2>2. /\ new # {} => first \in new /\ m.since = account.recs[first].chg
        /\ new = {} => m.since = s.meta.since
        /\ \A k \in new : account.recs[k].chg <= m.since => k = first
        /\ m.gen = account.gen /\ m.base = s.meta.base
        /\ s.meta.gen # account.gen => s.got = {} /\ s.meta.since = 0
        /\ new \in SUBSET Keys /\ s.meta.since <= m.since
      BY <1>5, <1>6
  <2> HIDE DEF new, m
  <2>3. page = (IF new = {} THEN {} ELSE {Current(first)})
      BY DEF Current
  <2> HIDE DEF first, page
  <2>4. page \in SUBSET Pulled /\ \A g \in page : g.key = first /\ g = Current(g.key) /\ new # {}
      BY <2>0, <2>2, <2>3 DEF Current, Pulled
  <2>5. /\ \A g \in s.got : g = Current(g.key) \/ account.recs[g.key].chg > s.meta.since
        /\ \A g, h \in s.got : g.key = h.key => g = h
      BY <1>3, <2>2 DEF GotOK
  <2>6. got \in SUBSET Pulled
      BY <1>3, <2>4
  <2>7. OnePerKey(got)
      BY <2>4, <2>5 DEF OnePerKey
  <2>8. ASSUME NEW g \in got PROVE g = Current(g.key) \/ account.recs[g.key].chg > m.since
    <3>1. CASE g \in page
        BY <2>4, <3>1
    <3>2. CASE g \in s.got /\ (new = {} \/ g.key # first)
      <4>1. g.key \in Keys
          BY <1>3, <3>2 DEF Pulled
      <4> QED
          BY <2>0, <2>1, <2>2, <2>5, <3>2, <4>1
    <3> QED
        BY <3>1, <3>2
  <2>9. m.gen = 0 => got = {}
    <3> SUFFICES ASSUME m.gen = 0 PROVE got = {}
        OBVIOUS
    <3>1. account.gen = 0 /\ \A k \in Keys : account.recs[k].rev = 0
        BY <1>1, <2>2 DEF AccountOK
    <3>2. new = {}
        BY <1>1, <2>0, <2>1, <2>2, <3>1, NoneTyped DEF AccountOK
    <3>3. s.got = {}
        BY <1>3, <2>2, <3>1 DEF GotOK
    <3> QED
        BY <2>4, <3>2, <3>3
  <2>10. Has(m, dt, got)
    <3> SUFFICES ASSUME NEW k \in Keys, account.recs[k].chg <= m.since
                 PROVE  LET r == account.recs[k] IN
              /\ k # WirdKey /\ r.live =>
                    dt.khatmas[k] = r.body.at \/ k \in dt.deleted \/ Current(k) \in got
              /\ k = WirdKey /\ r.live =>
                    m.base = [rev |-> r.rev, wird |-> r.body] \/ Current(k) \in got
              /\ Deleted(r) => k \in dt.deleted \/ Current(k) \in got
        BY DEF Has
    <3>1. CASE new # {} /\ k = first
        BY <2>3, <3>1
    <3>2. CASE new = {} \/ k # first
      <4>1. account.recs[k].chg <= s.meta.since
          BY <2>0, <2>1, <2>2, <3>2
      <4>2. CASE s.meta.gen = account.gen
        <5>1. Current(k) \in s.got => Current(k) \in got
            BY <3>2 DEF Current
        <5> HIDE DEF got
        <5> QED
            BY <1>3, <2>2, <4>1, <4>2, <5>1 DEF Has
      <4>3. CASE s.meta.gen # account.gen
        <5>1. account.recs[k].chg = 0
            BY <2>0, <2>2, <4>1, <4>3
        <5>2. ~account.recs[k].live /\ ~Deleted(account.recs[k])
            BY <1>1, <2>0, <5>1 DEF AccountOK, Deleted
        <5> QED
            BY <5>2
      <4> QED
          BY <4>2, <4>3
    <3> QED
        BY <3>1, <3>2
  <2> HIDE DEF got
  <2> QED
      BY <2>2, <2>6, <2>7, <2>8, <2>9, <2>10
<1>7. CASE ~again /\ ~last
  <2> DEFINE sn == [s EXCEPT !.meta = m, !.got = got]
  <2>1. m \in Meta /\ Knows(m)
      BY <1>5, <1>7
  <2>2. got \in SUBSET Pulled /\ GotOK(m, got) /\ Has(m, dt, got)
    <3> HIDE DEF got, m
    <3> QED
        BY <1>6, <1>7 DEF GotOK, OnePerKey
  <2>3. data' = [data EXCEPT ![d] = dt] /\ sync' = [sync EXCEPT ![d] = sn]
      BY <1>1, <1>2, <1>7 DEF Typed
  <2> HIDE DEF m, got
  <2>4. sn \in Sync /\ sn.st = "pulling" /\ sn.meta = m /\ sn.got = got /\ sn.todo = s.todo
      BY <1>2, <1>3, <2>1, <2>2 DEF Sync
  <2> HIDE DEF sn
  <2>5. DeviceOK(dt, meta[d], sn)
      BY <1>3, <2>1, <2>2, <2>4 DEF DeviceOK, SyncOK
  <2> QED
      BY <1>1, <1>2, <2>3, <2>4, <2>5, StepKept
<1>8. CASE ~again /\ last
  <2> DEFINE sn == [s EXCEPT !.st = "saving", !.meta = next.meta, !.got = {}]
  <2>1. /\ m \in Meta /\ Knows(m) /\ m.since \in Nat /\ m.gen = account.gen
        /\ new # {} => first \in new /\ m.since = account.recs[first].chg
        /\ new = {} => m.since = s.meta.since
        /\ s.meta.since <= m.since
      BY <1>5, <1>8
  <2>2. /\ got \in SUBSET Pulled /\ OnePerKey(got) /\ Has(m, dt, got)
        /\ m.gen = 0 => got = {}
        /\ \A g \in got : g = Current(g.key) \/ account.recs[g.key].chg > m.since
      BY <1>6, <1>8
  <2>3. s.meta.since \in Nat /\ \A k \in Keys : account.recs[k].chg \in Nat
      BY <1>1, <1>3, AccountTyped, MetaTyped
  <2>4. \A k \in Keys : k \in new <=> account.recs[k].chg > s.meta.since
      BY DEF Newer
  <2>5. \A k \in new : k = first
      BY <1>8
  <2>6. data' = [data EXCEPT ![d] = next.data] /\ sync' = [sync EXCEPT ![d] = sn]
      BY <1>2, <1>8
  <2> HIDE DEF m, got, new, first
  <2>7. \A g \in got : g.key \in Keys /\ g = Current(g.key)
    <3> SUFFICES ASSUME NEW g \in got, account.recs[g.key].chg > m.since
                 PROVE  FALSE
        BY <2>2 DEF Pulled
    <3>1. g.key \in Keys
        BY <2>2 DEF Pulled
    <3> QED
        BY <2>1, <2>3, <2>4, <2>5, <3>1
  <2>8. \A n : GotTrue(got, n)
      BY <1>1, <2>7, KeyFacts DEF GotTrue, Current, AccountOK, OneKhatmaPerCycle
  <2>9. /\ next.meta = Applied(m, dt, got).meta /\ next.data \in Data /\ MarksOK(next.data)
        /\ next.data.khatmas = Applied(m, dt, got).data.khatmas
        /\ next.data.deleted = Applied(m, dt, got).data.deleted
        /\ next.meta \in Meta
      BY <1>1, <1>3, <2>1, <2>2, DownloadFacts, AppliedShape
  <2>10. Has(meta[d], Applied(m, dt, got).data, {})
      BY <1>1, <1>3, <2>1, <2>2, <2>8, HasKept
  <2>11. Has(Applied(m, dt, got).meta, Applied(m, dt, got).data, {})
      BY <1>1, <1>3, <2>1, <2>2, <2>8, HasTaken
  <2>12. Knows(Applied(m, dt, got).meta)
    <3>1. \A g \in got :
               LET r == account.recs[g.key] IN
               /\ Deleted(g.rec) => Deleted(r)
               /\ g.rec.live => r.rev > 0
               /\ g.rec.live /\ g.key = WirdKey =>
                    g.rec.rev <= r.rev /\ (g.rec.rev = r.rev => g.rec = r)
        BY <1>1, <2>7, AccountTyped DEF Current, AccountOK
    <3> QED
        BY <1>1, <2>1, <2>2, <3>1, KnowsTaken
  <2> HIDE DEF next
  <2>13. Has(meta[d], next.data, {}) /\ Has(next.meta, next.data, {}) /\ Knows(next.meta)
      BY <2>9, <2>10, <2>11, <2>12 DEF Has
  <2>14. sn \in Sync /\ sn.st = "saving" /\ sn.meta = next.meta /\ sn.todo = s.todo
      BY <1>3, <2>9 DEF Sync
  <2> HIDE DEF sn
  <2>15. DeviceOK(next.data, meta[d], sn)
      BY <1>3, <2>9, <2>13, <2>14 DEF DeviceOK, SyncOK
  <2> QED
      BY <1>1, <1>2, <2>6, <2>9, <2>14, <2>15, StepKept
<1> QED
    BY <1>2, <1>4, <1>7, <1>8

-----------------------------------------------------------------------------
(* The initial states. *)
LEMMA ReadingCreated ==
    ASSUME InitCreated, sync = [d \in ReadingDevices |-> NotSyncing], strayPush = {}
    PROVE  ReadingInv
<1>0. First \in Wird /\ NoWird \in Wird
  <2>1. LastPage \in Page /\ 0 \in Cycles /\ NoWird \in Wird
      BY ReadingAssumption, NoneTyped DEF Page
  <2> QED
      BY <2>1 DEF First, Wird
<1>1. account = [gen |-> 0, seq |-> 0, recs |-> NoRecords]
      /\ meta = [d \in ReadingDevices |-> EmptyMeta]
    BY DEF InitCreated
<1>2. account.gen = 0 /\ account.seq = 0 /\ \A k \in Keys : account.recs[k] = Absent
    BY <1>1 DEF NoRecords
<1>3. PICK creator \in ReadingDevices :
         data = [d \in ReadingDevices |-> Holding(IF d = creator THEN First ELSE NoWird,
                                                  NoKhatma)]
    BY DEF InitCreated
<1>4. \A w \in Wird : Holding(w, NoKhatma) \in Data /\ Holding(w, NoKhatma).deleted = {}
    BY DEF Holding, Data
<1>5. \A d \in ReadingDevices : data[d] \in Data /\ data[d].deleted = {}
    BY <1>0, <1>3, <1>4
<1>6. data \in [ReadingDevices -> Data]
    BY <1>0, <1>3, <1>4
<1>7. Typed
  <2>1. NoRecords \in [Keys -> AccountRecord]
      BY NoneTyped DEF NoRecords
  <2>2. account \in [gen : Nat, seq : Nat, recs : [Keys -> AccountRecord]]
      BY <1>1, <2>1
  <2> QED
      BY <1>1, <1>6, <2>2, NoneTyped DEF Typed
<1>8. AccountOK
  <2>1. OneKhatmaPerCycle
      BY <1>2, NoneTyped, KeyFacts DEF OneKhatmaPerCycle
  <2> QED
      BY <1>2, <2>1, NoneTyped DEF AccountOK
<1>9. ASSUME NEW d \in ReadingDevices PROVE DeviceOK(data[d], meta[d], sync[d])
  <2>1. MarksOK(data[d])
      BY <1>5 DEF MarksOK
  <2>2. meta[d] = EmptyMeta /\ sync[d] = NotSyncing
      BY <1>1
  <2> QED
      BY <1>7, <1>8, <2>1, <2>2, EmptyKnown, NoneTyped DEF DeviceOK, SyncOK
<1> QED
    BY <1>7, <1>8, <1>9 DEF ReadingInv

LEMMA ReadingSynced ==
    ASSUME InitSynced, sync = [d \in ReadingDevices |-> NotSyncing], strayPush = {}
    PROVE  ReadingInv
<1>1. PICK k \in {NoKhatma} \cup {j \in KhatmaKeys : j = <<0, 1>> /\ 1 \in Cycles} :
        LET first == k = NoKhatma
            w == IF first THEN First
                 ELSE [NoWird EXCEPT !.cyc = 1, !.seq = 1, !.at = 1]
            of(body, n) == [rev |-> 1, chg |-> n, live |-> TRUE, body |-> body] IN
        /\ account = [gen |-> 1, seq |-> IF first THEN 1 ELSE 2,
                     recs |-> [j \in Keys |->
                                 IF j = WirdKey THEN of(w, 1)
                                 ELSE IF j = k THEN of(KhatmaContent(1), 2)
                                 ELSE Absent]]
        /\ data = [d \in ReadingDevices |-> Holding(w, k)]
        /\ meta = [d \in ReadingDevices |->
                     [gen |-> 1, since |-> account.seq, base |-> [rev |-> 1, wird |-> w],
                      known |-> {k} \ {NoKhatma}, acked |-> {}]]
    BY DEF InitSynced
<1> DEFINE w == IF k = NoKhatma THEN First
                ELSE [NoWird EXCEPT !.cyc = 1, !.seq = 1, !.at = 1]
           top == IF k = NoKhatma THEN 1 ELSE 2
           wirdRec == [rev |-> 1, chg |-> 1, live |-> TRUE, body |-> w]
           khatmaRec == [rev |-> 1, chg |-> 2, live |-> TRUE, body |-> KhatmaContent(1)]
           recs == [j \in Keys |-> IF j = WirdKey THEN wirdRec
                                   ELSE IF j = k THEN khatmaRec ELSE Absent]
           mn == [gen |-> 1, since |-> top, base |-> [rev |-> 1, wird |-> w],
                  known |-> {k} \ {NoKhatma}, acked |-> {}]
<1>2. account = [gen |-> 1, seq |-> top, recs |-> recs]
    BY <1>1
<1>3. account.gen = 1 /\ account.seq = top /\ account.recs = recs
    BY <1>2
<1>4. data = [d \in ReadingDevices |-> Holding(w, k)]
    BY <1>1
<1>5. meta = [d \in ReadingDevices |-> mn]
    BY <1>1, <1>3
<1>6. w \in Wird
  <2>1. LastPage \in Page /\ 0 \in Cycles /\ NoWird \in Wird
      BY ReadingAssumption, NoneTyped DEF Page
  <2>2. k # NoKhatma => 1 \in Cycles
      OBVIOUS
  <2> QED
      BY <2>1, <2>2 DEF First, Wird
<1>7. KhatmaContent(1) \in Wird /\ KhatmaContent(1).at = 1
    BY ContentTyped
<1>8. NoKhatma \notin KhatmaKeys /\ (k = NoKhatma \/ k \in KhatmaKeys)
      /\ (k # WirdKey)
    BY ReadingAssumption, KeyFacts DEF NoKhatma, KhatmaKeys, WirdKey
<1> HIDE DEF w
<1>9. /\ wirdRec \in AccountRecord /\ khatmaRec \in AccountRecord /\ Absent \in AccountRecord
      /\ mn \in Meta /\ top \in {1, 2}
    <2>1. {k} \ {NoKhatma} \in SUBSET KhatmaKeys
        BY <1>8
    <2> QED
        BY <1>6, <1>7, <2>1, NoneTyped DEF AccountRecord, Body, Meta
<1>10. /\ \A j \in Keys : /\ j = WirdKey => account.recs[j] = wirdRec
                          /\ j # WirdKey /\ j = k => account.recs[j] = khatmaRec
                          /\ j # WirdKey /\ j # k => account.recs[j] = Absent
    BY <1>3
<1>11. wirdRec.rev = 1 /\ wirdRec.chg = 1 /\ wirdRec.live = TRUE /\ wirdRec.body = w
       /\ khatmaRec.rev = 1 /\ khatmaRec.chg = 2 /\ khatmaRec.live = TRUE
       /\ khatmaRec.body.at = 1
    BY <1>7
<1>12. mn.gen = 1 /\ mn.since = top /\ mn.base = [rev |-> 1, wird |-> w]
       /\ mn.known = {k} \ {NoKhatma} /\ mn.acked = {}
    OBVIOUS
<1>13. k \in KhatmaKeys => top = 2
    BY <1>8
<1>14. recs \in [Keys -> AccountRecord]
    BY <1>9
<1>15. account \in [gen : Nat, seq : Nat, recs : [Keys -> AccountRecord]]
    BY <1>2, <1>9, <1>14
<1> HIDE DEF wirdRec, khatmaRec, recs, mn, top
<1>16. Holding(w, k) \in Data /\ Holding(w, k).deleted = {} /\ Holding(w, k).wird = w
       /\ \A j \in KhatmaKeys : Holding(w, k).khatmas[j] = IF j = k THEN 1 ELSE 0
    BY <1>6 DEF Holding, Data
<1>17. Typed
    BY <1>4, <1>5, <1>9, <1>15, <1>16, NoneTyped DEF Typed
<1>18. AccountOK
  <2>1. OneKhatmaPerCycle
      BY <1>10, NoneTyped, KeyFacts DEF OneKhatmaPerCycle
  <2>2. \A j \in Keys : j # WirdKey /\ j = k => top = 2
      BY <1>13, KeyFacts
  <2>3. \A j \in Keys : LET r == account.recs[j] IN
          /\ r.rev = 0 => r = Absent
          /\ r.rev > 0 => r.chg \in 1..account.seq
          /\ ~r.live => r.body = NoWird
          /\ r.live => r.rev > 0
          /\ j # WirdKey /\ r.live => r.body.at # 0
      BY <1>3, <1>9, <1>10, <1>11, <2>2, NoneTyped
  <2>4. \A i, j \in Keys : account.recs[i].rev > 0 /\ account.recs[j].rev > 0
                          /\ account.recs[i].chg = account.recs[j].chg => i = j
      BY <1>10, <1>11, NoneTyped
  <2> QED
      BY <1>3, <2>1, <2>3, <2>4 DEF AccountOK
<1>19. Knows(mn)
  <2>1. \A j \in mn.known : account.recs[j].rev > 0
      BY <1>8, <1>10, <1>11, <1>12, KeyFacts
  <2>2. account.recs[WirdKey].rev = 1 /\ account.recs[WirdKey].body = w
      BY <1>10, <1>11, KeyFacts
  <2> QED
      BY <1>3, <1>9, <1>12, <2>1, <2>2 DEF Knows
<1>20. \A dt : dt = Holding(w, k) => MarksOK(dt) /\ Has(mn, dt, {})
  <2> SUFFICES ASSUME NEW dt, dt = Holding(w, k) PROVE MarksOK(dt) /\ Has(mn, dt, {})
      OBVIOUS
  <2>1. MarksOK(dt)
      BY <1>16 DEF MarksOK
  <2>2. \A j \in Keys : ~Deleted(account.recs[j])
      BY <1>10, <1>11, NoneTyped DEF Deleted
  <2>3. ASSUME NEW j \in Keys, j # WirdKey, account.recs[j].live
        PROVE  dt.khatmas[j] = account.recs[j].body.at
      BY <1>10, <1>11, <1>16, <2>3, NoneTyped, KeyFacts
  <2> QED
      BY <1>10, <1>11, <1>12, <2>1, <2>2, <2>3 DEF Has
<1>21. ASSUME NEW d \in ReadingDevices PROVE DeviceOK(data[d], meta[d], sync[d])
  <2>1. data[d] = Holding(w, k) /\ meta[d] = mn /\ sync[d] = NotSyncing
      BY <1>4, <1>5
  <2> QED
      BY <1>17, <1>18, <1>19, <1>20, <2>1, EmptyKnown, NoneTyped DEF DeviceOK, SyncOK
<1> QED
    BY <1>17, <1>18, <1>21 DEF ReadingInv

LEMMA ReadingInitially == ReadingInit => ReadingInv
    BY ReadingCreated, ReadingSynced DEF ReadingInit

LEMMA ReadingInductive == ReadingInv /\ [ReadingNext]_readingVars => ReadingInv'
<1> SUFFICES ASSUME ReadingInv, [ReadingNext]_readingVars PROVE ReadingInv'
    OBVIOUS
<1>1. CASE UNCHANGED readingVars
  <2>1. Typed' /\ AccountOK' /\ \A c \in strayPush' : ChangeOK(c)
      BY <1>1 DEF readingVars, ReadingInv, Typed, AccountOK, OneKhatmaPerCycle
  <2>2. ASSUME NEW d \in ReadingDevices PROVE DeviceOK(data[d], meta[d], sync[d])'
      BY <1>1, ZenonT(60) DEF readingVars, ReadingInv, DeviceOK, SyncOK, MarksOK, Knows, Has, GotOK,
                  AnswerOK, Current
  <2> QED
      BY <2>1, <2>2 DEF ReadingInv
<1>2. ASSUME NEW d \in ReadingDevices, Reader(d) \/ SyncStep(d) \/ Abandon(d)
                                       \/ LoseMeta(d) \/ LoseStops(d)
      PROVE  ReadingInv'
    BY <1>2, ReaderKept, PullKept, SaveKept, PushKept, ReceiveKept, AbandonKept, LoseKept
    DEF SyncStep
<1> QED
    BY <1>1, <1>2, StrayKept, ReplaceKept DEF ReadingNext

LEMMA ReadingInvariant == ReadingSpec => []ReadingInv
    BY ReadingInitially, ReadingInductive, PTL DEF ReadingSpec

(* Every variable of the reading sync keeps its type. *)
LEMMA ReadingTyped == ReadingSpec => []ReadingTypeOK
<1> DEFINE Begun == /\ opened \in [Cycles -> KhatmaKeys \cup {NoKhatma, NotBegun}]
                    /\ events \in Nat
<1>1. ReadingInit => Begun
  <2>1. InitCreated => Begun
      BY DEF InitCreated
  <2>2. InitSynced => Begun
      BY DEF InitSynced
  <2> QED
      BY <2>1, <2>2 DEF ReadingInit
<1>2. Begun /\ [ReadingNext]_readingVars => Begun'
  <2> SUFFICES ASSUME Begun, [ReadingNext]_readingVars PROVE Begun'
      OBVIOUS
  <2>1. ASSUME NEW d \in ReadingDevices, Reader(d) PROVE Begun'
    <3>1. ASSUME NEW dt, Edit(d, dt) PROVE events' \in Nat
        BY <3>1 DEF Edit
    <3>2. ASSUME NEW c \in Cycles, NEW t \in Instants, ConfirmKhatma(d, c, t) PROVE Begun'
      <4>1. PICK k \in KhatmaKeys : opened' = [opened EXCEPT ![c] = k]
          BY <3>2 DEF ConfirmKhatma
      <4>2. opened' \in [Cycles -> KhatmaKeys \cup {NoKhatma, NotBegun}]
          BY <4>1
      <4> QED
          BY <3>1, <3>2, <4>2 DEF ConfirmKhatma
    <3>3. ASSUME NEW p \in Page, NEW t \in Instants, SaveWirdPage(d, p, t) PROVE Begun'
        BY <3>1, <3>3 DEF SaveWirdPage
    <3>4. ASSUME NEW k \in KhatmaKeys, RemoveKhatma(d, k) PROVE Begun'
        BY <3>1, <3>4 DEF RemoveKhatma
    <3>5. CASE DeleteWird(d)
        BY <3>1, <3>5 DEF DeleteWird
    <3> QED
        BY <2>1, <3>2, <3>3, <3>4, <3>5 DEF Reader
  <2>2. ASSUME NEW d \in ReadingDevices, SyncStep(d) PROVE Begun'
      BY <2>2 DEF SyncStep, PullPage, SaveMeta, PushChange, ReceiveResult, ReaderUntouched
  <2>3. ASSUME NEW fault, ReadingFault(fault) PROVE Begun'
      BY <2>3 DEF ReadingFault
  <2>4. CASE DeliverStray \/ UNCHANGED readingVars
      BY <2>4 DEF DeliverStray, readingVars
  <2> QED
      BY <2>1, <2>2, <2>3, <2>4 DEF ReadingNext, Abandon, LoseMeta, LoseStops, ReplaceRecords
<1>3. Begun /\ ReadingInv => ReadingTypeOK
    BY DEF ReadingInv, Typed, ReadingTypeOK
<1> QED
    BY <1>1, <1>2, <1>3, ReadingInvariant, PTL DEF ReadingSpec

(* At most one Khatma of a cycle is live on the account, whatever uploads   *)
(* arrive in whatever order (decideReadingChange answers duplicate).        *)
THEOREM OneKhatmaOfACycle == ReadingSpec => []OneKhatmaPerCycle
<1>1. ReadingInv => OneKhatmaPerCycle
    BY DEF ReadingInv, AccountOK
<1> QED
    BY <1>1, ReadingInvariant, PTL

(* The version a device takes for the account's at a revision is that one,  *)
(* so an upload accepted by its revision had merged it, also when the       *)
(* reader edits while the answer is on its way (applyResults).              *)
THEOREM BaseIsWhatItWas == ReadingSpec => []BaseIsTheAccounts
<1>1. ReadingInv => BaseIsTheAccounts
    BY DEF ReadingInv, DeviceOK, SyncOK, Knows, BaseIsTheAccounts
<1> QED
    BY <1>1, ReadingInvariant, PTL

(* A device that is up to date shows what the account holds. *)
LEMMA CompleteDevice ==
    ASSUME ReadingInv, NEW d \in ReadingDevices, Complete(d)
    PROVE  Same(d)
<1> DEFINE dt == data[d]
           m == meta[d]
<1>1. Typed /\ AccountOK /\ dt \in Data /\ m \in Meta /\ MarksOK(dt) /\ Knows(m) /\ Has(m, dt, {})
    BY DEF ReadingInv, DeviceOK, Typed
<1>2. m.gen = account.gen /\ m.since = account.seq /\ ToUpload(m, dt) = {}
      /\ (dt.wird # NoWird \/ m.base = NoBase \/ WirdKey \in dt.deleted)
    BY DEF Complete, Lost
<1> HIDE DEF dt, m
<1>3. \A k \in Keys : account.recs[k].rev \in Nat /\ account.recs[k].chg <= account.seq
    BY <1>1, AccountTyped, NoneTyped DEF AccountOK
<1>4. \A k \in Keys : LET r == account.recs[k] IN
              /\ k # WirdKey /\ r.live => dt.khatmas[k] = r.body.at \/ k \in dt.deleted
              /\ k = WirdKey /\ r.live => m.base = [rev |-> r.rev, wird |-> r.body]
              /\ Deleted(r) => k \in dt.deleted
    BY <1>1, <1>2, <1>3 DEF Has
<1>5. /\ dt.wird # NoWird => dt.wird = m.base.wird
      /\ \A k \in KhatmaKeys : dt.khatmas[k] # 0 => k \in m.known
      /\ dt.deleted \subseteq m.acked
    BY <1>2 DEF ToUpload, DeletesToUpload
<1>6. /\ \A k \in dt.deleted : Deleted(account.recs[k]) /\ k \in Keys
      /\ \A k \in m.known : account.recs[k].rev > 0
      /\ m.base # NoBase => account.recs[WirdKey].rev > 0
    BY <1>1, <1>2, <1>5, MetaTyped DEF Knows
<1>7. dt.deleted = {k \in Keys : Deleted(account.recs[k])}
    BY <1>4, <1>6
<1>8. ASSUME NEW k \in KhatmaKeys
      PROVE  dt.khatmas[k] = IF account.recs[k].live THEN account.recs[k].body.at ELSE 0
  <2>0. k \in Keys /\ k # WirdKey
      BY KeyFacts
  <2>1. CASE account.recs[k].live
      BY <1>4, <1>6, <2>0, <2>1 DEF Deleted
  <2>2. CASE ~account.recs[k].live
    <3>1. dt.khatmas[k] # 0 => Deleted(account.recs[k])
        BY <1>5, <1>6, <2>2 DEF Deleted
    <3> QED
        BY <1>1, <1>4, <2>0, <2>2, <3>1 DEF MarksOK
  <2> QED
      BY <2>1, <2>2
<1>9. dt.wird = account.recs[WirdKey].body
  <2>0. WirdKey \in Keys
      BY KeyFacts
  <2>1. CASE account.recs[WirdKey].live
    <3>1. m.base = [rev |-> account.recs[WirdKey].rev, wird |-> account.recs[WirdKey].body]
        BY <1>4, <2>0, <2>1
    <3>2. m.base.wird = account.recs[WirdKey].body /\ m.base.rev = account.recs[WirdKey].rev
        BY <3>1
    <3>3. m.base # NoBase /\ WirdKey \notin dt.deleted
        BY <1>1, <1>6, <2>0, <2>1, <3>2, NoneTyped DEF AccountOK, Deleted
    <3> QED
        BY <1>2, <1>5, <3>2, <3>3
  <2>2. CASE ~account.recs[WirdKey].live
    <3>1. account.recs[WirdKey].body = NoWird
        BY <1>1, <2>0, <2>2 DEF AccountOK
    <3>2. dt.wird # NoWird => Deleted(account.recs[WirdKey])
        BY <1>5, <1>6, <2>2, NoneTyped DEF Deleted
    <3> QED
        BY <1>1, <1>4, <2>0, <3>1, <3>2 DEF MarksOK
  <2> QED
      BY <2>1, <2>2
<1> QED
    BY <1>7, <1>8, <1>9 DEF Same, dt

(* A device whose sync state says that nothing waits and it has every change *)
(* shows exactly the account's wird, Khatmas and deletions: pages, answers,  *)
(* edits and stops in any order never let the sync state run ahead of the    *)
(* data (syncReadingNow, updateReadingSnapshot).                             *)
THEOREM CompleteIsSame == ReadingSpec => []CompleteMeansSame
<1>1. ReadingInv => CompleteMeansSame
    BY CompleteDevice DEF CompleteMeansSame
<1> QED
    BY <1>1, ReadingInvariant, PTL

-----------------------------------------------------------------------------
(* No step takes a deletion marker off a device. *)
LEMMA MarkedStill ==
    ASSUME ReadingInv, ReadingNext, NEW d \in ReadingDevices
    PROVE  data[d].deleted \subseteq data'[d].deleted
<1>0. data \in [ReadingDevices -> Data] /\ data[d] \in Data
    BY DEF ReadingInv, Typed
<1>1. ASSUME NEW e \in ReadingDevices, NEW dt, data' = [data EXCEPT ![e] = dt],
             data[e].deleted \subseteq dt.deleted
      PROVE  data[d].deleted \subseteq data'[d].deleted
    BY <1>0, <1>1
<1>2. ASSUME NEW e \in ReadingDevices, Reader(e)
      PROVE  data[d].deleted \subseteq data'[d].deleted
  <2>0. data[e] = [wird |-> data[e].wird, khatmas |-> data[e].khatmas,
                   deleted |-> data[e].deleted]
      BY <1>0 DEF Data
  <2>1. ASSUME NEW dt, Edit(e, dt), data[e].deleted \subseteq dt.deleted
        PROVE  data[d].deleted \subseteq data'[d].deleted
      BY <1>1, <2>1 DEF Edit
  <2>2. ASSUME NEW p \in Page, NEW t \in Instants, SaveWirdPage(e, p, t)
        PROVE  data[d].deleted \subseteq data'[d].deleted
      BY <2>0, <2>1, <2>2 DEF SaveWirdPage
  <2>3. ASSUME NEW c \in Cycles, NEW t \in Instants, ConfirmKhatma(e, c, t)
        PROVE  data[d].deleted \subseteq data'[d].deleted
      BY <2>0, <2>1, <2>3 DEF ConfirmKhatma
  <2>4. ASSUME NEW k \in KhatmaKeys, RemoveKhatma(e, k)
        PROVE  data[d].deleted \subseteq data'[d].deleted
    <3>1. PICK w : Edit(e, [data[e] EXCEPT !.khatmas[k] = 0, !.deleted = @ \cup {k}, !.wird = w])
        BY <2>4 DEF RemoveKhatma
    <3> QED
        BY <2>0, <2>1, <3>1
  <2>5. CASE DeleteWird(e)
      BY <2>0, <2>1, <2>5 DEF DeleteWird
  <2> QED
      BY <1>2, <2>2, <2>3, <2>4, <2>5 DEF Reader
<1>3. \A m, got : data[d].deleted \subseteq Applied(m, data[d], got).data.deleted
    BY DEF Applied
<1>4. ASSUME NEW m, NEW dt, NEW got
      PROVE  AppliedDownload(m, dt, got).data.deleted = Applied(m, dt, got).data.deleted
    BY DEF AppliedDownload, Applied
<1>5. ASSUME NEW e \in ReadingDevices, SyncStep(e)
      PROVE  data[d].deleted \subseteq data'[d].deleted
  <2>1. CASE e # d
      BY <1>0, <1>5, <2>1 DEF SyncStep, PullPage, SaveMeta, PushChange, ReceiveResult
  <2>2. CASE e = d /\ PullPage(d)
    <3>1. \/ data' = data
          \/ \E m, got : data' = [data EXCEPT ![d] = AppliedDownload(m, data[d], got).data]
      <4> DEFINE s == IF sync[d].st = "idle"
                      THEN [NotSyncing EXCEPT !.st = "pulling", !.meta = meta[d]] ELSE sync[d]
                 new == Newer(s.meta.since)
                 first == CHOOSE k \in new : \A j \in new :
                              account.recs[k].chg <= account.recs[j].chg
                 page == IF new = {} THEN {}
                         ELSE {[key |-> first, rec |-> account.recs[first]]}
                 got == {g \in s.got : new = {} \/ g.key # first} \cup page
                 m == [s.meta EXCEPT !.gen = IF account.gen = 0 THEN @ ELSE account.gen,
                                     !.since = IF new = {} THEN @ ELSE NextSince(first)]
      <4>1. data' = data \/ data' = [data EXCEPT ![d] = AppliedDownload(m, data[d], got).data]
          BY <2>2 DEF PullPage
      <4> HIDE DEF m, got
      <4> QED
          BY <4>1
    <3> QED
        BY <1>0, <1>3, <1>4, <3>1
  <2>3. CASE e = d /\ ReceiveResult(d)
    <3>1. \A m, a : data[d].deleted \subseteq ResultApplied(m, data[d], a).data.deleted
      <4>1. \A k : [data[d] EXCEPT !.khatmas[k] = 0].deleted = data[d].deleted
          BY <1>0 DEF Data
      <4>2. \A m, dt, got : dt.deleted \subseteq Applied(m, dt, got).data.deleted
          BY DEF Applied
      <4> QED
          BY <4>1, <4>2 DEF ResultApplied
    <3> QED
        BY <1>0, <2>3, <3>1 DEF ReceiveResult
  <2>4. CASE SaveMeta(e) \/ PushChange(e)
      BY <2>4 DEF SaveMeta, PushChange
  <2> QED
      BY <1>5, <2>1, <2>2, <2>3, <2>4 DEF SyncStep
<1>6. ASSUME NEW e \in ReadingDevices, Abandon(e) \/ LoseMeta(e)
      PROVE  data[d].deleted \subseteq data'[d].deleted
    BY <1>6 DEF Abandon, LoseMeta
<1>7. ASSUME NEW e \in ReadingDevices, LoseStops(e)
      PROVE  data[d].deleted \subseteq data'[d].deleted
    BY <1>0, <1>7 DEF LoseStops, Data
<1>8. CASE DeliverStray \/ ReplaceRecords
    BY <1>8 DEF DeliverStray, ReplaceRecords
<1> QED
    BY <1>2, <1>5, <1>6, <1>7, <1>8 DEF ReadingNext

(* The account changes by one upload, or its records are replaced. *)
LEMMA AccountSteps ==
    ASSUME ReadingInv, ReadingNext
    PROVE  account' = account \/ Grows \/ account'.gen = account.gen + 1
<1>1. Typed /\ AccountOK
    BY DEF ReadingInv
<1>2. ASSUME NEW d \in ReadingDevices, PushChange(d)
      PROVE  Grows
  <2>1. PICK c \in FirstOf(sync[d].todo) : account' = Pushed(c)
      BY <1>2 DEF PushChange
  <2>2. sync[d] \in Sync /\ SyncOK(data[d], meta[d], sync[d])
      BY DEF ReadingInv, Typed, DeviceOK
  <2>3. c \in ReadingChange /\ ChangeOK(c)
      BY <2>2 DEF FirstOf, Sync, SyncOK
  <2> QED
      BY <1>1, <2>1, <2>3, PushedOK
<1>3. CASE DeliverStray
  <2>1. PICK c \in strayPush : account' = Pushed(c)
      BY <1>3 DEF DeliverStray
  <2>2. c \in ReadingChange /\ ChangeOK(c)
      BY DEF ReadingInv, Typed
  <2> QED
      BY <1>1, <2>1, <2>2, PushedOK
<1>4. CASE ReplaceRecords
    BY <1>4 DEF ReplaceRecords
<1>5. ASSUME NEW d \in ReadingDevices,
             Reader(d) \/ PullPage(d) \/ SaveMeta(d) \/ ReceiveResult(d) \/ Abandon(d)
             \/ LoseMeta(d) \/ LoseStops(d)
      PROVE  account' = account
    BY <1>5 DEF Reader, SaveWirdPage, ConfirmKhatma, RemoveKhatma, DeleteWird, Edit, PullPage,
                SaveMeta, ReceiveResult, Abandon, LoseMeta, LoseStops
<1> QED
    BY <1>2, <1>3, <1>4, <1>5 DEF ReadingNext, SyncStep

(* Deletions are for good: a record deleted on the account stays so until its records *)
(* are replaced, a device keeps its deletion markers, and what they name never is     *)
(* there again (deletedStops, deletedRecords; decideReadingChange).                   *)
THEOREM DeletedStaysSo == ReadingSpec => DeletedForGood
<1>1. ASSUME ReadingInv, ReadingInv', [ReadingNext]_readingVars
      PROVE  [/\ \A k \in Keys : Deleted(account.recs[k]) /\ account'.gen = account.gen
                              => Deleted(account'.recs[k])
              /\ \A d \in ReadingDevices :
                   /\ data[d].deleted \subseteq data'[d].deleted
                   /\ WirdKey \in data[d].deleted => data'[d].wird = NoWird
                   /\ \A k \in data[d].deleted \ {WirdKey} : data'[d].khatmas[k] = 0]_readingVars
  <2> SUFFICES ASSUME ReadingNext
               PROVE  /\ \A k \in Keys : Deleted(account.recs[k]) /\ account'.gen = account.gen
                              => Deleted(account'.recs[k])
                      /\ \A d \in ReadingDevices :
                           /\ data[d].deleted \subseteq data'[d].deleted
                           /\ WirdKey \in data[d].deleted => data'[d].wird = NoWird
                           /\ \A k \in data[d].deleted \ {WirdKey} : data'[d].khatmas[k] = 0
      BY <1>1
  <2>1. account.gen \in Nat
      BY <1>1, AccountTyped DEF ReadingInv
  <2>2. \A k \in Keys : Deleted(account.recs[k]) /\ account'.gen = account.gen
                              => Deleted(account'.recs[k])
      BY <1>1, <2>1, AccountSteps DEF Grows
  <2>3. ASSUME NEW d \in ReadingDevices
        PROVE  /\ data[d].deleted \subseteq data'[d].deleted
               /\ WirdKey \in data[d].deleted => data'[d].wird = NoWird
               /\ \A k \in data[d].deleted \ {WirdKey} : data'[d].khatmas[k] = 0
    <3>1. data[d].deleted \subseteq data'[d].deleted
        BY <1>1, MarkedStill
    <3>2. \A x : x = data'[d] => MarksOK(x)
        BY <1>1 DEF ReadingInv, DeviceOK, MarksOK
    <3>3. data[d].deleted \subseteq Keys
        BY <1>1 DEF ReadingInv, Typed, Data
    <3> QED
        BY <3>1, <3>2, <3>3, KeyFacts DEF MarksOK
  <2> QED
      BY <2>2, <2>3
<1> QED
    BY <1>1, ReadingInvariant, PTL DEF ReadingSpec, DeletedForGood

-----------------------------------------------------------------------------
(* Progress against undo.  A cycle begins at one generation (start), and   *)
(* its wird stays at it until an undo gives the cycle back, two later, so  *)
(* that an undo of a cycle is one past its start: any other wird of the    *)
(* cycle is newer than that undo or is the one it was made from.           *)
Lawful(start, w) ==
    w # NoWird =>
        /\ w.cyc \in Cycles /\ opened[w.cyc] # NotBegun
        /\ w.seq = start[w.cyc] \/ (w.seq >= start[w.cyc] + 2 /\ w.saved)
        /\ w.undone # NoCycle => /\ w.undone \in Cycles /\ opened[w.undone] # NotBegun
                                 /\ w.seq = start[w.undone] + 1

LawfulRec(start, r) == Lawful(start, r.body) /\ (r.live => r.body # NoWird)

Openings(start) ==
    /\ opened \in [Cycles -> KhatmaKeys \cup {NoKhatma, NotBegun}]
    /\ \A c \in Cycles : opened[c] \in KhatmaKeys =>
          opened[opened[c][1]] # NotBegun /\ start[c] > start[opened[c][1]]

Puts(c) == c.key = WirdKey /\ ~c.del
LawfulPut(start, c) == Puts(c) => Lawful(start, c.body) /\ c.body # NoWird

LawfulDevice(start, dt, m, s) ==
    /\ Lawful(start, dt.wird)
    /\ Lawful(start, m.base.wird) /\ Lawful(start, s.meta.base.wird)
    /\ \A g \in s.got : g.key = WirdKey => LawfulRec(start, g.rec)
    /\ \A c \in s.todo : LawfulPut(start, c)
    /\ s.answer.key = WirdKey => LawfulRec(start, s.answer.rec)
    /\ s.st = "answered" => LawfulPut(start, s.answer.sent)

LawfulAll(start) ==
    /\ Openings(start)
    /\ LawfulRec(start, account.recs[WirdKey])
    /\ \A c \in strayPush : LawfulPut(start, c)
    /\ \A d \in ReadingDevices : LawfulDevice(start, data[d], meta[d], sync[d])

(* Of two wirds one is not behind the other; it has taken the other in. *)
AtLeast(w, x) == w.seq > x.seq \/ (w.seq = x.seq /\ (x.saved => w.saved))
Covers(w, x) == w # NoWird => AtLeast(w, x) /\ KeepsProgress(x, w)

(* The account is not behind what a sync state says of it, and where it is *)
(* not ahead either, the device has taken that in.                         *)
Lead(x, w) ==
    /\ AtLeast(account.recs[WirdKey].body, x)
    /\ AtLeast(x, account.recs[WirdKey].body) => Covers(w, x)

Between(r, x) == r.live => AtLeast(r.body, x) /\ AtLeast(account.recs[WirdKey].body, r.body)

(* An upload made from the account's current wird has taken it in. *)
Carries(c) ==
    LET r == account.recs[WirdKey] IN
    Puts(c) => c.base <= r.rev /\ (r.live /\ c.base = r.rev => Covers(c.body, r.body))

(* The wird is sent first, and only once in a round. *)
Queue(dt, s) ==
    /\ s.st = "pulling" => s.todo = {}
    /\ \A c, e \in s.todo : Puts(c) /\ Puts(e) => c = e
    /\ \A c \in s.todo : Puts(c) => Covers(dt.wird, c.body)
    /\ s.st = "answered" =>
          /\ s.answer.key = WirdKey => s.answer.sent.key = WirdKey
          /\ s.answer.sent.key = WirdKey => \A c \in s.todo : ~Puts(c)
          /\ Puts(s.answer.sent) => Covers(dt.wird, s.answer.sent.body)

KeepsUp(dt, m, s) ==
    account.recs[WirdKey].live =>
        /\ Lead(m.base.wird, dt.wird) /\ Lead(s.meta.base.wird, dt.wird)
        /\ s.st = "pulling" => /\ s.meta.base = m.base
                               /\ \A g \in s.got : g.key = WirdKey => Between(g.rec, m.base.wird)
        /\ s.st = "answered" /\ s.answer.key = WirdKey => Between(s.answer.rec, m.base.wird)

Sends ==
    /\ \A d \in ReadingDevices : Queue(data[d], sync[d])
    /\ account.gen <= 1 =>
         /\ \A c \in strayPush : Carries(c)
         /\ \A d \in ReadingDevices :
              /\ \A c \in sync[d].todo : Carries(c)
              /\ KeepsUp(data[d], meta[d], sync[d])

ProgressInv == (\E start \in [Cycles -> Nat] : LawfulAll(start)) /\ Sends

LEMMA WirdFacts ==
    ASSUME NEW w \in Wird
    PROVE  /\ w.seq \in Nat /\ w.saved \in BOOLEAN /\ w.cyc \in Cycles \cup {NoCycle}
           /\ w.undone \in Cycles \cup {NoCycle}
    BY DEF Wird

LEMMA NoWirdFacts ==
    /\ NoWird.seq = 0 /\ NoWird.saved = FALSE /\ NoWird.cyc = NoCycle
    /\ NoWird.undone = NoCycle /\ NoCycle \notin Cycles /\ NoWird \in Wird
    BY NoneTyped, ReadingAssumption DEF NoWird, NoCycle

LEMMA AtLeastTrans ==
    ASSUME NEW x \in Wird, NEW y \in Wird, NEW z \in Wird, AtLeast(x, y), AtLeast(y, z)
    PROVE  AtLeast(x, z)
    BY WirdFacts DEF AtLeast

(* No wird undoes its own cycle; one that has taken a wird in, and is not  *)
(* ahead of it, cannot be the undo of its cycle either.                    *)
LEMMA CoversSelf ==
    ASSUME NEW start \in [Cycles -> Nat], NEW w \in Wird, Lawful(start, w)
    PROVE  AtLeast(w, w) /\ Covers(w, w) /\ KeepsProgress(w, w)
<1>1. AtLeast(w, w)
    BY WirdFacts DEF AtLeast
<1>2. w.saved => w.undone # w.cyc
  <2> SUFFICES ASSUME w.saved, w.undone = w.cyc PROVE FALSE
      OBVIOUS
  <2>1. w # NoWird
      BY NoWirdFacts
  <2>2. w.cyc \in Cycles /\ w.cyc # NoCycle
      BY <2>1, NoWirdFacts DEF Lawful
  <2>3. start[w.cyc] \in Nat /\ w.seq \in Nat
      BY <2>2, WirdFacts
  <2>4. w.seq = start[w.cyc] + 1 /\ (w.seq = start[w.cyc] \/ w.seq >= start[w.cyc] + 2)
      BY <2>1, <2>2 DEF Lawful
  <2> QED
      BY <2>3, <2>4
<1> QED
    BY <1>1, <1>2 DEF Covers, KeepsProgress

LEMMA EqualCovers ==
    ASSUME NEW start \in [Cycles -> Nat], NEW w \in Wird, NEW x \in Wird,
           Lawful(start, w), Lawful(start, x), AtLeast(w, x), AtLeast(x, w)
    PROVE  Covers(w, x)
<1> SUFFICES ASSUME w # NoWird, x.saved, w.undone = x.cyc PROVE FALSE
    BY DEF Covers, KeepsProgress
<1>1. x # NoWird
    BY NoWirdFacts
<1>2. x.cyc \in Cycles /\ x.cyc # NoCycle
    BY <1>1, NoWirdFacts DEF Lawful
<1>3. start[x.cyc] \in Nat /\ w.seq \in Nat /\ x.seq \in Nat
    BY <1>2, WirdFacts
<1>4. w.seq = start[x.cyc] + 1 /\ (x.seq = start[x.cyc] \/ x.seq >= start[x.cyc] + 2)
    BY <1>1, <1>2 DEF Lawful
<1>5. w.seq = x.seq
    BY <1>3 DEF AtLeast
<1> QED
    BY <1>3, <1>4, <1>5

LEMMA CoversNone ==
    ASSUME NEW w \in Wird
    PROVE  AtLeast(w, NoWird) /\ Covers(w, NoWird) /\ Covers(NoWird, w)
    BY WirdFacts, NoWirdFacts DEF AtLeast, Covers, KeepsProgress

(* mergePosition: what it makes of two wirds has taken both in, and is one *)
(* of them, with the other's progress or one generation on.                *)
Restored(w, undo, n) ==
    /\ undo.seq > w.seq /\ undo.undone = w.cyc /\ w.seq = undo.seq - 1 /\ w.saved
    /\ n.cyc = w.cyc /\ n.seq = undo.seq + 1 /\ n.saved /\ n.undone = NoCycle
Supersedes(w, other, n) ==
    /\ w.seq > other.seq /\ n = w
    /\ ~(w.undone = other.cyc /\ other.seq = w.seq - 1 /\ other.saved)
OfBoth(l, r, n) ==
    \/ /\ l.seq = r.seq /\ l.cyc = r.cyc
       /\ n.cyc = l.cyc /\ n.seq = l.seq /\ n.saved = (l.saved \/ r.saved)
       /\ n.undone \in {l.undone, r.undone}
    \/ l.seq = r.seq /\ l.cyc # r.cyc /\ n \in {l, r} /\ n.saved = (l.saved \/ r.saved)
    \/ Supersedes(l, r, n) \/ Supersedes(r, l, n)
    \/ Restored(r, l, n) \/ Restored(l, r, n)

LEMMA PositionCases ==
    ASSUME NEW l \in Wird, NEW r \in Wird
    PROVE  Position(l, r) \in Wird /\ OfBoth(l, r, Position(l, r))
<1> DEFINE n == Position(l, r)
<1>0. /\ l.seq \in Nat /\ r.seq \in Nat /\ l.saved \in BOOLEAN /\ r.saved \in BOOLEAN
    BY WirdFacts
<1>1. CASE l.seq = r.seq /\ l.cyc = r.cyc
  <2>1. n = [l EXCEPT !.saved = l.saved \/ r.saved] \/ n = [r EXCEPT !.saved = l.saved \/ r.saved]
      BY <1>1 DEF Position
  <2>2. (l.saved \/ r.saved) \in BOOLEAN
      BY <1>0
  <2> HIDE DEF n
  <2>4. ASSUME NEW w \in {l, r}, n = [w EXCEPT !.saved = l.saved \/ r.saved]
        PROVE  /\ n \in Wird /\ n.cyc = l.cyc /\ n.seq = l.seq
               /\ n.saved = (l.saved \/ r.saved) /\ n.undone \in {l.undone, r.undone}
    <3>1. /\ n \in Wird /\ n.cyc = w.cyc /\ n.seq = w.seq /\ n.undone = w.undone
          /\ n.saved = (l.saved \/ r.saved)
        BY <2>2, <2>4 DEF Wird
    <3> QED
        BY <1>1, <3>1
  <2>3. n \in Wird /\ OfBoth(l, r, n)
      BY <1>1, <2>1, <2>4 DEF OfBoth
  <2> QED
      BY <2>3 DEF n
<1>2. CASE l.seq = r.seq /\ l.cyc # r.cyc
  <2>1. n \in {l, r} /\ (l.saved # r.saved => n = IF l.saved THEN l ELSE r)
      BY <1>2 DEF Position
  <2> HIDE DEF n
  <2>2. n \in Wird /\ OfBoth(l, r, n)
      BY <1>0, <1>2, <2>1 DEF OfBoth
  <2> QED
      BY <2>2 DEF n
<1>3. CASE l.seq > r.seq
  <2>1. l.seq # r.seq /\ l.seq + 1 \in Nat
      BY <1>0, <1>3
  <2>2. n = IF l.undone = r.cyc /\ r.seq = l.seq - 1 /\ r.saved
            THEN [r EXCEPT !.seq = l.seq + 1, !.undone = NoCycle] ELSE l
      BY <1>3, <2>1 DEF Position
  <2> HIDE DEF n
  <2>4. n = [r EXCEPT !.seq = l.seq + 1, !.undone = NoCycle]
          => /\ n \in Wird /\ n.cyc = r.cyc /\ n.seq = l.seq + 1 /\ n.undone = NoCycle
             /\ n.saved = r.saved
      BY <2>1 DEF Wird
  <2>3. n \in Wird /\ OfBoth(l, r, n)
      BY <1>3, <2>1, <2>2, <2>4 DEF OfBoth, Restored, Supersedes
  <2> QED
      BY <2>3 DEF n
<1>4. CASE r.seq > l.seq
  <2>1. l.seq # r.seq /\ ~(l.seq > r.seq) /\ r.seq + 1 \in Nat
      BY <1>0, <1>4
  <2>2. n = IF r.undone = l.cyc /\ l.seq = r.seq - 1 /\ l.saved
            THEN [l EXCEPT !.seq = r.seq + 1, !.undone = NoCycle] ELSE r
      BY <1>4, <2>1 DEF Position
  <2> HIDE DEF n
  <2>4. n = [l EXCEPT !.seq = r.seq + 1, !.undone = NoCycle]
          => /\ n \in Wird /\ n.cyc = l.cyc /\ n.seq = r.seq + 1 /\ n.undone = NoCycle
             /\ n.saved = l.saved
      BY <2>1 DEF Wird
  <2>3. n \in Wird /\ OfBoth(l, r, n)
      BY <1>4, <2>1, <2>2, <2>4 DEF OfBoth, Restored, Supersedes
  <2> QED
      BY <2>3 DEF n
<1> QED
    BY <1>0, <1>1, <1>2, <1>3, <1>4

(* An undo of a cycle is one past its start, so what is saved in the cycle *)
(* is newer, or is what the undo is compared with.                         *)
LEMMA UndoOfSaved ==
    ASSUME NEW start \in [Cycles -> Nat], NEW w \in Wird, NEW x \in Wird,
           Lawful(start, w), Lawful(start, x), x.saved, w.undone = x.cyc
    PROVE  x.seq = w.seq - 1 \/ x.seq > w.seq
<1>1. x # NoWird
    BY NoWirdFacts
<1>2. x.cyc \in Cycles /\ x.cyc # NoCycle
    BY <1>1, NoWirdFacts DEF Lawful
<1>3. start[x.cyc] \in Nat /\ w.seq \in Nat /\ x.seq \in Nat /\ w # NoWird
    BY <1>2, WirdFacts, NoWirdFacts
<1>4. w.seq = start[x.cyc] + 1 /\ (x.seq = start[x.cyc] \/ x.seq >= start[x.cyc] + 2)
    BY <1>1, <1>2, <1>3 DEF Lawful
<1> QED
    BY <1>3, <1>4

LEMMA PositionKeeps ==
    ASSUME NEW start \in [Cycles -> Nat], NEW l \in Wird, NEW r \in Wird,
           Lawful(start, l), Lawful(start, r), l # NoWird, r # NoWird
    PROVE  LET n == Position(l, r) IN
           /\ n \in Wird /\ n # NoWird /\ Lawful(start, n)
           /\ Covers(n, r) /\ KeepsProgress(l, n) /\ AtLeast(n, r)
           /\ n.undone \in {l.undone, r.undone, NoCycle}
<1> DEFINE n == Position(l, r)
<1>0. /\ l.seq \in Nat /\ r.seq \in Nat /\ l.saved \in BOOLEAN /\ r.saved \in BOOLEAN
      /\ l.cyc \in Cycles /\ r.cyc \in Cycles /\ NoCycle \notin Cycles
      /\ start[l.cyc] \in Nat /\ start[r.cyc] \in Nat
    BY WirdFacts, NoWirdFacts DEF Lawful
<1>1. /\ l.seq = start[l.cyc] \/ (l.seq >= start[l.cyc] + 2 /\ l.saved)
      /\ r.seq = start[r.cyc] \/ (r.seq >= start[r.cyc] + 2 /\ r.saved)
      /\ opened[l.cyc] # NotBegun /\ opened[r.cyc] # NotBegun
      /\ l.undone # NoCycle => /\ l.undone \in Cycles /\ opened[l.undone] # NotBegun
                               /\ l.seq = start[l.undone] + 1
      /\ r.undone # NoCycle => /\ r.undone \in Cycles /\ opened[r.undone] # NotBegun
                               /\ r.seq = start[r.undone] + 1
    BY DEF Lawful
<1>2. /\ KeepsProgress(l, l) /\ KeepsProgress(r, r)
      /\ l.saved /\ r.undone = l.cyc => l.seq = r.seq - 1 \/ l.seq > r.seq
      /\ r.saved /\ l.undone = r.cyc => r.seq = l.seq - 1 \/ r.seq > l.seq
    BY CoversSelf, UndoOfSaved
<1>3. n \in Wird
    BY PositionCases
<1> HIDE DEF n
<1>4. ASSUME l.seq = r.seq, l.cyc = r.cyc,
             n.cyc = l.cyc, n.seq = l.seq, n.saved = (l.saved \/ r.saved),
             n.undone \in {l.undone, r.undone}
      PROVE  /\ n # NoWird /\ Lawful(start, n)
             /\ AtLeast(n, r) /\ KeepsProgress(r, n) /\ KeepsProgress(l, n)
             /\ n.undone \in {l.undone, r.undone, NoCycle}
  <2>1. n # NoWird
      BY <1>0, <1>4, NoWirdFacts
  <2>2. Lawful(start, n)
      BY <1>0, <1>1, <1>4 DEF Lawful
  <2>3. n.saved => n.undone # n.cyc
      BY <2>2, <1>3, CoversSelf DEF KeepsProgress
  <2> QED
      BY <1>0, <1>4, <2>1, <2>2, <2>3 DEF AtLeast, KeepsProgress
<1>5. ASSUME l.seq = r.seq, l.cyc # r.cyc, n \in {l, r}, n.saved = (l.saved \/ r.saved)
      PROVE  /\ n # NoWird /\ Lawful(start, n)
             /\ AtLeast(n, r) /\ KeepsProgress(r, n) /\ KeepsProgress(l, n)
             /\ n.undone \in {l.undone, r.undone, NoCycle}
    BY <1>0, <1>2, <1>5 DEF AtLeast, KeepsProgress
<1>6. ASSUME l.seq > r.seq, n = l, ~(l.undone = r.cyc /\ r.seq = l.seq - 1 /\ r.saved)
      PROVE  /\ n # NoWird /\ Lawful(start, n)
             /\ AtLeast(n, r) /\ KeepsProgress(r, n) /\ KeepsProgress(l, n)
             /\ n.undone \in {l.undone, r.undone, NoCycle}
    BY <1>0, <1>2, <1>6 DEF AtLeast, KeepsProgress
<1>7. ASSUME r.seq > l.seq, n = r, ~(r.undone = l.cyc /\ l.seq = r.seq - 1 /\ l.saved)
      PROVE  /\ n # NoWird /\ Lawful(start, n)
             /\ AtLeast(n, r) /\ KeepsProgress(r, n) /\ KeepsProgress(l, n)
             /\ n.undone \in {l.undone, r.undone, NoCycle}
    BY <1>0, <1>2, <1>7 DEF AtLeast, KeepsProgress
<1>8. ASSUME l.seq > r.seq, l.undone = r.cyc, r.seq = l.seq - 1, r.saved,
             n.cyc = r.cyc, n.seq = l.seq + 1, n.saved, n.undone = NoCycle
      PROVE  /\ n # NoWird /\ Lawful(start, n)
             /\ AtLeast(n, r) /\ KeepsProgress(r, n) /\ KeepsProgress(l, n)
             /\ n.undone \in {l.undone, r.undone, NoCycle}
  <2>1. n # NoWird
      BY <1>0, <1>8, NoWirdFacts
  <2>2. n.seq >= start[r.cyc] + 2
      BY <1>0, <1>1, <1>8
  <2>3. Lawful(start, n)
      BY <1>0, <1>1, <1>8, <2>2 DEF Lawful
  <2> QED
      BY <1>0, <1>8, <2>1, <2>3 DEF AtLeast, KeepsProgress
<1>9. ASSUME r.seq > l.seq, r.undone = l.cyc, l.seq = r.seq - 1, l.saved,
             n.cyc = l.cyc, n.seq = r.seq + 1, n.saved, n.undone = NoCycle
      PROVE  /\ n # NoWird /\ Lawful(start, n)
             /\ AtLeast(n, r) /\ KeepsProgress(r, n) /\ KeepsProgress(l, n)
             /\ n.undone \in {l.undone, r.undone, NoCycle}
  <2>1. n # NoWird
      BY <1>0, <1>9, NoWirdFacts
  <2>2. n.seq >= start[l.cyc] + 2
      BY <1>0, <1>1, <1>9
  <2>3. Lawful(start, n)
      BY <1>0, <1>1, <1>9, <2>2 DEF Lawful
  <2> QED
      BY <1>0, <1>9, <2>1, <2>3 DEF AtLeast, KeepsProgress
<1>10. /\ n # NoWird /\ Lawful(start, n)
       /\ AtLeast(n, r) /\ KeepsProgress(r, n) /\ KeepsProgress(l, n)
       /\ n.undone \in {l.undone, r.undone, NoCycle}
    BY <1>4, <1>5, <1>6, <1>7, <1>8, <1>9, PositionCases DEF n, OfBoth, Supersedes, Restored
<1> QED
    BY <1>3, <1>10 DEF n, Covers

(* A device merges a version r of the account into its wird l; x is the    *)
(* version it had, v the account's now.                                    *)
LEMMA MergeFollows ==
    ASSUME NEW start \in [Cycles -> Nat],
           NEW l \in Wird, NEW r \in Wird, NEW x \in Wird, NEW v \in Wird,
           Lawful(start, l), Lawful(start, r), Lawful(start, x), l # NoWird, r # NoWird,
           AtLeast(r, x), AtLeast(v, r), AtLeast(x, v) => Covers(l, x)
    PROVE  LET n == MergeWird(l, r, x) IN
           /\ AtLeast(r, v) => Covers(n, r)
           /\ AtLeast(x, v) => Covers(n, x)
<1> DEFINE n == MergeWird(l, r, x)
<1>1. AtLeast(x, v) => AtLeast(x, r) /\ AtLeast(r, v)
    BY AtLeastTrans
<1>2. Covers(r, r) /\ (AtLeast(x, v) => Covers(r, x))
    BY <1>1, CoversSelf, EqualCovers
<1>3. CASE l = x
  <2>1. n = r
      BY <1>3 DEF MergeWird
  <2> QED
      BY <1>2, <2>1
<1>4. CASE l # x /\ r = x
  <2>1. n = l
      BY <1>4 DEF MergeWird
  <2> QED
      BY <1>4, <2>1
<1>5. CASE l # x /\ r # x
  <2>1. n = Position(l, r)
      BY <1>5 DEF MergeWird
  <2>2. /\ n \in Wird /\ n # NoWird /\ Covers(n, r) /\ AtLeast(n, r)
        /\ n.undone \in {l.undone, r.undone, NoCycle}
      BY <2>1, PositionKeeps
  <2> HIDE DEF n
  <2>3. ASSUME AtLeast(x, v) PROVE Covers(n, x)
    <3>1. AtLeast(n, x)
        BY <2>2, AtLeastTrans
    <3>2. KeepsProgress(x, l) /\ KeepsProgress(x, r)
        BY <1>2, <2>3 DEF Covers
    <3>3. x.saved => x.cyc # NoCycle
        BY NoWirdFacts DEF Lawful
    <3> QED
        BY <2>2, <3>1, <3>2, <3>3 DEF Covers, KeepsProgress
  <2>4. /\ AtLeast(r, v) => Covers(n, r)
        /\ AtLeast(x, v) => Covers(n, x)
      BY <2>2, <2>3
  <2> QED
      BY <2>4 DEF n
<1> QED
    BY <1>3, <1>4, <1>5

LEMMA MergeKeeps ==
    ASSUME NEW start \in [Cycles -> Nat],
           NEW l \in Wird, NEW r \in Wird, NEW x \in Wird,
           Lawful(start, l), Lawful(start, r), l # NoWird, r # NoWird
    PROVE  LET n == MergeWird(l, r, x) IN
           /\ n \in Wird /\ n # NoWird /\ Lawful(start, n)
           /\ l # x => KeepsProgress(l, n)
    BY PositionKeeps, CoversSelf DEF MergeWird

(* What the records of got make of a device's wird l and of the base of    *)
(* its sync state m.                                                       *)
Outcome(l, m, got, n, b) ==
    \/ n = NoWird /\ b = NoBase
    \/ n = l /\ b = m.base
    \/ l = NoWird /\ n = m.base.wird /\ b = m.base
    \/ \E g \in got :
          /\ g.key = WirdKey /\ g.rec.live
          /\ b = [rev |-> g.rec.rev, wird |-> g.rec.body]
          /\ \/ l = NoWird /\ n \in {NoWird, g.rec.body}
             \/ l # NoWird /\ n = MergeWird(l, g.rec.body, m.base.wird)

LEMMA AppliedOutcome ==
    ASSUME NEW m \in Meta, NEW dt \in Data, MarksOK(dt), NEW got \in SUBSET Pulled,
           OnePerKey(got)
    PROVE  Outcome(dt.wird, m, got, Applied(m, dt, got).data.wird, Applied(m, dt, got).meta.base)
<1>1. Applied(m, dt, got).data.wird = AppliedWird(m, dt, got)
      /\ Applied(m, dt, got).meta.base = AppliedBase(m, got)
    BY AppliedShape
<1>2. Outcome(dt.wird, m, got, AppliedWird(m, dt, got), AppliedBase(m, got))
  <2>1. CASE WirdKey \in Gone(got)
      BY <2>1 DEF Outcome, AppliedWird, AppliedBase
  <2>2. CASE WirdKey \notin Gone(got) /\ ~RecOf(got, WirdKey).live
      BY <2>2 DEF Outcome, AppliedWird, AppliedBase
  <2>3. CASE WirdKey \notin Gone(got) /\ RecOf(got, WirdKey).live
    <3>1. PICK g \in got : g.key = WirdKey /\ RecOf(got, WirdKey) = g.rec
        BY <2>3, RecOfFacts, KeyFacts, NoneTyped
    <3>2. WirdKey \in dt.deleted => dt.wird = NoWird
        BY DEF MarksOK
    <3> QED
        BY <2>3, <3>1, <3>2 DEF Outcome, AppliedWird, AppliedBase
  <2> QED
      BY <2>1, <2>2, <2>3
<1> QED
    BY <1>1, <1>2

LEMMA MergeReal ==
    ASSUME NEW l \in Wird, NEW r \in Wird, NEW x \in Wird, l # NoWird, r # NoWird,
           NEW start \in [Cycles -> Nat], Lawful(start, l), Lawful(start, r)
    PROVE  MergeWird(l, r, x) # NoWird
    BY MergeKeeps

LEMMA DownloadOutcome ==
    ASSUME NEW m \in Meta, NEW dt \in Data, MarksOK(dt), NEW got \in SUBSET Pulled,
           OnePerKey(got), NEW start \in [Cycles -> Nat], Lawful(start, dt.wird),
           \A g \in got : g.key = WirdKey => LawfulRec(start, g.rec)
    PROVE  Outcome(dt.wird, m, got, AppliedDownload(m, dt, got).data.wird,
                   AppliedDownload(m, dt, got).meta.base)
<1> DEFINE ap == Applied(m, dt, got)
           n == ap.data.wird
           b == ap.meta.base
<1>1. Outcome(dt.wird, m, got, n, b)
    BY AppliedOutcome
<1>2. ap = [data |-> ap.data, meta |-> ap.meta] /\ ap.data \in Data
    BY AppliedShape DEF Applied
<1>3. CASE n = NoWird /\ WirdKey \notin ap.data.deleted
  <2>1. AppliedDownload(m, dt, got) = [ap EXCEPT !.data.wird = b.wird]
      BY <1>3 DEF AppliedDownload
  <2> HIDE DEF ap
  <2>2. AppliedDownload(m, dt, got).data.wird = b.wird
        /\ AppliedDownload(m, dt, got).meta.base = b
    <3> DEFINE dn == [ap.data EXCEPT !.wird = ap.meta.base.wird]
    <3>1. AppliedDownload(m, dt, got).meta = ap.meta /\ AppliedDownload(m, dt, got).data = dn
        BY <1>2, <2>1
    <3>2. dn.wird = ap.meta.base.wird
        BY <1>2 DEF Data
    <3> QED
        BY <3>1, <3>2
  <2> HIDE DEF n, b
  <2>3. Outcome(dt.wird, m, got, b.wird, b)
    <3>1. CASE n = dt.wird /\ b = m.base
        BY <1>3, <3>1 DEF Outcome, n, b
    <3>2. ASSUME NEW g \in got, g.key = WirdKey, g.rec.live,
                 b = [rev |-> g.rec.rev, wird |-> g.rec.body],
                 n = MergeWird(dt.wird, g.rec.body, m.base.wird), dt.wird # NoWird
          PROVE  FALSE
      <4>1. g.rec.body \in Wird /\ LawfulRec(start, g.rec) /\ dt.wird \in Wird
          BY <3>2 DEF Pulled, AccountRecord, Body, Data
      <4>2. g.rec.body # NoWird /\ Lawful(start, g.rec.body)
          BY <3>2, <4>1 DEF LawfulRec
      <4> QED
          BY <1>3, <3>2, <4>1, <4>2, MergeReal, MetaTyped
    <3>3. ASSUME NEW g \in got, g.key = WirdKey, g.rec.live,
                 b = [rev |-> g.rec.rev, wird |-> g.rec.body], dt.wird = NoWird
          PROVE  Outcome(dt.wird, m, got, b.wird, b)
      <4>1. b.wird = g.rec.body
          BY <3>3
      <4> QED
          BY <3>3, <4>1 DEF Outcome
    <3>4. CASE b = NoBase
        BY <3>4, NoneTyped DEF Outcome
    <3>5. CASE dt.wird = NoWird /\ n = m.base.wird /\ b = m.base
        BY <3>5 DEF Outcome
    <3> QED
        BY <1>1, <3>1, <3>2, <3>3, <3>4, <3>5 DEF Outcome, n, b
  <2> QED
      BY <2>2, <2>3 DEF n, b
<1>4. CASE ~(n = NoWird /\ WirdKey \notin ap.data.deleted)
  <2>1. AppliedDownload(m, dt, got) = ap
      BY <1>4 DEF AppliedDownload
  <2> QED
      BY <1>1, <2>1
<1> QED
    BY <1>3, <1>4

LEMMA OutcomeFollows ==
    ASSUME Typed, NEW start \in [Cycles -> Nat], NEW m \in Meta, NEW l \in Wird,
           NEW got \in SUBSET Pulled, NEW n, NEW b, Outcome(l, m, got, n, b),
           Lawful(start, l), Lawful(start, m.base.wird),
           LawfulRec(start, account.recs[WirdKey]),
           \A g \in got : g.key = WirdKey => LawfulRec(start, g.rec)
    PROVE  /\ Lawful(start, n) /\ Lawful(start, b.wird)
           /\ l # m.base.wird => KeepsProgress(l, n)
           /\ Lead(m.base.wird, l)
              /\ (\A g \in got : g.key = WirdKey => Between(g.rec, m.base.wird))
                => Lead(b.wird, n) /\ Lead(m.base.wird, n)
<1> DEFINE x == m.base.wird
           v == account.recs[WirdKey].body
<1>0. x \in Wird /\ v \in Wird /\ Lawful(start, v) /\ Lawful(start, NoWird) /\ NoBase.wird = NoWird
      /\ NoWird \in Wird
    BY MetaTyped, AccountTyped, KeyFacts, NoneTyped DEF LawfulRec, Lawful
<1>1. Lawful(start, x)
    OBVIOUS
<1>2. \A w \in Wird : Lead(NoWird, w) /\ (Lead(x, l) => Lead(x, NoWird))
    BY <1>0, CoversNone DEF Lead
<1>3. KeepsProgress(l, l) /\ KeepsProgress(l, NoWird)
    BY CoversSelf, CoversNone, NoWirdFacts DEF KeepsProgress, Lawful
<1>4. l = NoWird => \A w : KeepsProgress(l, w)
    BY NoWirdFacts DEF KeepsProgress
<1> HIDE DEF x, v
<1>5. CASE n = NoWird /\ b = NoBase
    BY <1>0, <1>2, <1>3, <1>5 DEF x
<1>6. CASE n = l /\ b = m.base
    BY <1>1, <1>3, <1>6 DEF x
<1>7. CASE l = NoWird /\ n = m.base.wird /\ b = m.base
  <2>1. Covers(x, x)
      BY <1>0, <1>1, CoversSelf
  <2> QED
      BY <1>1, <1>4, <1>7, <2>1 DEF x, Lead
<1>8. ASSUME NEW g \in got, g.key = WirdKey, g.rec.live,
             b = [rev |-> g.rec.rev, wird |-> g.rec.body],
             \/ l = NoWird /\ n \in {NoWird, g.rec.body}
             \/ l # NoWird /\ n = MergeWird(l, g.rec.body, m.base.wird)
      PROVE  /\ Lawful(start, n) /\ Lawful(start, b.wird)
             /\ l # m.base.wird => KeepsProgress(l, n)
             /\ Lead(m.base.wird, l) /\ Between(g.rec, m.base.wird)
                  => Lead(b.wird, n) /\ Lead(m.base.wird, n)
  <2> DEFINE r == g.rec.body
  <2>1. r \in Wird /\ Lawful(start, r) /\ r # NoWird /\ b.wird = r
      BY <1>8 DEF Pulled, AccountRecord, Body, LawfulRec
  <2>2. Covers(r, r)
      BY <2>1, CoversSelf
  <2>3. Between(g.rec, x) => AtLeast(r, x) /\ AtLeast(v, r)
      BY <1>8 DEF Between, v
  <2> HIDE DEF r
  <2>4. Between(g.rec, x) /\ AtLeast(x, v) => Covers(r, x)
    <3>1. ASSUME AtLeast(x, v), AtLeast(v, r) PROVE AtLeast(x, r)
        BY <1>0, <2>1, <3>1, AtLeastTrans
    <3> QED
        BY <1>0, <1>1, <2>1, <2>3, <3>1, EqualCovers
  <2>5. CASE l = NoWird
    <3>1. n = NoWird \/ n = r
        BY <1>8, <2>5 DEF r
    <3>2. Covers(NoWird, r) /\ Covers(NoWird, x)
        BY <1>0, <2>1, CoversNone
    <3> QED
        BY <1>0, <1>4, <2>1, <2>2, <2>3, <2>4, <2>5, <3>1, <3>2 DEF Lead, x, v
  <2>6. CASE l # NoWird
    <3>1. n = MergeWird(l, r, x)
        BY <1>8, <2>6 DEF r, x
    <3>2. n \in Wird /\ n # NoWird /\ Lawful(start, n) /\ (l # x => KeepsProgress(l, n))
        BY <1>0, <2>1, <2>6, <3>1, MergeKeeps
    <3>3. ASSUME Lead(x, l), Between(g.rec, x)
          PROVE  /\ AtLeast(r, v) => Covers(n, r)
                 /\ AtLeast(x, v) => Covers(n, x)
                 /\ AtLeast(v, x) /\ AtLeast(v, r)
      <4>1. AtLeast(r, x) /\ AtLeast(v, r) /\ (AtLeast(x, v) => Covers(l, x)) /\ AtLeast(v, x)
          BY <2>3, <3>3 DEF Lead, v
      <4> QED
          BY <1>0, <1>1, <2>1, <2>6, <3>1, <4>1, MergeFollows
    <3> QED
        BY <2>1, <3>2, <3>3 DEF Lead, x, v
  <2> QED
      BY <2>5, <2>6
<1> QED
    BY <1>5, <1>6, <1>7, <1>8 DEF Outcome

-----------------------------------------------------------------------------
(* What UndoKeepsProgress says of a step. *)
Kept ==
    /\ account'.gen <= 1
         => KeepsProgress(account.recs[WirdKey].body, account'.recs[WirdKey].body)
    /\ \A d \in ReadingDevices :
         data[d].wird \notin {meta[d].base.wird, sync[d].meta.base.wird}
           => KeepsProgress(data[d].wird, data'[d].wird)

(* A step of one device. *)
LEMMA ProgressStep ==
    ASSUME Typed, NEW start \in [Cycles -> Nat], LawfulAll(start), Sends,
           NEW start2 \in [Cycles -> Nat], Openings(start2)',
           \A w \in Wird : Lawful(start, w) => Lawful(start2, w)',
           NEW d \in ReadingDevices, NEW dt \in Data, NEW m \in Meta, NEW s \in Sync,
           LawfulDevice(start2, dt, m, s)', Queue(dt, s),
           account.gen <= 1 => KeepsUp(dt, m, s) /\ \A c \in s.todo : Carries(c),
           data[d].wird \notin {meta[d].base.wird, sync[d].meta.base.wird}
             => KeepsProgress(data[d].wird, dt.wird),
           data' = [data EXCEPT ![d] = dt], meta' = [meta EXCEPT ![d] = m],
           sync' = [sync EXCEPT ![d] = s], account' = account,
           \A c \in strayPush' : c \in strayPush \/ c \in sync[d].todo
    PROVE  ProgressInv' /\ Kept
<1>1. LawfulRec(start2, account.recs[WirdKey])'
  <2>1. account.recs[WirdKey].body \in Wird
      BY AccountTyped, KeyFacts
  <2> QED
      BY <2>1 DEF LawfulAll, LawfulRec
<1>2. ASSUME NEW c \in ReadingChange, LawfulPut(start, c)
      PROVE  LawfulPut(start2, c)'
    BY <1>2 DEF LawfulPut, ReadingChange, Body
<1>3. ASSUME NEW x \in Data, NEW y \in Meta, NEW z \in Sync, LawfulDevice(start, x, y, z)
      PROVE  LawfulDevice(start2, x, y, z)'
  <2>1. x.wird \in Wird /\ y.base.wird \in Wird /\ z.meta.base.wird \in Wird
        /\ z.answer.rec.body \in Wird /\ z.todo \in SUBSET ReadingChange
        /\ z.answer.sent \in ReadingChange /\ \A g \in z.got : g.rec.body \in Wird
      BY MetaTyped DEF Data, Sync, Answer, AccountRecord, Body, Pulled
  <2>2. /\ \A c \in z.todo : LawfulPut(start2, c)'
        /\ z.st = "answered" => LawfulPut(start2, z.answer.sent)'
      BY <1>2, <1>3, <2>1 DEF LawfulDevice
  <2> QED
      BY <1>3, <2>1, <2>2 DEF LawfulDevice, LawfulRec
<1>4. \A x, y, z, c : /\ Queue(x, z) <=> Queue(x, z)'
                      /\ KeepsUp(x, y, z) <=> KeepsUp(x, y, z)'
                      /\ Carries(c) <=> Carries(c)'
    BY DEF Queue, KeepsUp, Carries, Lead, Between
<1>5. ASSUME NEW e \in ReadingDevices, NEW x, NEW y, NEW z,
             x = data'[e], y = meta'[e], z = sync'[e]
      PROVE  /\ LawfulDevice(start2, x, y, z)' /\ Queue(x, z)'
             /\ account.gen <= 1 => KeepsUp(x, y, z)' /\ \A c \in z.todo : Carries(c)'
  <2>1. CASE e = d
    <3>1. x = dt /\ y = m /\ z = s
        BY <1>5, <2>1 DEF Typed
    <3> QED
        BY <1>4, <3>1
  <2>2. CASE e # d
    <3>1. x = data[e] /\ y = meta[e] /\ z = sync[e] /\ x \in Data /\ y \in Meta /\ z \in Sync
        BY <1>5, <2>2 DEF Typed
    <3>2. LawfulDevice(start, x, y, z) /\ Queue(x, z)
          /\ (account.gen <= 1 => KeepsUp(x, y, z) /\ \A c \in z.todo : Carries(c))
        BY <3>1 DEF LawfulAll, Sends
    <3> QED
        BY <1>3, <1>4, <3>1, <3>2
  <2> QED
      BY <2>1, <2>2
<1>6. ASSUME NEW c \in strayPush'
      PROVE  LawfulPut(start2, c)' /\ (account.gen <= 1 => Carries(c)')
  <2>1. c \in ReadingChange /\ LawfulPut(start, c) /\ (account.gen <= 1 => Carries(c))
      BY DEF LawfulAll, LawfulDevice, Sends, Typed, Sync
  <2> QED
      BY <1>2, <1>4, <2>1
<1>7. LawfulAll(start2)'
    BY <1>1, <1>5, <1>6 DEF LawfulAll
<1>8. Sends'
    BY <1>5, <1>6 DEF Sends
<1>9. Kept
  <2>1. KeepsProgress(account.recs[WirdKey].body, account'.recs[WirdKey].body)
      BY AccountTyped, KeyFacts, CoversSelf DEF LawfulAll, LawfulRec
  <2>2. ASSUME NEW e \in ReadingDevices, e # d
        PROVE  KeepsProgress(data[e].wird, data'[e].wird)
    <3>1. data'[e] = data[e] /\ data[e].wird \in Wird /\ Lawful(start, data[e].wird)
        BY <2>2 DEF Typed, Data, LawfulAll, LawfulDevice
    <3> QED
        BY <3>1, CoversSelf
  <2>3. data'[d] = dt
      BY DEF Typed
  <2> QED
      BY <2>1, <2>2, <2>3 DEF Kept
<1> QED
    BY <1>7, <1>8, <1>9 DEF ProgressInv

(* A step that is not the reader's. *)
LEMMA ProgressSync ==
    ASSUME Typed, NEW start \in [Cycles -> Nat], LawfulAll(start), Sends,
           NEW d \in ReadingDevices, NEW dt \in Data, NEW m \in Meta, NEW s \in Sync,
           LawfulDevice(start, dt, m, s), Queue(dt, s),
           account.gen <= 1 => KeepsUp(dt, m, s) /\ \A c \in s.todo : Carries(c),
           data[d].wird \notin {meta[d].base.wird, sync[d].meta.base.wird}
             => KeepsProgress(data[d].wird, dt.wird),
           data' = [data EXCEPT ![d] = dt], meta' = [meta EXCEPT ![d] = m],
           sync' = [sync EXCEPT ![d] = s], account' = account, opened' = opened,
           \A c \in strayPush' : c \in strayPush \/ c \in sync[d].todo
    PROVE  ProgressInv' /\ Kept
<1>1. \A w : Lawful(start, w) <=> Lawful(start, w)'
    BY DEF Lawful
<1>2. Openings(start)'
    BY DEF Openings, LawfulAll
<1>3. LawfulDevice(start, dt, m, s)'
    BY <1>1 DEF LawfulDevice, LawfulRec, LawfulPut
<1> QED
    BY <1>1, <1>2, <1>3, ProgressStep

(* The reader's edits of the wird. *)
Advances(l, n) ==
    \/ n = NoWird
    \/ /\ l # NoWird /\ AtLeast(n, l)
       /\ n.undone \in {l.undone, NoCycle} \/ (n.undone = l.cyc /\ ~l.saved)

LEMMA AdvanceCovers ==
    ASSUME NEW start \in [Cycles -> Nat], NEW l \in Wird, NEW n \in Wird, NEW x \in Wird,
           Lawful(start, l), Lawful(start, x), Advances(l, n), Covers(l, x)
    PROVE  Covers(n, x)
<1> SUFFICES ASSUME n # NoWird PROVE AtLeast(n, x) /\ KeepsProgress(x, n)
    BY DEF Covers
<1>1. /\ l # NoWird /\ AtLeast(n, l) /\ AtLeast(l, x) /\ KeepsProgress(x, l)
      /\ n.undone \in {l.undone, NoCycle} \/ (n.undone = l.cyc /\ ~l.saved)
    BY DEF Advances, Covers
<1>2. AtLeast(n, x)
    BY <1>1, AtLeastTrans
<1>3. KeepsProgress(x, n)
  <2> SUFFICES ASSUME x.saved, n.undone = x.cyc PROVE FALSE
      BY DEF KeepsProgress
  <2>1. x # NoWird /\ x.cyc \in Cycles /\ x.cyc # NoCycle
      BY NoWirdFacts DEF Lawful
  <2>2. l.cyc = x.cyc /\ ~l.saved
      BY <1>1, <2>1 DEF KeepsProgress
  <2>3. start[x.cyc] \in Nat /\ l.seq \in Nat /\ x.seq \in Nat
      BY <2>1, WirdFacts
  <2>4. l.seq = start[x.cyc] /\ (x.seq = start[x.cyc] \/ x.seq >= start[x.cyc] + 2)
      BY <1>1, <2>1, <2>2 DEF Lawful
  <2> QED
      BY <1>1, <2>2, <2>3, <2>4 DEF AtLeast
<1> QED
    BY <1>2, <1>3

LEMMA AdvanceKeeps ==
    ASSUME NEW start \in [Cycles -> Nat], NEW l \in Wird, NEW n \in Wird,
           Lawful(start, l), Advances(l, n)
    PROVE  KeepsProgress(l, n)
<1>1. l.saved => l.cyc # NoCycle
    BY NoWirdFacts DEF Lawful
<1> QED
    BY <1>1, NoWirdFacts, CoversSelf DEF Advances, KeepsProgress

LEMMA EditProgress ==
    ASSUME Typed, NEW start \in [Cycles -> Nat], LawfulAll(start), Sends,
           NEW start2 \in [Cycles -> Nat], Openings(start2)',
           \A w \in Wird : Lawful(start, w) => Lawful(start2, w)',
           NEW d \in ReadingDevices, NEW dt \in Data, Edit(d, dt),
           Advances(data[d].wird, dt.wird), Lawful(start2, dt.wird)'
    PROVE  ProgressInv' /\ Kept
<1> DEFINE l == data[d].wird
           n == dt.wird
<1>0. PICK m \in Meta, s \in Sync : m = meta[d] /\ s = sync[d]
    BY DEF Typed
<1>1. /\ l \in Wird /\ n \in Wird
      /\ m.base.wird \in Wird /\ s.meta.base.wird \in Wird
      /\ s.todo \in SUBSET ReadingChange /\ s.answer.sent \in ReadingChange
      /\ s.answer.rec.body \in Wird /\ \A g \in s.got : g.rec.body \in Wird
    BY <1>0, MetaTyped DEF Typed, Data, Sync, Answer, AccountRecord, Body, Pulled
<1>2. LawfulDevice(start, data[d], m, s) /\ Queue(data[d], s)
      /\ (account.gen <= 1 => KeepsUp(data[d], m, s) /\ \A c \in s.todo : Carries(c))
    BY <1>0 DEF LawfulAll, Sends
<1>3. data' = [data EXCEPT ![d] = dt] /\ meta' = [meta EXCEPT ![d] = m]
      /\ sync' = [sync EXCEPT ![d] = s] /\ account' = account /\ strayPush' = strayPush
    BY <1>0 DEF Edit, Typed
<1>4. Advances(l, n) /\ Lawful(start, l) /\ Lawful(start, m.base.wird)
      /\ Lawful(start, s.meta.base.wird) /\ Lawful(start2, n)'
    BY <1>2 DEF LawfulDevice
<1> HIDE DEF l, n
<1>5. LawfulDevice(start2, dt, m, s)'
  <2>1. ASSUME NEW c \in ReadingChange, LawfulPut(start, c)
        PROVE  LawfulPut(start2, c)'
      BY <2>1 DEF LawfulPut, ReadingChange, Body
  <2>2. /\ \A c \in s.todo : LawfulPut(start2, c)'
        /\ s.st = "answered" => LawfulPut(start2, s.answer.sent)'
      BY <1>1, <1>2, <2>1 DEF LawfulDevice
  <2> QED
      BY <1>1, <1>2, <1>4, <2>2 DEF LawfulDevice, LawfulRec, n
<1>6. ASSUME NEW x \in Wird, Lawful(start, x), Covers(l, x)
      PROVE  Covers(n, x)
    BY <1>1, <1>4, <1>6, AdvanceCovers
<1>7. Queue(dt, s)
  <2>1. ASSUME NEW c \in ReadingChange, Puts(c), LawfulPut(start, c), Covers(l, c.body)
        PROVE  Covers(n, c.body)
      BY <1>6, <2>1 DEF LawfulPut, ReadingChange, Body
  <2> QED
      BY <1>1, <1>2, <2>1 DEF Queue, LawfulDevice, l, n
<1>8. account.gen <= 1 => KeepsUp(dt, m, s)
    BY <1>1, <1>2, <1>4, <1>6 DEF KeepsUp, Lead, l, n
<1>9. KeepsProgress(l, n)
    BY <1>1, <1>4, AdvanceKeeps
<1> QED
    BY <1>0, <1>2, <1>3, <1>5, <1>7, <1>8, <1>9, ProgressStep DEF l, n

LEMMA NotBegunFacts ==
    /\ NotBegun \notin KhatmaKeys /\ NoKhatma \notin KhatmaKeys /\ NotBegun # NoKhatma
<1>1. \A k \in KhatmaKeys : k[1] \in Nat
    BY KeyFacts, ReadingAssumption
<1>2. NotBegun[1] = -1 /\ NoKhatma[1] = -1 /\ NotBegun[2] = -1 /\ NoKhatma[2] = 0
    BY DEF NotBegun, NoKhatma
<1> QED
    BY <1>1, <1>2

LEMMA ReaderProgress ==
    ASSUME ReadingInv, NEW start \in [Cycles -> Nat], LawfulAll(start), Sends,
           NEW d \in ReadingDevices, Reader(d)
    PROVE  ProgressInv' /\ Kept
<1>1. PICK w \in Wird : w = data[d].wird
    BY DEF ReadingInv, Typed, Data
<1>2. /\ Typed /\ Openings(start) /\ Lawful(start, w)
      /\ data[d] = [wird |-> w, khatmas |-> data[d].khatmas, deleted |-> data[d].deleted]
      /\ data[d].khatmas \in [KhatmaKeys -> Nat] /\ data[d].deleted \in SUBSET Keys
    BY <1>1 DEF ReadingInv, Typed, Data, LawfulAll, LawfulDevice
<1>3. /\ \A t \in Instants : t \in Nat
      /\ LastPage \in Page /\ 1 \in Page /\ NoCycle \in Cycles \cup {NoCycle}
    BY ReadingAssumption DEF Page
<1>4. /\ w.seq \in Nat /\ w.saved \in BOOLEAN
      /\ w # NoWird => w.cyc \in Cycles /\ w.cyc # NoCycle /\ start[w.cyc] \in Nat
    BY <1>2, WirdFacts, NoWirdFacts DEF Lawful
<1>5. ASSUME opened' = opened
      PROVE  Openings(start)' /\ \A x \in Wird : Lawful(start, x) <=> Lawful(start, x)'
    BY <1>2, <1>5 DEF Openings, Lawful
<1>6. ASSUME NEW p \in Page, NEW t \in Instants, SaveWirdPage(d, p, t)
      PROVE  ProgressInv' /\ Kept
  <2> DEFINE n == [w EXCEPT !.page = p, !.at = t, !.saved = @ \/ p # w.page]
             dt == [data[d] EXCEPT !.wird = n]
  <2>1. Edit(d, dt) /\ w # NoWird /\ opened' = opened
      BY <1>1, <1>6 DEF SaveWirdPage
  <2>2. n \in Wird /\ n.cyc = w.cyc /\ n.seq = w.seq /\ n.undone = w.undone
        /\ (w.saved => n.saved)
      BY <1>3 DEF Wird
  <2> HIDE DEF n
  <2>3. dt \in Data /\ dt.wird = n
      BY <1>2, <2>2 DEF Data
  <2>4. Lawful(start, n) /\ Advances(w, n)
      BY <1>2, <1>4, <2>1, <2>2 DEF Lawful, Advances, AtLeast
  <2> HIDE DEF dt
  <2> QED
      BY <1>1, <1>2, <1>5, <2>1, <2>2, <2>3, <2>4, EditProgress
<1>7. ASSUME NEW c \in Cycles, NEW t \in Instants, ConfirmKhatma(d, c, t)
      PROVE  ProgressInv' /\ Kept
  <2> DEFINE n == [cyc |-> c, seq |-> w.seq + 1, page |-> 1, at |-> t,
                   saved |-> FALSE, undone |-> NoCycle]
             start2 == [start EXCEPT ![c] = w.seq + 1]
  <2>1. PICK k \in KhatmaKeys :
            /\ k[1] = w.cyc
            /\ Edit(d, [data[d] EXCEPT !.khatmas[k] = t, !.wird = n])
            /\ opened' = [opened EXCEPT ![c] = k]
      BY <1>1, <1>7 DEF ConfirmKhatma
  <2> DEFINE dt == [data[d] EXCEPT !.khatmas[k] = t, !.wird = n]
  <2>2. n \in Wird /\ n.cyc = c /\ n.seq = w.seq + 1 /\ n.undone = NoCycle /\ w # NoWird
        /\ opened[c] = NotBegun
      BY <1>1, <1>3, <1>4, <1>7 DEF Wird, ConfirmKhatma
  <2> HIDE DEF n
  <2>3. dt \in Data /\ dt.wird = n /\ Edit(d, dt)
      BY <1>2, <1>3, <2>1, <2>2 DEF Data
  <2> HIDE DEF dt
  <2>4. start2 \in [Cycles -> Nat] /\ start2[c] = w.seq + 1
        /\ \A e \in Cycles : e # c => start2[e] = start[e]
      BY <1>4
  <2> HIDE DEF start2
  <2>5. /\ opened' \in [Cycles -> KhatmaKeys \cup {NoKhatma, NotBegun}]
        /\ opened'[c] = k /\ k # NotBegun
        /\ \A e \in Cycles : e # c => opened'[e] = opened[e]
      BY <1>2, <2>1, NotBegunFacts DEF Openings
  <2>6. ASSUME NEW x \in Wird, Lawful(start, x)
        PROVE  Lawful(start2, x)'
      BY <2>2, <2>4, <2>5, <2>6 DEF Lawful
  <2>7. Openings(start2)'
    <3> SUFFICES ASSUME NEW e \in Cycles, opened'[e] \in KhatmaKeys
                 PROVE  opened'[opened'[e][1]] # NotBegun /\ start2[e] > start2[opened'[e][1]]
        BY <2>5 DEF Openings
    <3>1. CASE e = c
      <4>1. w.cyc # c /\ opened[w.cyc] # NotBegun /\ w.seq >= start[w.cyc]
          BY <1>2, <1>4, <2>2 DEF Lawful
      <4> QED
          BY <1>4, <2>1, <2>2, <2>4, <2>5, <3>1, <4>1
    <3>2. CASE e # c
      <4>1. opened[e] \in KhatmaKeys /\ opened[e][1] \in Cycles
            /\ opened[opened[e][1]] # NotBegun /\ start[e] > start[opened[e][1]]
          BY <1>2, <2>5, <3>2, KeyFacts DEF Openings
      <4>2. opened[e][1] # c
          BY <2>2, <4>1
      <4> QED
          BY <2>4, <2>5, <3>2, <4>1, <4>2
    <3> QED
        BY <3>1, <3>2
  <2>8. Lawful(start2, n)'
      BY <2>2, <2>4, <2>5 DEF Lawful
  <2>9. Advances(w, n)
      BY <1>4, <2>2 DEF Advances, AtLeast
  <2> QED
      BY <1>1, <1>2, <2>2, <2>3, <2>4, <2>6, <2>7, <2>8, <2>9, EditProgress
<1>8. ASSUME NEW k \in KhatmaKeys, RemoveKhatma(d, k)
      PROVE  ProgressInv' /\ Kept
  <2> DEFINE undo == w # NoWird /\ opened[w.cyc] = k /\ ~w.saved /\ w.page = 1
             u == [cyc |-> k[1], seq |-> w.seq + 1, page |-> LastPage,
                   at |-> w.at, saved |-> TRUE, undone |-> w.cyc]
             n == IF undo THEN u ELSE w
             dt == [data[d] EXCEPT !.khatmas[k] = 0, !.deleted = @ \cup {k}, !.wird = n]
  <2>1. Edit(d, dt) /\ opened' = opened
      BY <1>1, <1>8 DEF RemoveKhatma
  <2>2. u.cyc = k[1] /\ u.seq = w.seq + 1 /\ u.saved /\ u.undone = w.cyc
      OBVIOUS
  <2>3. w # NoWird => u \in Wird
      BY <1>3, <1>4, KeyFacts, WirdFacts DEF Wird
  <2> HIDE DEF u
  <2>4. n \in Wird
      BY <2>3
  <2>5. undo => Lawful(start, u) /\ Advances(w, u)
    <3> SUFFICES ASSUME undo PROVE Lawful(start, u) /\ Advances(w, u)
        OBVIOUS
    <3>1. /\ w.seq = start[w.cyc] /\ opened[w.cyc] = k /\ k[1] \in Cycles
          /\ opened[k[1]] # NotBegun /\ start[w.cyc] > start[k[1]]
          /\ opened[w.cyc] # NotBegun
        BY <1>2, <1>4, KeyFacts DEF Lawful, Openings
    <3>2. start[k[1]] \in Nat /\ u.seq >= start[k[1]] + 2
        BY <1>4, <2>2, <3>1
    <3> QED
        BY <1>4, <2>2, <3>1, <3>2 DEF Lawful, Advances, AtLeast
  <2>6. Lawful(start, n) /\ Advances(w, n)
      BY <1>2, <1>4, <2>5 DEF Advances, AtLeast
  <2> HIDE DEF n, undo
  <2>7. dt \in Data /\ dt.wird = n
      BY <1>2, <2>4, KeyFacts DEF Data
  <2> HIDE DEF dt
  <2> QED
      BY <1>1, <1>2, <1>5, <2>1, <2>4, <2>6, <2>7, EditProgress
<1>9. CASE DeleteWird(d)
  <2> DEFINE dt == [data[d] EXCEPT !.wird = NoWird, !.deleted = @ \cup {WirdKey}]
  <2>1. Edit(d, dt) /\ opened' = opened
      BY <1>9 DEF DeleteWird
  <2>2. dt \in Data /\ dt.wird = NoWird
      BY <1>2, KeyFacts, NoneTyped DEF Data
  <2> HIDE DEF dt
  <2>3. Lawful(start, NoWird) /\ Advances(w, NoWird)
      BY DEF Lawful, Advances
  <2> QED
      BY <1>1, <1>2, <1>5, <2>1, <2>2, <2>3, NoneTyped, EditProgress
<1> QED
    BY <1>6, <1>7, <1>8, <1>9 DEF Reader

-----------------------------------------------------------------------------
(* The steps of a sync. *)
LEMMA DeviceFacts ==
    ASSUME ReadingInv, NEW start \in [Cycles -> Nat], LawfulAll(start), Sends,
           NEW d \in ReadingDevices
    PROVE  /\ Typed /\ data[d] \in Data /\ data[d].wird \in Wird
           /\ meta[d] \in Meta /\ sync[d] \in Sync /\ sync[d].meta \in Meta
           /\ LawfulDevice(start, data[d], meta[d], sync[d]) /\ Queue(data[d], sync[d])
           /\ account.gen <= 1 => /\ KeepsUp(data[d], meta[d], sync[d])
                                  /\ \A c \in sync[d].todo : Carries(c)
           /\ DeviceOK(data[d], meta[d], sync[d])
           /\ Lawful(start, data[d].wird) /\ KeepsProgress(data[d].wird, data[d].wird)
<1>1. Lawful(start, data[d].wird) /\ data[d].wird \in Wird
    BY DEF LawfulAll, LawfulDevice, ReadingInv, Typed, Data
<1>2. KeepsProgress(data[d].wird, data[d].wird)
    BY <1>1, CoversSelf
<1> QED
    BY <1>1, <1>2 DEF ReadingInv, Typed, LawfulAll, Sends, Sync

(* No sync, or a new one. *)
LEMMA NoneLawful ==
    ASSUME Typed, NEW start \in [Cycles -> Nat], NEW dt \in Data, NEW m \in Meta, NEW s \in Sync,
           Lawful(start, dt.wird), Lawful(start, m.base.wird),
           s.got = {}, s.todo = {}, s.st # "answered", s.answer = NoAnswer,
           s.meta.base.wird \in {NoWird, m.base.wird}
    PROVE  LawfulDevice(start, dt, m, s) /\ Queue(dt, s)
<1>1. NoAnswer.rec = Absent /\ Absent.body = NoWird /\ Absent.live = FALSE
    BY NoneTyped DEF NoAnswer
<1>2. Lawful(start, NoWird)
    BY DEF Lawful
<1> QED
    BY <1>1, <1>2 DEF LawfulDevice, LawfulRec, Queue

LEMMA NoneLead ==
    ASSUME Typed, NEW w \in Wird
    PROVE  Lead(NoWird, w)
    BY CoversNone, AccountTyped, KeyFacts DEF Lead

LEMMA AbandonProgress ==
    ASSUME ReadingInv, NEW start \in [Cycles -> Nat], LawfulAll(start), Sends,
           NEW d \in ReadingDevices, Abandon(d)
    PROVE  ProgressInv' /\ Kept
<1>1. PICK dt \in Data, m \in Meta : dt = data[d] /\ m = meta[d]
    BY DeviceFacts
<1>2. /\ Typed /\ dt.wird \in Wird /\ Lawful(start, dt.wird) /\ Lawful(start, m.base.wird)
      /\ account.gen <= 1 => KeepsUp(dt, m, sync[d])
      /\ KeepsProgress(dt.wird, dt.wird)
    BY <1>1, DeviceFacts DEF LawfulDevice
<1>3. NotSyncing.answer = NoAnswer /\ NotSyncing.meta.base.wird = NoWird
    BY NoneTyped DEF NotSyncing
<1>4. LawfulDevice(start, dt, m, NotSyncing) /\ Queue(dt, NotSyncing)
    BY <1>2, <1>3, NoneTyped, NoneLawful
<1>5. account.gen <= 1 => KeepsUp(dt, m, NotSyncing)
    BY <1>2, <1>3, NoneTyped, NoneLead DEF KeepsUp
<1>6. /\ data' = [data EXCEPT ![d] = dt] /\ meta' = [meta EXCEPT ![d] = m]
      /\ sync' = [sync EXCEPT ![d] = NotSyncing] /\ account' = account /\ opened' = opened
      /\ \A c \in strayPush' : c \in strayPush \/ c \in sync[d].todo
    BY <1>1, <1>2 DEF Abandon, ReadingFault, Typed, FirstOf
<1> QED
    BY <1>1, <1>2, <1>4, <1>5, <1>6, NoneTyped, ProgressSync

LEMMA LoseProgress ==
    ASSUME ReadingInv, NEW start \in [Cycles -> Nat], LawfulAll(start), Sends,
           NEW d \in ReadingDevices, LoseMeta(d) \/ LoseStops(d)
    PROVE  ProgressInv' /\ Kept
<1>1. PICK dt \in Data, m \in Meta, s \in Sync : dt = data[d] /\ m = meta[d] /\ s = sync[d]
    BY DeviceFacts
<1>2. /\ Typed /\ dt.wird \in Wird /\ Lawful(start, dt.wird)
      /\ LawfulDevice(start, dt, m, s) /\ Queue(dt, s)
      /\ account.gen <= 1 => KeepsUp(dt, m, s) /\ \A c \in s.todo : Carries(c)
      /\ KeepsProgress(dt.wird, dt.wird) /\ DeviceOK(dt, m, s)
    BY <1>1, DeviceFacts
<1>3. CASE LoseMeta(d)
  <2>1. s.st = "idle" /\ s = NotSyncing
      BY <1>1, <1>2, <1>3 DEF LoseMeta, DeviceOK, SyncOK
  <2>2. NotSyncing.answer = NoAnswer /\ EmptyMeta.base.wird = NoWird /\ Lawful(start, NoWird)
      BY NoneTyped DEF NotSyncing, Lawful
  <2>3. LawfulDevice(start, dt, EmptyMeta, s) /\ Queue(dt, s)
      BY <1>2, <2>1, <2>2, NoneTyped, NoneLawful
  <2>4. account.gen <= 1 => KeepsUp(dt, EmptyMeta, s)
      BY <1>2, <2>1, <2>2, NoneTyped, NoneLead DEF KeepsUp
  <2>5. /\ data' = [data EXCEPT ![d] = dt] /\ meta' = [meta EXCEPT ![d] = EmptyMeta]
        /\ sync' = [sync EXCEPT ![d] = s] /\ account' = account /\ opened' = opened
        /\ strayPush' = strayPush
      BY <1>1, <1>2, <1>3 DEF LoseMeta, ReadingFault, Typed
  <2> QED
      BY <1>1, <1>2, <2>3, <2>4, <2>5, NoneTyped, ProgressSync
<1>4. CASE LoseStops(d)
  <2> DEFINE dn == [dt EXCEPT !.wird = NoWird]
  <2>1. dn \in Data /\ dn.wird = NoWird
      BY NoneTyped DEF Data
  <2> HIDE DEF dn
  <2>2. LawfulDevice(start, dn, m, s) /\ Queue(dn, s)
      BY <1>2, <2>1 DEF LawfulDevice, Lawful, Queue, Covers
  <2>3. account.gen <= 1 => KeepsUp(dn, m, s)
      BY <1>2, <2>1 DEF KeepsUp, Lead, Covers
  <2>4. KeepsProgress(dt.wird, dn.wird)
      BY <1>2, <2>1, NoWirdFacts DEF KeepsProgress, Lawful
  <2>5. /\ data' = [data EXCEPT ![d] = dn] /\ meta' = [meta EXCEPT ![d] = m]
        /\ sync' = [sync EXCEPT ![d] = s] /\ account' = account /\ opened' = opened
        /\ strayPush' = strayPush
      BY <1>1, <1>2, <1>4 DEF LoseStops, ReadingFault, Typed, dn
  <2> QED
      BY <1>1, <1>2, <2>1, <2>2, <2>3, <2>4, <2>5, ProgressSync
<1> QED
    BY <1>3, <1>4

LEMMA SaveProgress ==
    ASSUME ReadingInv, NEW start \in [Cycles -> Nat], LawfulAll(start), Sends,
           NEW d \in ReadingDevices, SaveMeta(d)
    PROVE  ProgressInv' /\ Kept
<1>1. PICK dt \in Data, m \in Meta, s \in Sync : dt = data[d] /\ m = s.meta /\ s = sync[d]
    BY DeviceFacts
<1>2. /\ Typed /\ dt.wird \in Wird /\ Lawful(start, dt.wird) /\ AccountOK
      /\ LawfulDevice(start, dt, meta[d], s) /\ Queue(dt, s)
      /\ account.gen <= 1 => KeepsUp(dt, meta[d], s) /\ \A c \in s.todo : Carries(c)
      /\ KeepsProgress(dt.wird, dt.wird) /\ Knows(m)
    BY <1>1, DeviceFacts DEF ReadingInv, DeviceOK, SyncOK
<1> DEFINE todo == IF s.todo # {} THEN s.todo ELSE ToUpload(m, dt)
           sn == IF todo = {} THEN NotSyncing ELSE [s EXCEPT !.st = "ready", !.todo = todo]
<1>3. /\ data' = [data EXCEPT ![d] = dt] /\ meta' = [meta EXCEPT ![d] = m]
      /\ sync' = [sync EXCEPT ![d] = sn] /\ account' = account /\ opened' = opened
      /\ strayPush' = strayPush /\ s.st = "saving"
    BY <1>1, <1>2 DEF SaveMeta, ReaderUntouched, Typed
<1>4. ASSUME NEW c \in ToUpload(m, dt), Puts(c)
      PROVE  c.body = dt.wird /\ c.body # NoWird /\ c.base = m.base.rev /\ c.key = WirdKey
             /\ c = [key |-> WirdKey, del |-> FALSE, base |-> m.base.rev, body |-> dt.wird]
  <2>1. \A k \in KhatmaKeys : k # WirdKey
      BY KeyFacts
  <2> QED
      BY <1>4, <2>1 DEF ToUpload, DeletesToUpload, Puts
<1>5. AtLeast(dt.wird, dt.wird) /\ Covers(dt.wird, dt.wird)
    BY <1>2, CoversSelf
<1>6. ASSUME account.gen <= 1, NEW c \in ToUpload(m, dt)
      PROVE  Carries(c)
  <2> DEFINE r == account.recs[WirdKey]
  <2>1. /\ m.gen \in Nat /\ account.gen \in Nat /\ m.base.rev \in Nat /\ m.base.wird \in Wird
        /\ r.rev \in Nat /\ r.live \in BOOLEAN /\ r.body \in Wird /\ (r.live => r.rev > 0)
      BY <1>2, MetaTyped, AccountTyped, KeyFacts DEF AccountOK
  <2>2. m.base.rev <= r.rev /\ (r.live /\ m.base.rev = r.rev => m.base.wird = r.body)
    <3>1. CASE m.gen = account.gen
        BY <1>2, <3>1 DEF Knows
    <3>2. CASE m.gen # account.gen
      <4>1. m.gen = 0
          BY <1>2, <1>6, <2>1, <3>2 DEF Knows
      <4>2. m.base.rev = 0
          BY <1>2, <4>1, NoneTyped DEF Knows
      <4> QED
          BY <2>1, <4>2
    <3> QED
        BY <3>1, <3>2
  <2>3. r.live => (AtLeast(m.base.wird, r.body) => Covers(dt.wird, m.base.wird))
      BY <1>1, <1>2, <1>6 DEF KeepsUp, Lead
  <2>4. LawfulRec(start, r) /\ AtLeast(r.body, r.body)
      BY <2>1, CoversSelf DEF LawfulAll, LawfulRec
  <2> HIDE DEF r
  <2> QED
      BY <1>4, <2>2, <2>3, <2>4 DEF Carries, r
<1>7. CASE todo = {}
  <2>1. NotSyncing.answer = NoAnswer /\ NotSyncing.meta.base.wird = NoWird
      BY NoneTyped DEF NotSyncing
  <2>2. LawfulDevice(start, dt, m, NotSyncing) /\ Queue(dt, NotSyncing)
      BY <1>1, <1>2, <2>1, NoneTyped, NoneLawful DEF LawfulDevice
  <2>3. account.gen <= 1 => KeepsUp(dt, m, NotSyncing)
      BY <1>1, <1>2, <2>1, NoneTyped, NoneLead DEF KeepsUp
  <2>4. sn = NotSyncing
      BY <1>7
  <2> HIDE DEF sn, todo
  <2> QED
      BY <1>1, <1>2, <1>3, <2>2, <2>3, <2>4, NoneTyped, ProgressSync
<1>8. CASE todo # {}
  <2>1. todo \in SUBSET ReadingChange
      BY UploadOK DEF Sync
  <2>2. \A c \in todo : LawfulPut(start, c)
      BY <1>2, <1>4 DEF LawfulPut, LawfulDevice
  <2>3. /\ \A c, e \in todo : Puts(c) /\ Puts(e) => c = e
        /\ \A c \in todo : Puts(c) => Covers(dt.wird, c.body)
      BY <1>2, <1>4, <1>5 DEF Queue
  <2>4. account.gen <= 1 => \A c \in todo : Carries(c)
      BY <1>2, <1>6
  <2> HIDE DEF todo
  <2>5. sn \in Sync /\ sn.st = "ready" /\ sn.todo = todo /\ sn.meta = m /\ sn.got = s.got
        /\ sn.answer = s.answer
      BY <1>1, <1>8, <2>1 DEF Sync
  <2> HIDE DEF sn
  <2>6. LawfulDevice(start, dt, m, sn) /\ Queue(dt, sn)
      BY <1>1, <1>2, <2>2, <2>3, <2>5 DEF LawfulDevice, Queue
  <2>7. account.gen <= 1 => KeepsUp(dt, m, sn)
      BY <1>1, <1>2, <2>5 DEF KeepsUp
  <2> QED
      BY <1>1, <1>2, <1>3, <2>4, <2>5, <2>6, <2>7, ProgressSync
<1> QED
    BY <1>7, <1>8

LEMMA ReceiveProgress ==
    ASSUME ReadingInv, NEW start \in [Cycles -> Nat], LawfulAll(start), Sends,
           NEW d \in ReadingDevices, ReceiveResult(d)
    PROVE  ProgressInv' /\ Kept
<1>1. PICK dt \in Data, m \in Meta, s \in Sync : dt = data[d] /\ m = meta[d] /\ s = sync[d]
    BY DeviceFacts
<1> DEFINE a == s.answer
           next == ResultApplied(m, dt, a)
           restart == m.gen # 0 /\ a.gen # m.gen
<1>2. /\ Typed /\ dt.wird \in Wird /\ Lawful(start, dt.wird) /\ AccountOK
      /\ LawfulDevice(start, dt, m, s) /\ Queue(dt, s)
      /\ account.gen <= 1 => KeepsUp(dt, m, s) /\ \A c \in s.todo : Carries(c)
      /\ KeepsProgress(dt.wird, dt.wird) /\ MarksOK(dt) /\ Knows(m) /\ Has(m, dt, {})
      /\ s.st = "answered" /\ s.meta = m /\ AnswerOK(a, m) /\ a \in Answer
    BY <1>1, DeviceFacts DEF ReadingInv, DeviceOK, SyncOK, ReceiveResult, Sync
<1>3. /\ meta' = [meta EXCEPT ![d] = m] /\ account' = account /\ opened' = opened
      /\ strayPush' = strayPush
    BY <1>1, <1>2 DEF ReceiveResult, ReaderUntouched, Typed
<1>4. CASE restart
  <2> DEFINE sn == [NotSyncing EXCEPT !.st = "pulling"]
  <2>1. data' = [data EXCEPT ![d] = dt] /\ sync' = [sync EXCEPT ![d] = sn]
      BY <1>1, <1>2, <1>4 DEF ReceiveResult, Typed
  <2>2. sn \in Sync /\ sn.st = "pulling" /\ sn.meta = EmptyMeta /\ sn.todo = {} /\ sn.got = {}
        /\ sn.answer = NoAnswer
      BY NoneTyped DEF Sync, NotSyncing
  <2> HIDE DEF sn
  <2>3. LawfulDevice(start, dt, m, sn) /\ Queue(dt, sn)
      BY <1>2, <2>2, NoneTyped, NoneLawful DEF LawfulDevice
  <2>4. ~(account.gen <= 1)
      BY <1>2, <1>4, AccountTyped, MetaTyped DEF AnswerOK
  <2> QED
      BY <1>1, <1>2, <1>3, <2>1, <2>2, <2>3, <2>4, ProgressSync
<1>5. CASE ~restart
  <2> DEFINE sn == [s EXCEPT !.st = "saving", !.meta = next.meta, !.answer = NoAnswer]
             fresh == [m EXCEPT !.gen = a.gen]
             got == {[key |-> a.key, rec |-> a.rec]}
             n == next.data.wird
             b == next.meta.base
             v == account.recs[WirdKey].body
  <2>1. data' = [data EXCEPT ![d] = next.data] /\ sync' = [sync EXCEPT ![d] = sn]
      BY <1>1, <1>2, <1>5 DEF ReceiveResult
  <2>2. next.data \in Data /\ next.meta \in Meta
      BY <1>2, <1>5, ResultOK
  <2>3. a.gen \in Nat /\ a.key \in Keys /\ a.rec \in AccountRecord /\ a.sent \in ReadingChange
        /\ a.sent.key \in Keys /\ a.sent.body \in Wird /\ a.rec.body \in Wird
      BY <1>2 DEF Answer, ReadingChange, AccountRecord, Body
  <2>4. fresh \in Meta /\ fresh.base = m.base
      BY <2>3 DEF Meta
  <2> HIDE DEF fresh
  <2>5. /\ Lawful(start, m.base.wird) /\ m.base.wird \in Wird
        /\ LawfulRec(start, account.recs[WirdKey])
        /\ a.key = WirdKey => LawfulRec(start, a.rec)
        /\ a.key = WirdKey => a.sent.key = WirdKey
      BY <1>2, MetaTyped DEF LawfulDevice, LawfulAll, Queue
  <2>6. account.gen <= 1 /\ account.recs[WirdKey].live =>
           /\ Lead(m.base.wird, dt.wird)
           /\ a.key = WirdKey => Between(a.rec, m.base.wird)
      BY <1>2 DEF KeepsUp
  <2>7. /\ Lawful(start, n) /\ Lawful(start, b.wird)
        /\ dt.wird # m.base.wird => KeepsProgress(dt.wird, n)
        /\ account.gen <= 1 /\ account.recs[WirdKey].live
             => Lead(b.wird, n) /\ Lead(m.base.wird, n)
        /\ a.key # WirdKey => n = dt.wird
        /\ n = dt.wird \/ a.key = WirdKey
    <3>1. CASE Taken(a)
      <4>1. next.data = dt
            /\ (a.key # WirdKey => next.meta = [fresh EXCEPT !.known = @ \cup {a.key}])
            /\ (a.key = WirdKey => next.meta = [fresh EXCEPT !.base = Acknowledged(dt, a)])
          BY <3>1 DEF ResultApplied, fresh
      <4>2. a.key # WirdKey => b = m.base
          BY <2>4, <4>1 DEF Meta
      <4>3. a.key = WirdKey => b.wird = a.sent.body
          BY <2>4, <4>1 DEF Meta, Acknowledged
      <4>4. a.key = WirdKey => a.rec.body = a.sent.body /\ a.rec.live /\ Puts(a.sent)
          BY <1>2, <2>5, <3>1 DEF Taken, AnswerOK, Puts
      <4>5. a.key = WirdKey => Covers(dt.wird, a.sent.body)
          BY <1>2, <4>4 DEF Queue
      <4> HIDE DEF next
      <4> QED
          BY <1>2, <2>5, <2>6, <4>1, <4>2, <4>3, <4>4, <4>5 DEF LawfulRec, Lead, Between
    <3>2. CASE ~Taken(a)
      <4> DEFINE dropped == IF a.status = "duplicate" THEN [dt EXCEPT !.khatmas[a.sent.key] = 0]
                            ELSE dt
      <4>1. next = Applied(fresh, dropped, got)
          BY <3>2 DEF ResultApplied, fresh
      <4>2. dropped \in Data /\ dropped.wird = dt.wird /\ dropped.deleted = dt.deleted
            /\ MarksOK(dropped)
        <5>1. CASE a.status = "duplicate"
          <6> DEFINE dx == [dt EXCEPT !.khatmas[a.sent.key] = 0]
          <6>1. a.sent.key \in KhatmaKeys
              BY <1>2, <2>3, <5>1, KeyFacts DEF AnswerOK
          <6>2. dx \in Data /\ dx.wird = dt.wird /\ dx.deleted = dt.deleted
                /\ dx.khatmas = [dt.khatmas EXCEPT ![a.sent.key] = 0]
                /\ dt.khatmas \in [KhatmaKeys -> Nat]
              BY <6>1 DEF Data
          <6>3. dropped = dx
              BY <5>1
          <6> HIDE DEF dx, dropped
          <6>4. MarksOK(dx)
              BY <1>2, <6>1, <6>2 DEF MarksOK
          <6> QED
              BY <6>2, <6>3, <6>4
        <5>2. CASE a.status # "duplicate"
            BY <1>2, <5>2
        <5> QED
            BY <5>1, <5>2
      <4> HIDE DEF dropped
      <4>3. got \in SUBSET Pulled /\ OnePerKey(got)
          BY <2>3 DEF Pulled, OnePerKey
      <4>4. \A g \in got : g.key = a.key /\ g.rec = a.rec
          OBVIOUS
      <4> HIDE DEF got
      <4>5. Outcome(dt.wird, fresh, got, Applied(fresh, dropped, got).data.wird,
                    Applied(fresh, dropped, got).meta.base)
          BY <2>4, <4>2, <4>3, AppliedOutcome
      <4>6. Outcome(dt.wird, fresh, got, n, b)
          BY <4>1, <4>5
      <4>7. a.key # WirdKey => n = dt.wird
        <5> SUFFICES ASSUME a.key # WirdKey PROVE n = dt.wird
            OBVIOUS
        <5>1. n = AppliedWird(fresh, dropped, got)
            BY <2>4, <4>1, <4>2, <4>3, AppliedShape
        <5>2. RecOf(got, WirdKey) = Absent /\ WirdKey \notin Gone(got)
            BY <4>3, <4>4, RecOfFacts, KeyFacts
        <5> QED
            BY <4>2, <5>1, <5>2, NoneTyped DEF AppliedWird
      <4> HIDE DEF n, b
      <4>8. \A g \in got : g.key = WirdKey => LawfulRec(start, g.rec)
          BY <2>5, <4>4
      <4>9. /\ Lawful(start, n) /\ Lawful(start, b.wird)
            /\ dt.wird # fresh.base.wird => KeepsProgress(dt.wird, n)
            /\ Lead(fresh.base.wird, dt.wird)
               /\ (\A g \in got : g.key = WirdKey => Between(g.rec, fresh.base.wird))
                 => Lead(b.wird, n) /\ Lead(fresh.base.wird, n)
          BY <1>2, <2>4, <2>5, <4>3, <4>6, <4>8, OutcomeFollows
      <4> QED
          BY <2>4, <2>6, <4>4, <4>7, <4>9
    <3> QED
        BY <3>1, <3>2
  <2> HIDE DEF next
  <2>8. sn \in Sync /\ sn.st = "saving" /\ sn.meta = next.meta /\ sn.todo = s.todo
        /\ sn.got = s.got /\ sn.answer = NoAnswer
      BY <1>1, <2>2, NoneTyped DEF Sync
  <2> HIDE DEF sn
  <2>9. NoAnswer.rec = Absent /\ Absent.body = NoWird /\ Absent.live = FALSE
        /\ Lawful(start, NoWird)
      BY NoneTyped DEF NoAnswer, Lawful
  <2>10. LawfulDevice(start, next.data, m, sn)
      BY <1>2, <2>5, <2>7, <2>8, <2>9 DEF LawfulDevice, LawfulRec
  <2>11. Queue(next.data, sn)
    <3>1. \A c \in s.todo : Puts(c) => a.key # WirdKey
        BY <1>2 DEF Queue
    <3> QED
        BY <1>2, <2>7, <2>8, <3>1 DEF Queue
  <2>12. account.gen <= 1 => KeepsUp(next.data, m, sn) /\ \A c \in sn.todo : Carries(c)
      BY <1>2, <2>7, <2>8 DEF KeepsUp
  <2>13. data[d].wird \notin {meta[d].base.wird, sync[d].meta.base.wird}
             => KeepsProgress(data[d].wird, next.data.wird)
      BY <1>1, <2>7
  <2> QED
      BY <1>1, <1>2, <1>3, <2>1, <2>2, <2>8, <2>10, <2>11, <2>12, <2>13, ProgressSync
<1> QED
    BY <1>4, <1>5

LEMMA PullProgress ==
    ASSUME ReadingInv, NEW start \in [Cycles -> Nat], LawfulAll(start), Sends,
           NEW d \in ReadingDevices, PullPage(d)
    PROVE  ProgressInv' /\ Kept
<1> DEFINE s == IF sync[d].st = "idle"
                THEN [NotSyncing EXCEPT !.st = "pulling", !.meta = meta[d]] ELSE sync[d]
           new == Newer(s.meta.since)
           first == CHOOSE k \in new : \A j \in new :
                        account.recs[k].chg <= account.recs[j].chg
           last == \A k \in new : k = first
           page == IF new = {} THEN {} ELSE {[key |-> first, rec |-> account.recs[first]]}
           got == {g \in s.got : new = {} \/ g.key # first} \cup page
           m == [s.meta EXCEPT !.gen = IF account.gen = 0 THEN @ ELSE account.gen,
                               !.since = IF new = {} THEN @ ELSE NextSince(first)]
           next == AppliedDownload(m, data[d], got)
           again == account.gen # 0 /\ s.meta.gen \notin {0, account.gen}
<1>1. PICK dt \in Data, mo \in Meta : dt = data[d] /\ mo = meta[d]
    BY DeviceFacts
<1>2. /\ Typed /\ dt.wird \in Wird /\ Lawful(start, dt.wird) /\ AccountOK
      /\ sync[d] \in Sync /\ LawfulDevice(start, dt, mo, sync[d]) /\ Queue(dt, sync[d])
      /\ account.gen <= 1 => KeepsUp(dt, mo, sync[d])
      /\ KeepsProgress(dt.wird, dt.wird) /\ DeviceOK(dt, mo, sync[d]) /\ MarksOK(dt)
    BY <1>1, DeviceFacts DEF ReadingInv, DeviceOK
<1>3. /\ s.st = "pulling"
      /\ meta' = [meta EXCEPT ![d] = mo] /\ account' = account /\ strayPush' = strayPush
      /\ opened' = opened
      /\ \/ /\ again
            /\ sync' = [sync EXCEPT ![d] =
                 [s EXCEPT !.meta = [EmptyMeta EXCEPT !.gen = account.gen], !.got = {}]]
            /\ data' = [data EXCEPT ![d] = dt]
         \/ /\ ~again /\ ~last
            /\ sync' = [sync EXCEPT ![d] = [s EXCEPT !.meta = m, !.got = got]]
            /\ data' = [data EXCEPT ![d] = dt]
         \/ /\ ~again /\ last
            /\ sync' = [sync EXCEPT ![d] =
                 [s EXCEPT !.st = "saving", !.meta = next.meta, !.got = {}]]
            /\ data' = [data EXCEPT ![d] = next.data]
    BY <1>1, <1>2 DEF PullPage, ReaderUntouched, Typed
<1>4. /\ s \in Sync /\ s.meta \in Meta /\ s.got \in SUBSET Pulled /\ s.todo = {}
      /\ LawfulDevice(start, dt, mo, s) /\ Knows(s.meta) /\ GotOK(s.meta, s.got)
      /\ account.gen <= 1 => KeepsUp(dt, mo, s)
  <2>1. CASE sync[d].st = "idle"
    <3>1. s \in Sync /\ s.meta = mo /\ s.got = {} /\ s.todo = {} /\ s.answer = NoAnswer
        BY <1>1, <1>2, <2>1, NoneTyped DEF Sync, NotSyncing
    <3> HIDE DEF s
    <3>2. LawfulDevice(start, dt, mo, s)
        BY <1>2, <1>3, <3>1, NoneLawful DEF LawfulDevice
    <3> QED
        BY <1>2, <1>3, <3>1, <3>2 DEF DeviceOK, GotOK, KeepsUp
  <2>2. CASE sync[d].st # "idle"
    <3>1. s = sync[d]
        BY <2>2
    <3> HIDE DEF s
    <3> QED
        BY <1>2, <1>3, <3>1 DEF DeviceOK, SyncOK, Sync, Queue
  <2> QED
      BY <2>1, <2>2
<1>5. /\ Lawful(start, mo.base.wird) /\ Lawful(start, s.meta.base.wird)
      /\ LawfulRec(start, account.recs[WirdKey])
      /\ \A g \in s.got : g.key = WirdKey => LawfulRec(start, g.rec)
      /\ s.answer.key = WirdKey => LawfulRec(start, s.answer.rec)
    BY <1>4 DEF LawfulDevice, LawfulAll
<1> HIDE DEF s
<1>6. CASE again
  <2> DEFINE mn == [EmptyMeta EXCEPT !.gen = account.gen]
             sn == [s EXCEPT !.meta = mn, !.got = {}]
  <2>1. mn \in Meta /\ mn.base = NoBase
      BY <1>2, NoneTyped, AccountTyped DEF Meta
  <2> HIDE DEF mn
  <2>2. sn \in Sync /\ sn.st = "pulling" /\ sn.meta = mn /\ sn.got = {} /\ sn.todo = {}
        /\ sn.answer = s.answer
      BY <1>3, <1>4, <2>1 DEF Sync
  <2>3. data' = [data EXCEPT ![d] = dt] /\ sync' = [sync EXCEPT ![d] = sn]
      BY <1>3, <1>6 DEF mn
  <2> HIDE DEF sn
  <2>4. Lawful(start, NoWird)
      BY DEF Lawful
  <2>5. LawfulDevice(start, dt, mo, sn) /\ Queue(dt, sn)
      BY <1>2, <1>5, <2>1, <2>2, <2>4, NoneTyped DEF LawfulDevice, Queue
  <2>6. ~(account.gen <= 1)
    <3>1. s.meta.gen \in Nat /\ account.gen \in Nat /\ s.meta.gen <= account.gen
        BY <1>2, <1>4, AccountTyped, MetaTyped DEF Knows
    <3> QED
        BY <1>6, <3>1
  <2> QED
      BY <1>1, <1>2, <1>3, <2>2, <2>3, <2>5, <2>6, ProgressSync
<1>7. ASSUME ~again
      PROVE  /\ m \in Meta /\ m.base = s.meta.base
             /\ got \in SUBSET Pulled /\ OnePerKey(got)
             /\ \A g \in got : g \in s.got \/ g.rec = account.recs[g.key]
  <2>1. /\ account.gen \in Nat /\ s.meta.gen \in Nat /\ s.meta.since \in Nat
        /\ \A k \in Keys : account.recs[k].chg \in Nat /\ account.recs[k] \in AccountRecord
      BY <1>2, <1>4, AccountTyped, MetaTyped
  <2>2. new \in SUBSET Keys
      BY DEF Newer
  <2> HIDE DEF new
  <2>3. new # {} => first \in new
      BY <1>2, <2>2, FirstNew
  <2> HIDE DEF first
  <2>4. (IF account.gen = 0 THEN s.meta.gen ELSE account.gen) \in Nat
        /\ (IF new = {} THEN s.meta.since ELSE account.recs[first].chg) \in Nat
      BY <2>1, <2>2, <2>3
  <2>5. m \in Meta /\ m.base = s.meta.base
      BY <1>4, <2>4 DEF NextSince, Meta
  <2>6. page \in SUBSET Pulled /\ \A g \in page : g.key = first /\ g.rec = account.recs[first]
      BY <2>1, <2>2, <2>3 DEF Pulled
  <2>7. \A g, h \in page : g = h
      OBVIOUS
  <2>8. s.meta.gen = account.gen \/ s.got = {}
      BY <1>4, <1>7, <2>1 DEF GotOK, Knows
  <2>9. \A g, h \in s.got : g.key = h.key => g = h
      BY <1>4, <2>8 DEF GotOK
  <2> HIDE DEF page
  <2>10. page # {} => new # {}
      BY DEF page
  <2>11. got \in SUBSET Pulled /\ OnePerKey(got)
      BY <1>4, <2>6, <2>7, <2>9, <2>10 DEF OnePerKey
  <2> HIDE DEF m
  <2> QED
      BY <2>5, <2>6, <2>11
<1>8. ASSUME ~again
      PROVE  /\ m.base.wird \in Wird /\ Lawful(start, m.base.wird)
             /\ \A g \in got : g.key = WirdKey => LawfulRec(start, g.rec)
             /\ account.gen <= 1 /\ account.recs[WirdKey].live =>
                  /\ mo.base = m.base /\ Lead(m.base.wird, dt.wird)
                  /\ \A g \in got : g.key = WirdKey => Between(g.rec, m.base.wird)
  <2>1. /\ m \in Meta /\ m.base = s.meta.base
        /\ \A g \in got : g \in s.got \/ g.rec = account.recs[g.key]
      BY <1>7, <1>8
  <2> HIDE DEF m, got
  <2>2. account.recs[WirdKey].body \in Wird /\ Lawful(start, account.recs[WirdKey].body)
      BY <1>2, <1>5, AccountTyped, KeyFacts DEF LawfulRec
  <2>3. AtLeast(account.recs[WirdKey].body, account.recs[WirdKey].body)
      BY <2>2, CoversSelf
  <2> QED
      BY <1>3, <1>4, <1>5, <2>1, <2>3, MetaTyped DEF KeepsUp, Between, Lead
<1>9. CASE ~again /\ ~last
  <2> DEFINE sn == [s EXCEPT !.meta = m, !.got = got]
  <2>1. /\ m \in Meta /\ m.base = s.meta.base /\ got \in SUBSET Pulled
        /\ \A g \in got : g.key = WirdKey => LawfulRec(start, g.rec)
        /\ account.gen <= 1 /\ account.recs[WirdKey].live =>
             /\ mo.base = m.base /\ Lead(m.base.wird, dt.wird)
             /\ \A g \in got : g.key = WirdKey => Between(g.rec, m.base.wird)
      BY <1>7, <1>8, <1>9
  <2>2. data' = [data EXCEPT ![d] = dt] /\ sync' = [sync EXCEPT ![d] = sn]
      BY <1>3, <1>9
  <2> HIDE DEF m, got
  <2>3. sn \in Sync /\ sn.st = "pulling" /\ sn.meta = m /\ sn.got = got /\ sn.todo = {}
        /\ sn.answer = s.answer
      BY <1>3, <1>4, <2>1 DEF Sync
  <2> HIDE DEF sn
  <2>4. LawfulDevice(start, dt, mo, sn) /\ Queue(dt, sn)
      BY <1>2, <1>5, <2>1, <2>3 DEF LawfulDevice, Queue
  <2>5. account.gen <= 1 => KeepsUp(dt, mo, sn) /\ \A c \in sn.todo : Carries(c)
      BY <2>1, <2>3 DEF KeepsUp
  <2> QED
      BY <1>1, <1>2, <1>3, <2>2, <2>3, <2>4, <2>5, ProgressSync
<1>10. CASE ~again /\ last
  <2> DEFINE sn == [s EXCEPT !.st = "saving", !.meta = next.meta, !.got = {}]
             n == next.data.wird
             b == next.meta.base
  <2>1. /\ m \in Meta /\ m.base = s.meta.base /\ got \in SUBSET Pulled /\ OnePerKey(got)
        /\ m.base.wird \in Wird /\ Lawful(start, m.base.wird)
        /\ \A g \in got : g.key = WirdKey => LawfulRec(start, g.rec)
        /\ account.gen <= 1 /\ account.recs[WirdKey].live =>
             /\ mo.base = m.base /\ Lead(m.base.wird, dt.wird)
             /\ \A g \in got : g.key = WirdKey => Between(g.rec, m.base.wird)
      BY <1>7, <1>8, <1>10
  <2>2. data' = [data EXCEPT ![d] = next.data] /\ sync' = [sync EXCEPT ![d] = sn]
      BY <1>3, <1>10
  <2>3. next = AppliedDownload(m, dt, got)
      BY <1>1
  <2> HIDE DEF m, got, next
  <2>4. next.data \in Data /\ next.meta \in Meta
      BY <1>2, <2>1, <2>3, DownloadFacts, AppliedShape
  <2>5. Outcome(dt.wird, m, got, n, b)
      BY <1>2, <2>1, <2>3, DownloadOutcome
  <2>6. /\ Lawful(start, n) /\ Lawful(start, b.wird)
        /\ dt.wird # m.base.wird => KeepsProgress(dt.wird, n)
        /\ Lead(m.base.wird, dt.wird)
           /\ (\A g \in got : g.key = WirdKey => Between(g.rec, m.base.wird))
             => Lead(b.wird, n) /\ Lead(m.base.wird, n)
    <3> HIDE DEF n, b
    <3> QED
        BY <1>2, <1>5, <2>1, <2>5, OutcomeFollows
  <2>7. sn \in Sync /\ sn.st = "saving" /\ sn.meta = next.meta /\ sn.todo = {}
        /\ sn.got = {} /\ sn.answer = s.answer
      BY <1>4, <2>4 DEF Sync
  <2> HIDE DEF sn
  <2>8. LawfulDevice(start, next.data, mo, sn) /\ Queue(next.data, sn)
      BY <1>5, <2>6, <2>7 DEF LawfulDevice, Queue
  <2>9. account.gen <= 1 => KeepsUp(next.data, mo, sn) /\ \A c \in sn.todo : Carries(c)
      BY <2>1, <2>6, <2>7 DEF KeepsUp
  <2>10. data[d].wird \notin {meta[d].base.wird, sync[d].meta.base.wird}
             => KeepsProgress(data[d].wird, next.data.wird)
    <3>1. s.meta = mo \/ s.meta = sync[d].meta
        BY <1>1, <1>2, NoneTyped DEF s, Sync
    <3> QED
        BY <1>1, <2>1, <2>6, <3>1
  <2> QED
      BY <1>1, <1>2, <1>3, <2>2, <2>4, <2>7, <2>8, <2>9, <2>10, ProgressSync
<1> QED
    BY <1>3, <1>6, <1>9, <1>10

-----------------------------------------------------------------------------
(* An upload that the account takes moves its wird on. *)
WirdGrows ==
    LET r == account.recs[WirdKey]
        q == account'.recs[WirdKey] IN
    \/ q = r
    \/ q.rev > r.rev /\ ~Deleted(r) /\ (r.live /\ q.live => AtLeast(q.body, r.body))

LEMMA WirdPushed ==
    ASSUME Typed, AccountOK, NEW start \in [Cycles -> Nat],
           LawfulRec(start, account.recs[WirdKey]), NEW c \in ReadingChange, ChangeOK(c),
           LawfulPut(start, c), account.gen <= 1 => Carries(c), account' = Pushed(c)
    PROVE  /\ LawfulRec(start, account'.recs[WirdKey])
           /\ account.gen <= 1 =>
                WirdGrows /\ KeepsProgress(account.recs[WirdKey].body, account'.recs[WirdKey].body)
<1> DEFINE r == account.recs[WirdKey]
           q == account'.recs[WirdKey]
<1>1. /\ r.rev \in Nat /\ r.live \in BOOLEAN /\ r.body \in Wird /\ c.body \in Wird
      /\ Lawful(start, r.body) /\ (~r.live => r.body = NoWird)
    BY AccountTyped, KeyFacts DEF LawfulRec, ReadingChange, Body, AccountOK
<1>2. CASE ~Writes(c) \/ c.key # WirdKey
  <2>1. q = r
      BY <1>2, PushedShape, KeyFacts
  <2>2. KeepsProgress(r.body, r.body)
      BY <1>1, CoversSelf
  <2> QED
      BY <2>1, <2>2 DEF WirdGrows
<1>3. CASE Writes(c) /\ c.key = WirdKey
  <2>1. q = [rev |-> r.rev + 1, chg |-> account.seq + 1, live |-> ~c.del, body |-> c.body]
        /\ ~Deleted(r)
      BY <1>3, PushedShape
  <2>2. q.rev = r.rev + 1 /\ q.live = ~c.del /\ q.body = c.body /\ q.rev > r.rev
      BY <1>1, <2>1
  <2> HIDE DEF q
  <2>3. CASE c.del
    <3>1. q.body = NoWird /\ ~q.live
        BY <2>2, <2>3 DEF ChangeOK
    <3>2. KeepsProgress(r.body, NoWird)
        BY <1>1, NoWirdFacts DEF KeepsProgress, Lawful
    <3> QED
        BY <2>1, <2>2, <3>1, <3>2 DEF WirdGrows, LawfulRec, Lawful, q
  <2>4. CASE ~c.del
    <3>1. Puts(c) /\ Lawful(start, c.body) /\ c.body # NoWird
        BY <1>3, <2>4 DEF Puts, LawfulPut
    <3>2. r.live => c.base = r.rev
        BY <1>3, <2>4 DEF Writes, Status, Refuses
    <3>3. account.gen <= 1 /\ r.live => AtLeast(c.body, r.body) /\ KeepsProgress(r.body, c.body)
        BY <3>1, <3>2 DEF Carries, Covers
    <3>4. ~r.live => KeepsProgress(r.body, c.body)
        BY <1>1, NoWirdFacts DEF KeepsProgress
    <3> QED
        BY <2>1, <2>2, <3>1, <3>3, <3>4 DEF WirdGrows, LawfulRec, q
  <2> QED
      BY <2>3, <2>4
<1> QED
    BY <1>2, <1>3

LEMMA UploadsStill ==
    ASSUME Typed, Typed', WirdGrows, NEW c \in ReadingChange, Carries(c)
    PROVE  Carries(c)'
<1>1. account.recs[WirdKey].rev \in Nat /\ account'.recs[WirdKey].rev \in Nat /\ c.base \in Nat
    BY AccountTyped, KeyFacts DEF Typed, AccountRecord, ReadingChange
<1> QED
    BY <1>1 DEF Carries, WirdGrows

LEMMA FollowsStill ==
    ASSUME Typed, Typed', AccountOK, account.gen <= 1, WirdGrows,
           NEW dt \in Data, NEW m \in Meta, NEW s \in Sync, DeviceOK(dt, m, s),
           KeepsUp(dt, m, s)
    PROVE  KeepsUp(dt, m, s)'
<1> DEFINE r == account.recs[WirdKey]
           q == account'.recs[WirdKey]
<1>1. /\ r.rev \in Nat /\ r.chg \in Nat /\ r.live \in BOOLEAN /\ r.body \in Wird
      /\ q.body \in Wird /\ dt.wird \in Wird /\ m.base.wird \in Wird /\ s.meta.base.wird \in Wird
      /\ s.meta \in Meta /\ s.answer.rec.body \in Wird
      /\ \A g \in s.got : g.rec.body \in Wird
      /\ account.gen \in Nat
    BY AccountTyped, KeyFacts, MetaTyped
    DEF Typed, AccountRecord, Body, Data, Sync, Answer, Pulled
<1>2. CASE q = r
    BY <1>2 DEF KeepsUp, Lead, Between
<1>3. CASE q # r /\ r.live /\ q.live
  <2>1. AtLeast(q.body, r.body)
      BY <1>3 DEF WirdGrows
  <2>2. ASSUME NEW x \in Wird, NEW w \in Wird, Lead(x, w)
        PROVE  Lead(x, w)'
    <3>1. AtLeast(r.body, x) /\ (AtLeast(x, r.body) => Covers(w, x))
        BY <2>2 DEF Lead
    <3>2. AtLeast(q.body, x)
        BY <1>1, <2>1, <3>1, AtLeastTrans
    <3>3. AtLeast(x, q.body) => AtLeast(x, r.body)
        BY <1>1, <2>1, AtLeastTrans
    <3> QED
        BY <3>1, <3>2, <3>3 DEF Lead
  <2>3. ASSUME NEW e, e.rec.body \in Wird, NEW x, Between(e.rec, x)
        PROVE  Between(e.rec, x)'
    <3>1. e.rec.live => AtLeast(q.body, e.rec.body)
        BY <1>1, <2>1, <2>3, AtLeastTrans DEF Between
    <3> QED
        BY <2>3, <3>1 DEF Between
  <2> QED
      BY <1>1, <1>3, <2>2, <2>3 DEF KeepsUp
<1>4. CASE q # r /\ ~r.live
  <2>1. r.rev = 0 /\ r = Absent
      BY <1>1, <1>4, KeyFacts DEF WirdGrows, Deleted, AccountOK
  <2>2. ASSUME NEW k \in Meta, Knows(k)
        PROVE  k.base = NoBase /\ (k.gen = account.gen \/ k.gen = 0)
    <3>1. k.gen \in Nat /\ k.gen <= account.gen
        BY <2>2, MetaTyped DEF Knows
    <3>2. k.gen = account.gen \/ k.gen = 0
        BY <1>1, <3>1
    <3>3. k.gen = 0 => k.base = NoBase
        BY <2>2, NoneTyped DEF Knows
    <3>4. k.gen = account.gen => k.base = NoBase
        BY <2>1, <2>2 DEF Knows
    <3> QED
        BY <3>2, <3>3, <3>4
  <2>3. m.base = NoBase /\ s.meta.base = NoBase /\ (s.meta.gen = account.gen \/ s.meta.gen = 0)
      BY <1>1, <2>2 DEF DeviceOK, SyncOK
  <2>4. Lead(NoWird, dt.wird)'
      BY <1>1, CoversNone DEF Lead
  <2>5. ASSUME s.st = "pulling", NEW g \in s.got, g.key = WirdKey
        PROVE  ~g.rec.live
    <3>1. GotOK(s.meta, s.got)
        BY <2>5 DEF DeviceOK, SyncOK
    <3>2. s.meta.gen = account.gen
        BY <2>3, <2>5, <3>1 DEF GotOK
    <3>3. s.meta.since \in Nat
        BY <1>1, MetaTyped
    <3>4. g = Current(WirdKey) \/ r.chg > s.meta.since
        BY <2>5, <3>1, <3>2 DEF GotOK
    <3> QED
        BY <2>1, <3>3, <3>4, NoneTyped DEF Current
  <2>6. ASSUME s.st = "answered", s.answer.key = WirdKey
        PROVE  ~s.answer.rec.live
    <3>1. AnswerOK(s.answer, s.meta)
        BY <2>6 DEF DeviceOK, SyncOK
    <3>2. s.answer.gen = account.gen /\ s.meta.gen \in {0, s.answer.gen}
        BY <1>1, <2>3, <3>1 DEF AnswerOK
    <3>3. s.meta.since \in Nat
        BY <1>1, MetaTyped
    <3>4. s.answer.rec = r \/ r.chg > s.meta.since
        BY <2>6, <3>1, <3>2 DEF AnswerOK
    <3> QED
        BY <2>1, <3>3, <3>4, NoneTyped
  <2> QED
      BY <2>3, <2>4, <2>5, <2>6, NoneTyped DEF KeepsUp, Between
<1>5. CASE q # r /\ ~q.live
    BY <1>5 DEF KeepsUp
<1> QED
    BY <1>1, <1>2, <1>3, <1>4, <1>5

(* One upload: nothing changes on the devices but, where it was sent, the sync. *)
LEMMA PushedProgress ==
    ASSUME ReadingInv, ReadingInv', NEW start \in [Cycles -> Nat], LawfulAll(start), Sends,
           NEW c \in ReadingChange, ChangeOK(c), LawfulPut(start, c),
           account.gen <= 1 => Carries(c), account' = Pushed(c),
           data' = data, meta' = meta, opened' = opened, strayPush' \subseteq strayPush,
           \A d \in ReadingDevices : \A x, m, s : x = data[d] /\ m = meta[d] /\ s = sync'[d] =>
              \/ s = sync[d]
              \/ /\ LawfulDevice(start, x, m, s) /\ Queue(x, s) /\ s.todo \subseteq sync[d].todo
                 /\ account.gen <= 1 => KeepsUp(x, m, s)'
    PROVE  ProgressInv' /\ Kept
<1>1. /\ Typed /\ Typed' /\ AccountOK /\ account.gen \in Nat /\ account'.gen \in Nat
      /\ LawfulRec(start, account.recs[WirdKey]) /\ Grows
    BY PushedOK DEF ReadingInv, LawfulAll, Typed
<1>2. /\ LawfulRec(start, account'.recs[WirdKey])
      /\ account'.gen <= 1 => /\ account.gen <= 1 /\ WirdGrows
                              /\ KeepsProgress(account.recs[WirdKey].body,
                                               account'.recs[WirdKey].body)
    BY <1>1, WirdPushed DEF Grows
<1>3. \A w : Lawful(start, w) <=> Lawful(start, w)'
    BY DEF Lawful
<1>4. ASSUME NEW d \in ReadingDevices, NEW x, NEW m, NEW s,
             x = data'[d], m = meta'[d], s = sync'[d]
      PROVE  /\ LawfulDevice(start, x, m, s)' /\ Queue(x, s)'
             /\ account'.gen <= 1 => KeepsUp(x, m, s)' /\ \A e \in s.todo : Carries(e)'
  <2>1. /\ LawfulDevice(start, x, m, sync[d]) /\ Queue(x, sync[d])
        /\ account.gen <= 1 => KeepsUp(x, m, sync[d]) /\ \A e \in sync[d].todo : Carries(e)
        /\ x \in Data /\ m \in Meta /\ sync[d] \in Sync /\ sync[d].todo \in SUBSET ReadingChange
        /\ DeviceOK(x, m, sync[d])
      BY <1>4, DeviceFacts DEF Sync
  <2>2. LawfulDevice(start, x, m, s) /\ Queue(x, s) /\ s.todo \subseteq sync[d].todo
      BY <1>4, <2>1
  <2>3. LawfulDevice(start, x, m, s)'
      BY <1>3, <2>2 DEF LawfulDevice, LawfulRec, LawfulPut
  <2>4. Queue(x, s)'
      BY <2>2 DEF Queue
  <2>5. account'.gen <= 1 => \A e \in s.todo : Carries(e)'
      BY <1>1, <1>2, <2>1, <2>2, UploadsStill
  <2>6. account'.gen <= 1 => KeepsUp(x, m, s)'
    <3>1. CASE s = sync[d]
      <4>1. account'.gen <= 1 => KeepsUp(x, m, s)
          BY <1>2, <2>1, <3>1
      <4> QED
          BY <1>1, <1>2, <2>1, <3>1, <4>1, FollowsStill
    <3>2. CASE s # sync[d]
        BY <1>2, <1>4, <3>2
    <3> QED
        BY <3>1, <3>2
  <2> QED
      BY <2>3, <2>4, <2>5, <2>6
<1>5. ASSUME NEW e \in strayPush'
      PROVE  LawfulPut(start, e)' /\ (account'.gen <= 1 => Carries(e)')
  <2>1. e \in ReadingChange /\ LawfulPut(start, e) /\ (account.gen <= 1 => Carries(e))
      BY <1>1 DEF Typed, LawfulAll, Sends
  <2> QED
      BY <1>1, <1>2, <1>3, <2>1, UploadsStill DEF LawfulPut
<1>6. LawfulAll(start)'
  <2>1. Openings(start)' /\ LawfulRec(start, account.recs[WirdKey])'
      BY <1>2, <1>3 DEF Openings, LawfulAll, LawfulRec
  <2> QED
      BY <1>4, <1>5, <2>1 DEF LawfulAll
<1>7. Sends'
    BY <1>4, <1>5 DEF Sends
<1>8. Kept
    BY <1>2, DeviceFacts DEF Kept
<1> QED
    BY <1>6, <1>7, <1>8 DEF ProgressInv

LEMMA StrayProgress ==
    ASSUME ReadingInv, ReadingInv', NEW start \in [Cycles -> Nat], LawfulAll(start), Sends,
           DeliverStray
    PROVE  ProgressInv' /\ Kept
<1>1. PICK c \in strayPush : account' = Pushed(c) /\ strayPush' = strayPush \ {c}
                             /\ UNCHANGED <<data, meta, sync, opened>>
    BY DEF DeliverStray
<1>2. c \in ReadingChange /\ ChangeOK(c) /\ LawfulPut(start, c)
      /\ (account.gen <= 1 => Carries(c))
    BY DEF ReadingInv, Typed, LawfulAll, Sends
<1> QED
    BY <1>1, <1>2, PushedProgress

LEMMA PushProgress ==
    ASSUME ReadingInv, ReadingInv', NEW start \in [Cycles -> Nat], LawfulAll(start), Sends,
           NEW d \in ReadingDevices, PushChange(d)
    PROVE  ProgressInv' /\ Kept
<1>1. PICK x \in Data, m \in Meta, s \in Sync : x = data[d] /\ m = meta[d] /\ s = sync[d]
    BY DeviceFacts
<1>2. PICK c \in FirstOf(s.todo) :
          /\ s.st = "ready" /\ account' = Pushed(c)
          /\ sync' = [sync EXCEPT ![d] = [s EXCEPT !.st = "answered", !.todo = @ \ {c},
                                                   !.answer = AnswerTo(c)]]
          /\ UNCHANGED <<data, meta, strayPush, opened>>
    BY <1>1 DEF PushChange, ReaderUntouched
<1>3. /\ Typed /\ AccountOK /\ LawfulDevice(start, x, m, s) /\ Queue(x, s)
      /\ account.gen <= 1 => KeepsUp(x, m, s) /\ \A e \in s.todo : Carries(e)
      /\ s.todo \in SUBSET ReadingChange /\ \A e \in s.todo : ChangeOK(e)
      /\ s.meta = m
    BY <1>1, <1>2, DeviceFacts DEF ReadingInv, DeviceOK, SyncOK, Sync
<1>4. c \in s.todo /\ c \in ReadingChange /\ ChangeOK(c) /\ LawfulPut(start, c)
      /\ (account.gen <= 1 => Carries(c))
    BY <1>3 DEF FirstOf, LawfulDevice
<1>5. PICK a \in Answer :
          /\ a = AnswerTo(c) /\ a.sent = c /\ a.rec = account'.recs[a.key]
      /\ (a.key = WirdKey => c.key = WirdKey)
  <2>1. Holder(c.key) \subseteq KhatmaKeys
      BY DEF Holder
  <2> QED
      BY <1>2, <1>3, <1>4, <2>1, AnswerShape, KeyFacts
<1> DEFINE sn == [s EXCEPT !.st = "answered", !.todo = @ \ {c}, !.answer = a]
<1>6. sync' = [sync EXCEPT ![d] = sn]
    BY <1>2, <1>5
<1>7. sn.st = "answered" /\ sn.meta = s.meta /\ sn.todo = s.todo \ {c} /\ sn.got = s.got
      /\ sn.answer = a
    BY <1>5 DEF Sync
<1> HIDE DEF sn
<1>8. LawfulRec(start, account'.recs[WirdKey])
      /\ (account.gen <= 1 => WirdGrows)
    BY <1>2, <1>3, <1>4, WirdPushed DEF LawfulAll
<1>9. LawfulDevice(start, x, m, sn)
    BY <1>3, <1>4, <1>5, <1>7, <1>8 DEF LawfulDevice
<1>10. Queue(x, sn)
  <2>1. c.key = WirdKey => \A e \in s.todo \ {c} : ~Puts(e)
    <3> SUFFICES ASSUME c.key = WirdKey, NEW e \in s.todo, e # c, Puts(e) PROVE FALSE
        OBVIOUS
    <3>1. c.del /\ c.del = TRUE
        BY <1>3, <1>4 DEF Queue, Puts, ReadingChange
    <3>2. Rank(c) = 1 /\ Rank(e) = 0
        BY <3>1 DEF Rank, Puts
    <3> QED
        BY <3>2 DEF FirstOf
  <2> QED
      BY <1>3, <1>4, <1>5, <1>7, <2>1 DEF Queue
<1>11. ASSUME account.gen <= 1, account'.gen <= 1
       PROVE  KeepsUp(x, m, sn)'
  <2>0. Typed' /\ DeviceOK(x, m, s)
      BY <1>1 DEF ReadingInv
  <2>1. KeepsUp(x, m, s)'
      BY <1>3, <1>8, <1>11, <2>0, FollowsStill
  <2>2. account'.recs[WirdKey].live => AtLeast(account'.recs[WirdKey].body, m.base.wird)
      BY <2>1 DEF KeepsUp, Lead
  <2>3. AtLeast(account'.recs[WirdKey].body, account'.recs[WirdKey].body)
    <3>1. account'.recs[WirdKey].body \in Wird
        BY <2>0, KeyFacts DEF Typed, AccountRecord, Body
    <3> QED
        BY <3>1, WirdFacts DEF AtLeast
  <2>4. a.key = WirdKey /\ account'.recs[WirdKey].live => Between(a.rec, m.base.wird)'
      BY <1>5, <2>2, <2>3 DEF Between
  <2> QED
      BY <1>3, <1>7, <2>1, <2>4 DEF KeepsUp
<1>12. account'.gen <= 1 <=> account.gen <= 1
    BY <1>2, <1>3, AccountTyped DEF Pushed
<1>13. ASSUME NEW e \in ReadingDevices, NEW y, NEW n, NEW z,
              y = data[e], n = meta[e], z = sync'[e]
       PROVE  \/ z = sync[e]
              \/ /\ LawfulDevice(start, y, n, z) /\ Queue(y, z) /\ z.todo \subseteq sync[e].todo
                 /\ account.gen <= 1 => KeepsUp(y, n, z)'
  <2>1. CASE e # d
      BY <1>3, <1>6, <1>13, <2>1 DEF Typed
  <2>2. CASE e = d
    <3>1. y = x /\ n = m /\ z = sn
        BY <1>1, <1>3, <1>6, <1>13, <2>2 DEF Typed
    <3> QED
        BY <1>1, <1>7, <1>9, <1>10, <1>11, <1>12, <2>2, <3>1
  <2> QED
      BY <2>1, <2>2
<1> QED
    BY <1>2, <1>4, <1>13, PushedProgress

LEMMA ReplaceProgress ==
    ASSUME ReadingInv, NEW start \in [Cycles -> Nat], LawfulAll(start), Sends, ReplaceRecords
    PROVE  ProgressInv' /\ Kept
<1>1. /\ account'.gen = account.gen + 1 /\ account.gen # 0
      /\ UNCHANGED <<data, meta, sync, strayPush, opened>>
      /\ account'.recs[WirdKey] \in {account.recs[WirdKey], Absent}
    BY KeyFacts DEF ReplaceRecords, ReadingFault
<1>2. ~(account'.gen <= 1)
    BY <1>1, AccountTyped DEF ReadingInv
<1>3. account'.recs[WirdKey] = Absent \/ account'.recs[WirdKey] = account.recs[WirdKey]
    BY <1>1
<1>4. \A w : Lawful(start, w) <=> Lawful(start, w)'
    BY <1>1 DEF Lawful
<1>5. LawfulRec(start, account.recs[WirdKey])'
    BY <1>3, <1>4, NoneTyped DEF LawfulAll, LawfulRec, Lawful
<1>6. ASSUME NEW d \in ReadingDevices, NEW x, NEW m, NEW s,
             x = data'[d], m = meta'[d], s = sync'[d]
      PROVE  LawfulDevice(start, x, m, s)' /\ Queue(x, s)'
  <2>1. LawfulDevice(start, x, m, s) /\ Queue(x, s)
      BY <1>1, <1>6 DEF LawfulAll, Sends
  <2> QED
      BY <1>4, <2>1 DEF LawfulDevice, LawfulRec, LawfulPut, Queue
<1>7. LawfulAll(start)'
    BY <1>1, <1>4, <1>5, <1>6 DEF LawfulAll, LawfulPut, Openings
<1>8. Sends'
    BY <1>2, <1>6 DEF Sends
<1>9. Kept
    BY <1>1, <1>2, DeviceFacts DEF Kept
<1> QED
    BY <1>7, <1>8, <1>9 DEF ProgressInv

LEMMA IdleProgress ==
    ASSUME ReadingInv, ProgressInv, UNCHANGED readingVars
    PROVE  ProgressInv'
<1>1. PICK start \in [Cycles -> Nat] : LawfulAll(start)
    BY DEF ProgressInv
<1>2. UNCHANGED <<account, data, meta, sync, strayPush, opened>>
    BY DEF readingVars
<1>3. \A w : Lawful(start, w) <=> Lawful(start, w)'
    BY <1>2 DEF Lawful
<1>4. \A x, m, s, c : /\ LawfulDevice(start, x, m, s) => LawfulDevice(start, x, m, s)'
                      /\ Queue(x, s) => Queue(x, s)'
                      /\ KeepsUp(x, m, s) => KeepsUp(x, m, s)'
                      /\ Carries(c) => Carries(c)'
                      /\ LawfulPut(start, c) => LawfulPut(start, c)'
    BY <1>2, <1>3 DEF LawfulDevice, LawfulRec, LawfulPut, Queue, KeepsUp, Lead, Between, Carries
<1>5. ASSUME NEW d \in ReadingDevices, NEW x, NEW m, NEW s,
             x = data'[d], m = meta'[d], s = sync'[d]
      PROVE  /\ LawfulDevice(start, x, m, s)' /\ Queue(x, s)'
             /\ account'.gen <= 1 => KeepsUp(x, m, s)' /\ \A c \in s.todo : Carries(c)'
  <2>1. /\ LawfulDevice(start, x, m, s) /\ Queue(x, s)
        /\ account.gen <= 1 => KeepsUp(x, m, s) /\ \A c \in s.todo : Carries(c)
      BY <1>1, <1>2, <1>5 DEF LawfulAll, ProgressInv, Sends
  <2> QED
      BY <1>2, <1>4, <2>1
<1>6. ASSUME NEW c \in strayPush'
      PROVE  LawfulPut(start, c)' /\ (account'.gen <= 1 => Carries(c)')
    BY <1>1, <1>2, <1>4 DEF LawfulAll, ProgressInv, Sends
<1>7. Openings(start)' /\ LawfulRec(start, account.recs[WirdKey])'
    BY <1>1, <1>2, <1>3 DEF LawfulAll, Openings, LawfulRec
<1>8. LawfulAll(start)'
    BY <1>5, <1>6, <1>7 DEF LawfulAll
<1>9. Sends'
    BY <1>5, <1>6 DEF Sends
<1> QED
    BY <1>8, <1>9 DEF ProgressInv

(* The initial states. *)
LEMMA QuietProgress ==
    ASSUME Typed, NEW start \in [Cycles -> Nat], Openings(start),
           LawfulRec(start, account.recs[WirdKey]), strayPush = {},
           \A d \in ReadingDevices :
              /\ sync[d] = NotSyncing /\ Lawful(start, data[d].wird)
              /\ Lawful(start, meta[d].base.wird)
              /\ account.recs[WirdKey].live => Lead(meta[d].base.wird, data[d].wird)
    PROVE  ProgressInv
<1>1. NotSyncing.answer = NoAnswer /\ NotSyncing.meta.base.wird = NoWird
    BY NoneTyped DEF NotSyncing
<1>2. ASSUME NEW d \in ReadingDevices
      PROVE  /\ LawfulDevice(start, data[d], meta[d], sync[d]) /\ Queue(data[d], sync[d])
             /\ KeepsUp(data[d], meta[d], sync[d]) /\ sync[d].todo = {}
  <2>1. data[d] \in Data /\ meta[d] \in Meta /\ data[d].wird \in Wird
      BY DEF Typed, Data
  <2>2. LawfulDevice(start, data[d], meta[d], NotSyncing) /\ Queue(data[d], NotSyncing)
      BY <1>1, <2>1, NoneTyped, NoneLawful
  <2>3. KeepsUp(data[d], meta[d], NotSyncing)
      BY <1>1, <2>1, NoneTyped, NoneLead DEF KeepsUp
  <2> QED
      BY <2>2, <2>3, NoneTyped
<1> QED
    BY <1>2 DEF ProgressInv, LawfulAll, Sends

LEMMA ProgressInitially ==
    ASSUME ReadingInit
    PROVE  ProgressInv
<1>1. Typed /\ AccountOK
    BY ReadingInitially DEF ReadingInv
<1>2. strayPush = {} /\ \A d \in ReadingDevices : sync[d] = NotSyncing
    BY DEF ReadingInit
<1>3. 0 \in Cycles /\ Cycles \subseteq Nat /\ WirdKey \in Keys
    BY ReadingAssumption, KeyFacts
<1>4. First.cyc = 0 /\ First.seq = 0 /\ First.undone = NoCycle
    BY NoneTyped, NoWirdFacts DEF First, Wird
<1>5. NoKhatma # NotBegun /\ NoKhatma \notin KhatmaKeys /\ NotBegun \notin KhatmaKeys
    BY NotBegunFacts
<1>6. CASE InitCreated
  <2> DEFINE start == [c \in Cycles |-> 0]
  <2>1. start \in [Cycles -> Nat] /\ start[0] = 0
      BY <1>3
  <2>2. opened = [c \in Cycles |-> IF c = 0 THEN NoKhatma ELSE NotBegun]
      BY <1>6 DEF InitCreated
  <2> HIDE DEF start
  <2>3. Openings(start)
      BY <1>5, <2>2 DEF Openings
  <2>4. Lawful(start, First) /\ Lawful(start, NoWird)
      BY <1>3, <1>4, <1>5, <2>1, <2>2 DEF Lawful
  <2>5. account.recs[WirdKey] = Absent
      BY <1>3, <1>6 DEF InitCreated, NoRecords
  <2>6. \A d \in ReadingDevices : data[d].wird \in {First, NoWird} /\ meta[d] = EmptyMeta
      BY <1>6 DEF InitCreated, Holding
  <2> QED
      BY <1>1, <1>2, <2>1, <2>3, <2>4, <2>5, <2>6, NoneTyped, QuietProgress DEF LawfulRec
<1>7. CASE InitSynced
  <2>1. PICK k \in {NoKhatma} \cup {j \in KhatmaKeys : j = <<0, 1>> /\ 1 \in Cycles} :
          LET first == k = NoKhatma
              w == IF first THEN First
                   ELSE [NoWird EXCEPT !.cyc = 1, !.seq = 1, !.at = 1]
              of(body, n) == [rev |-> 1, chg |-> n, live |-> TRUE, body |-> body] IN
          /\ account = [gen |-> 1, seq |-> IF first THEN 1 ELSE 2,
                        recs |-> [j \in Keys |->
                                    IF j = WirdKey THEN of(w, 1)
                                    ELSE IF j = k THEN of(KhatmaContent(1), 2)
                                    ELSE Absent]]
          /\ data = [d \in ReadingDevices |-> Holding(w, k)]
          /\ meta = [d \in ReadingDevices |->
                     [gen |-> 1, since |-> account.seq, base |-> [rev |-> 1, wird |-> w],
                      known |-> {k} \ {NoKhatma}, acked |-> {}]]
          /\ opened = [c \in Cycles |-> IF c = 0 THEN NoKhatma
                                        ELSE IF c = 1 /\ ~first THEN k ELSE NotBegun]
      BY <1>7 DEF InitSynced
  <2> DEFINE first == k = NoKhatma
             w == IF first THEN First ELSE [NoWird EXCEPT !.cyc = 1, !.seq = 1, !.at = 1]
             start == [c \in Cycles |-> IF c = 1 THEN 1 ELSE 0]
  <2>2. start \in [Cycles -> Nat] /\ start[0] = 0 /\ (1 \in Cycles => start[1] = 1)
      BY <1>3
  <2>3. opened = [c \in Cycles |-> IF c = 0 THEN NoKhatma
                                   ELSE IF c = 1 /\ ~first THEN k ELSE NotBegun]
      BY <2>1
  <2>4. /\ account.recs[WirdKey] = [rev |-> 1, chg |-> 1, live |-> TRUE, body |-> w]
        /\ \A d \in ReadingDevices : data[d].wird = w /\ meta[d].base.wird = w
      BY <1>3, <2>1 DEF Holding
  <2>5. ~first => 1 \in Cycles /\ k = <<0, 1>> /\ k \in KhatmaKeys
      OBVIOUS
  <2>6. first => w = First
      OBVIOUS
  <2>7. ~first => w.cyc = 1 /\ w.seq = 1 /\ w.undone = NoCycle
      BY NoneTyped, NoWirdFacts DEF Wird
  <2>8. w \in Wird
      BY <1>1, <1>3, <2>4 DEF Typed, AccountRecord, Body
  <2> HIDE DEF start, w, first
  <2>9. Openings(start)
      BY <1>3, <1>5, <2>2, <2>3, <2>5 DEF Openings
  <2>10. Lawful(start, w)
      BY <1>3, <1>4, <1>5, <2>2, <2>3, <2>5, <2>6, <2>7 DEF Lawful
  <2>11. w # NoWird
      BY <1>4, <2>6, <2>7, NoWirdFacts, <1>3
  <2>12. account.recs[WirdKey].body = w
      BY <2>4
  <2>13. Lead(w, w)
      BY <2>2, <2>8, <2>10, <2>12, CoversSelf DEF Lead
  <2> QED
      BY <1>1, <1>2, <2>2, <2>4, <2>9, <2>10, <2>11, <2>12, <2>13, QuietProgress DEF LawfulRec
<1> QED
    BY <1>6, <1>7 DEF ReadingInit

(* "The progress is kept" (docs/auth-and-sync/reading-sync.md): however devices *)
(* merge and upload, no undo of a cycle takes the place of a page saved in it   *)
(* (mergePosition, decideReadingChange, applyResults).                          *)
THEOREM UndoneKeeps == ReadingSpec => UndoKeepsProgress
<1>1. ReadingInit => ProgressInv
    BY ProgressInitially
<1>2. ASSUME ReadingInv, ReadingInv', ProgressInv, ReadingNext
      PROVE  ProgressInv' /\ Kept
  <2>1. PICK start \in [Cycles -> Nat] : LawfulAll(start) /\ Sends
      BY <1>2 DEF ProgressInv
  <2>2. ASSUME NEW d \in ReadingDevices,
               Reader(d) \/ SyncStep(d) \/ Abandon(d) \/ LoseMeta(d) \/ LoseStops(d)
        PROVE  ProgressInv' /\ Kept
      BY <1>2, <2>1, <2>2, ReaderProgress, PullProgress, SaveProgress, PushProgress,
         ReceiveProgress, AbandonProgress, LoseProgress DEF SyncStep
  <2> QED
      BY <1>2, <2>1, <2>2, StrayProgress, ReplaceProgress DEF ReadingNext
<1>3. ReadingInv /\ ReadingInv' /\ ProgressInv /\ [ReadingNext]_readingVars => ProgressInv'
    BY <1>2, IdleProgress
<1>4. ReadingInv /\ ReadingInv' /\ ProgressInv /\ [ReadingNext]_readingVars
        => [/\ account'.gen <= 1 => KeepsProgress(account.recs[WirdKey].body,
                                                  account'.recs[WirdKey].body)
            /\ \A d \in ReadingDevices :
                 data[d].wird \notin {meta[d].base.wird, sync[d].meta.base.wird}
                   => KeepsProgress(data[d].wird, data'[d].wird)]_readingVars
    BY <1>2 DEF Kept
<1> QED
    BY <1>1, <1>3, <1>4, ReadingInvariant, PTL DEF ReadingSpec, UndoKeepsProgress
-----------------------------------------------------------------------------
(* What an answer still to be applied tells: a Khatma has its instant, and the one a *)
(* duplicate was refused for is another of the cycle, live, whose deletion the       *)
(* device had not heard of. It depends on the sync alone, so only an upload can      *)
(* make it false.                                                                    *)
Tells(s) ==
    s.st = "answered" =>
        LET a == s.answer IN
        /\ a.key # WirdKey /\ a.rec.live => a.rec.body.at # 0
        /\ a.status = "duplicate" =>
              /\ a.rec.live /\ a.key \in KhatmaKeys
              /\ a.key # a.sent.key /\ a.key[1] = a.sent.key[1]
              /\ s.meta.gen \in {0, a.gen} => a.key \notin s.meta.acked

AnswersTell == \A d \in ReadingDevices : Tells(sync[d])

LEMMA AnswerTells ==
    ASSUME Typed, AccountOK, NEW c \in ReadingChange, ChangeOK(c), account' = Pushed(c),
           NEW m \in Meta, Knows(m), NEW s, s.meta = m, s.answer = AnswerTo(c)
    PROVE  Tells(s)
<1> DEFINE a == AnswerTo(c)
<1>0. AccountOK' /\ a \in Answer /\ a.gen = account'.gen /\ a.sent = c /\ a.status = Status(c)
      /\ a.rec = account'.recs[a.key]
      /\ account'.gen = (IF account.gen = 0 THEN 1 ELSE account.gen)
      /\ account.gen \in Nat /\ m.gen \in Nat
    BY PushedOK, AnswerShape, PushedShape, AccountTyped, MetaTyped
<1>1. Status(c) = "duplicate" => a.key \in Holder(c.key)
    BY AnswerShape
<1> HIDE DEF a
<1>2. a.key # WirdKey /\ a.rec.live => a.rec.body.at # 0
    BY <1>0 DEF AccountOK, Answer
<1>3. ASSUME a.status = "duplicate"
      PROVE  /\ a.rec.live /\ a.key \in KhatmaKeys
             /\ a.key # c.key /\ a.key[1] = c.key[1]
             /\ m.gen \in {0, a.gen} => a.key \notin m.acked
  <2>1. a.key \in KhatmaKeys /\ a.key # c.key /\ a.key[1] = c.key[1]
        /\ account.recs[a.key].live
      BY <1>0, <1>1, <1>3 DEF Holder
  <2>2. account'.recs[a.key] = account.recs[a.key]
      BY <2>1, KeyFacts, PushedShape
  <2>3. account.gen # 0
      BY <2>1, KeyFacts, AccountTyped DEF AccountOK
  <2>4. m.gen \in {0, a.gen} => a.key \notin m.acked
    <3>1. m.gen = 0 => m.acked = {}
        BY NoneTyped DEF Knows
    <3>2. m.gen = account.gen => a.key \notin m.acked
        BY <2>1 DEF Knows, Deleted
    <3> QED
        BY <1>0, <2>3, <3>1, <3>2
  <2> QED
      BY <1>0, <2>1, <2>2, <2>4
<1> QED
    BY <1>0, <1>2, <1>3 DEF Tells, a

LEMMA TellsStill ==
    ASSUME ReadingInv, AnswersTell, [ReadingNext]_readingVars
    PROVE  AnswersTell'
<1>0. sync \in [ReadingDevices -> Sync] /\ Typed /\ AccountOK
    BY DEF ReadingInv, Typed
<1>1. ASSUME NEW e \in ReadingDevices, NEW s, sync' = [sync EXCEPT ![e] = s],
             s.st = "answered" => Tells(s)
      PROVE  AnswersTell'
  <2>1. Tells(s)
      BY <1>1 DEF Tells
  <2>2. \A d \in ReadingDevices : \A x : x = sync'[d] => Tells(x)
      BY <1>0, <1>1, <2>1 DEF AnswersTell
  <2> QED
      BY <2>2 DEF AnswersTell, Tells
<1>2. ASSUME sync' = sync PROVE AnswersTell'
    BY <1>2 DEF AnswersTell, Tells
<1>3. ASSUME NEW e \in ReadingDevices, PullPage(e)
      PROVE  AnswersTell'
  <2>1. PICK s, mt, got, st :
            /\ s.st = "pulling" /\ (s = sync[e] \/ s \in Sync) /\ st \in {"pulling", "saving"}
            /\ sync' = [sync EXCEPT ![e] = [s EXCEPT !.st = st, !.meta = mt, !.got = got]]
    <3> DEFINE s == IF sync[e].st = "idle"
                    THEN [NotSyncing EXCEPT !.st = "pulling", !.meta = meta[e]] ELSE sync[e]
    <3>1. meta[e] \in Meta /\ sync[e] \in Sync
        BY <1>0 DEF Typed
    <3>2. s \in Sync
        BY <3>1, NoneTyped DEF Sync
    <3>3. s.st = "pulling"
        BY <1>3 DEF PullPage
    <3> DEFINE new == Newer(s.meta.since)
               first == CHOOSE k \in new : \A j \in new :
                            account.recs[k].chg <= account.recs[j].chg
               page == IF new = {} THEN {}
                       ELSE {[key |-> first, rec |-> account.recs[first]]}
               g == {x \in s.got : new = {} \/ x.key # first} \cup page
               m == [s.meta EXCEPT !.gen = IF account.gen = 0 THEN @ ELSE account.gen,
                                   !.since = IF new = {} THEN @ ELSE NextSince(first)]
               mn == AppliedDownload(m, data[e], g).meta
               ma == [EmptyMeta EXCEPT !.gen = account.gen]
               To(st, mt, got) == [s EXCEPT !.st = st, !.meta = mt, !.got = got]
    <3>4. \A mt, got : [s EXCEPT !.meta = mt, !.got = got] = To("pulling", mt, got)
        BY <3>2, <3>3 DEF Sync
    <3>5. \/ sync' = [sync EXCEPT ![e] = [s EXCEPT !.meta = ma, !.got = {}]]
          \/ sync' = [sync EXCEPT ![e] = [s EXCEPT !.meta = m, !.got = g]]
          \/ sync' = [sync EXCEPT ![e] = To("saving", mn, {})]
        BY <1>3 DEF PullPage
    <3>6. \E mt, got : \E st \in {"pulling", "saving"} : sync' = [sync EXCEPT ![e] = To(st, mt, got)]
      <4> HIDE DEF s, m, g, mn, ma, To
      <4>1. \/ sync' = [sync EXCEPT ![e] = To("pulling", ma, {})]
            \/ sync' = [sync EXCEPT ![e] = To("pulling", m, g)]
            \/ sync' = [sync EXCEPT ![e] = To("saving", mn, {})]
          BY <3>4, <3>5
      <4> QED
          BY <4>1
    <3> HIDE DEF s
    <3> QED
        BY <3>2, <3>3, <3>6
  <2>2. [s EXCEPT !.st = st, !.meta = mt, !.got = got].st # "answered"
      BY <1>0, <2>1 DEF Sync
  <2> QED
      BY <1>1, <2>1, <2>2
<1>4. ASSUME NEW e \in ReadingDevices, SaveMeta(e)
      PROVE  AnswersTell'
  <2>1. PICK s : /\ sync' = [sync EXCEPT ![e] = s]
                 /\ s = NotSyncing \/ \E t : s = [sync[e] EXCEPT !.st = "ready", !.todo = t]
      BY <1>4 DEF SaveMeta
  <2>2. s.st # "answered"
      BY <1>0, <2>1, NoneTyped DEF Sync
  <2> QED
      BY <1>1, <2>1, <2>2
<1>5. ASSUME NEW e \in ReadingDevices, PushChange(e)
      PROVE  AnswersTell'
  <2>1. PICK c \in FirstOf(sync[e].todo) :
            /\ account' = Pushed(c)
            /\ sync' = [sync EXCEPT ![e] = [sync[e] EXCEPT !.st = "answered",
                                  !.todo = @ \ {c}, !.answer = AnswerTo(c)]]
      BY <1>5 DEF PushChange
  <2>2. sync[e] \in Sync /\ SyncOK(data[e], meta[e], sync[e])
      BY <1>0 DEF ReadingInv, DeviceOK
  <2>3. c \in ReadingChange /\ ChangeOK(c) /\ sync[e].meta \in Meta /\ Knows(sync[e].meta)
      BY <2>2 DEF FirstOf, Sync, SyncOK
  <2> DEFINE s == [sync[e] EXCEPT !.st = "answered", !.todo = @ \ {c}, !.answer = AnswerTo(c)]
  <2>4. s.meta = sync[e].meta /\ s.answer = AnswerTo(c)
      BY <2>2 DEF Sync
  <2> HIDE DEF s
  <2>5. Tells(s)
      BY <1>0, <2>1, <2>3, <2>4, AnswerTells
  <2> QED
      BY <1>1, <2>1, <2>5 DEF s
<1>6. ASSUME NEW e \in ReadingDevices, ReceiveResult(e)
      PROVE  AnswersTell'
  <2>1. PICK s : /\ sync' = [sync EXCEPT ![e] = s]
                 /\ \/ s = [NotSyncing EXCEPT !.st = "pulling"]
                    \/ \E mt : s = [sync[e] EXCEPT !.st = "saving", !.meta = mt,
                                                   !.answer = NoAnswer]
      BY <1>6 DEF ReceiveResult
  <2>2. s.st # "answered"
      BY <1>0, <2>1, NoneTyped DEF Sync
  <2> QED
      BY <1>1, <2>1, <2>2
<1>7. ASSUME NEW e \in ReadingDevices, Abandon(e)
      PROVE  AnswersTell'
    BY <1>1, <1>7, NoneTyped DEF Abandon
<1>8. ASSUME NEW e \in ReadingDevices, Reader(e) \/ LoseMeta(e) \/ LoseStops(e)
      PROVE  AnswersTell'
    BY <1>2, <1>8 DEF Reader, SaveWirdPage, ConfirmKhatma, RemoveKhatma, DeleteWird, Edit,
                      LoseMeta, LoseStops
<1>9. CASE DeliverStray \/ ReplaceRecords
    BY <1>2, <1>9 DEF DeliverStray, ReplaceRecords
<1>10. CASE UNCHANGED readingVars
    BY <1>2, <1>10 DEF readingVars
<1> QED
    BY <1>3, <1>4, <1>5, <1>6, <1>7, <1>8, <1>9, <1>10 DEF ReadingNext, SyncStep

(* A Khatma that a device with the data dn need not have. *)
RightlyGone(dn, k) ==
    \/ k \in dn.deleted
    \/ \E j \in KhatmaKeys : j[1] = k[1] /\ dn.khatmas[j] # 0

(* The account's records take one away only with its deletion or for another. *)
LEMMA AppliedDrops ==
    ASSUME NEW m \in Meta, NEW dt \in Data, NEW got \in SUBSET Pulled, OnePerKey(got),
           \A g \in got : g.key # WirdKey /\ g.rec.live => g.rec.body.at # 0
    PROVE  LET dn == Applied(m, dt, got).data IN
           /\ \A k \in KhatmaKeys : dt.khatmas[k] # 0 /\ dn.khatmas[k] = 0 => RightlyGone(dn, k)
           /\ \A k \in Live(got) \ dt.deleted : dn.khatmas[k] # 0
<1> DEFINE dn == Applied(m, dt, got).data
<1>0. /\ dn.deleted = dt.deleted \cup Gone(got)
      /\ \A k \in KhatmaKeys : dn.khatmas[k] = AppliedKhatma(m, dt, got, k)
    BY AppliedShape
<1> HIDE DEF dn
<1>1. ASSUME NEW k \in Live(got) \ dt.deleted
      PROVE  k \in KhatmaKeys /\ dn.khatmas[k] # 0
  <2>1. k \in KhatmaKeys /\ k \in Keys /\ k # WirdKey /\ RecOf(got, k).live
      BY <1>1, KeyFacts DEF Live
  <2>2. k \notin Gone(got)
      BY <2>1, RecOfFacts
  <2>3. \E g \in got : g.key = k
      BY <2>1, RecOfFacts, NoneTyped
  <2>4. RecOf(got, k).body.at # 0
      BY <2>1, <2>3, RecOfFacts
  <2> QED
      BY <1>0, <2>1, <2>2, <2>4 DEF AppliedKhatma
<1>2. ASSUME NEW k \in KhatmaKeys, dt.khatmas[k] # 0, dn.khatmas[k] = 0
      PROVE  RightlyGone(dn, k)
  <2>1. CASE k \in Gone(got)
      BY <1>0, <2>1 DEF RightlyGone
  <2>2. CASE k \notin Gone(got)
    <3>1. \E j \in Live(got) \ dt.deleted : j[1] = k[1]
        BY <1>0, <1>1, <1>2, <2>2 DEF AppliedKhatma
    <3> QED
        BY <1>1, <3>1 DEF RightlyGone
  <2> QED
      BY <2>1, <2>2
<1> QED
    BY <1>1, <1>2 DEF dn

(* What the account's page and an answer take away. *)
Drops(d, dn) ==
    \A k \in KhatmaKeys : data[d].khatmas[k] # 0 /\ dn.khatmas[k] = 0 =>
        \/ RightlyGone(dn, k)
        \/ \E j \in data[d].deleted \ meta[d].acked : j # k /\ j[1] = k[1]

LEMMA PullDrops ==
    ASSUME ReadingInv, NEW d \in ReadingDevices, PullPage(d)
    PROVE  \E dn : data' = [data EXCEPT ![d] = dn] /\ Drops(d, dn)
<1> DEFINE s == IF sync[d].st = "idle"
                THEN [NotSyncing EXCEPT !.st = "pulling", !.meta = meta[d]] ELSE sync[d]
           new == Newer(s.meta.since)
           first == CHOOSE k \in new : \A j \in new :
                        account.recs[k].chg <= account.recs[j].chg
           last == \A k \in new : k = first
           page == IF new = {} THEN {} ELSE {[key |-> first, rec |-> account.recs[first]]}
           got == {g \in s.got : new = {} \/ g.key # first} \cup page
           m == [s.meta EXCEPT !.gen = IF account.gen = 0 THEN @ ELSE account.gen,
                               !.since = IF new = {} THEN @ ELSE NextSince(first)]
           next == AppliedDownload(m, data[d], got)
           again == account.gen # 0 /\ s.meta.gen \notin {0, account.gen}
<1>1. /\ data[d] \in Data /\ meta[d] \in Meta /\ sync[d] \in Sync /\ Typed /\ AccountOK
      /\ DeviceOK(data[d], meta[d], sync[d]) /\ MarksOK(data[d])
    BY DEF ReadingInv, Typed, DeviceOK
<1>2. /\ s.st = "pulling"
      /\ \/ data' = data
         \/ ~again /\ last /\ data' = [data EXCEPT ![d] = next.data]
    BY DEF PullPage
<1>3. /\ s.meta \in Meta /\ s.got \in SUBSET Pulled
      /\ Knows(s.meta) /\ GotOK(s.meta, s.got)
  <2>1. CASE sync[d].st = "idle"
    <3>1. s.meta = meta[d] /\ s.got = {}
        BY <1>1, <2>1, NoneTyped DEF Sync
    <3> HIDE DEF s
    <3> QED
        BY <1>1, <3>1 DEF DeviceOK, GotOK
  <2>2. CASE sync[d].st # "idle"
    <3>1. s = sync[d]
        BY <2>2
    <3> HIDE DEF s
    <3> QED
        BY <1>1, <1>2, <3>1 DEF DeviceOK, SyncOK, Sync
  <2> QED
      BY <2>1, <2>2
<1> HIDE DEF s
<1>4. CASE data' = data
  <2>1. data' = [data EXCEPT ![d] = data[d]]
      BY <1>1, <1>4 DEF Typed
  <2> QED
      BY <2>1 DEF Drops
<1>5. CASE ~again /\ last /\ data' = [data EXCEPT ![d] = next.data]
  <2>1. /\ account.gen \in Nat /\ s.meta.gen \in Nat /\ s.meta.since \in Nat
        /\ \A k \in Keys : account.recs[k].chg \in Nat /\ account.recs[k] \in AccountRecord
      BY <1>1, <1>3, AccountTyped, MetaTyped
  <2>2. new \in SUBSET Keys /\ \A k \in Keys : k \in new <=> account.recs[k].chg > s.meta.since
      BY DEF Newer
  <2> HIDE DEF new
  <2>3. new # {} => first \in new
      BY <1>1, <2>2, FirstNew
  <2>4. \A k \in new : k = first
      BY <1>5
  <2> HIDE DEF first
  <2>5. (IF account.gen = 0 THEN s.meta.gen ELSE account.gen) \in Nat
        /\ (IF new = {} THEN s.meta.since ELSE account.recs[first].chg) \in Nat
      BY <2>1, <2>2, <2>3
  <2>6. m \in Meta
      BY <1>3, <2>5 DEF NextSince, Meta
  <2>7. page \in SUBSET Pulled /\ \A g \in page : g.key = first /\ g.rec = account.recs[first]
      BY <2>1, <2>2, <2>3 DEF Pulled
  <2>8. \A g, h \in page : g = h
      OBVIOUS
  <2>9. s.meta.gen = account.gen \/ s.got = {}
      BY <1>3, <1>5, <2>1 DEF GotOK, Knows
  <2>10. \A g, h \in s.got : g.key = h.key => g = h
      BY <1>3, <2>9 DEF GotOK
  <2>11. page # {} <=> new # {}
      OBVIOUS
  <2> HIDE DEF page, m
  <2>12. got \in SUBSET Pulled /\ OnePerKey(got)
      BY <1>3, <2>7, <2>8, <2>10, <2>11 DEF OnePerKey
  <2>13. \A g \in got : g.rec = account.recs[g.key] /\ g.key \in Keys
    <3>1. ASSUME NEW g \in s.got, new = {} \/ g.key # first
          PROVE  g.rec = account.recs[g.key]
      <4>1. g \in Pulled /\ g.key \in Keys /\ g.key \notin new
          BY <1>3, <2>4, <3>1 DEF Pulled
      <4>2. ~(account.recs[g.key].chg > s.meta.since)
          BY <2>2, <4>1
      <4>3. g = Current(g.key)
          BY <1>3, <2>9, <4>2 DEF GotOK
      <4> QED
          BY <4>3 DEF Current
    <3> QED
        BY <1>3, <2>7, <3>1 DEF Pulled
  <2> HIDE DEF got
  <2>14. \A g \in got : g.key # WirdKey /\ g.rec.live => g.rec.body.at # 0
      BY <1>1, <2>13 DEF AccountOK
  <2> DEFINE ap == Applied(m, data[d], got).data
             dn == next.data
  <2>15. dn.khatmas = ap.khatmas /\ dn.deleted = ap.deleted
      BY <1>1, <2>6, <2>12, DownloadFacts
  <2>16. \A k \in KhatmaKeys :
            data[d].khatmas[k] # 0 /\ ap.khatmas[k] = 0 => RightlyGone(ap, k)
      BY <1>1, <2>6, <2>12, <2>14, AppliedDrops
  <2> HIDE DEF ap, next
  <2>17. Drops(d, dn)
      BY <2>15, <2>16 DEF Drops, RightlyGone
  <2> QED
      BY <1>5, <2>17
<1> QED
    BY <1>2, <1>4, <1>5

LEMMA ReceiveDrops ==
    ASSUME ReadingInv, AnswersTell, NEW d \in ReadingDevices, ReceiveResult(d)
    PROVE  \E dn : data' = [data EXCEPT ![d] = dn] /\ Drops(d, dn)
<1> DEFINE s == sync[d]
           a == s.answer
           dt == data[d]
           fresh == [s.meta EXCEPT !.gen = a.gen]
           dropped == IF a.status = "duplicate" THEN [dt EXCEPT !.khatmas[a.sent.key] = 0]
                      ELSE dt
           got == {[key |-> a.key, rec |-> a.rec]}
           dn == Applied(fresh, dropped, got).data
           restart == s.meta.gen # 0 /\ a.gen # s.meta.gen
<1>1. /\ dt \in Data /\ meta[d] \in Meta /\ s \in Sync /\ s.meta \in Meta /\ a \in Answer
      /\ Typed /\ AccountOK /\ DeviceOK(dt, meta[d], s) /\ Tells(s)
    BY DEF ReadingInv, Typed, Sync, AnswersTell
<1>2. s.st = "answered" /\ meta[d] = s.meta /\ AnswerOK(a, s.meta)
    BY <1>1 DEF ReceiveResult, DeviceOK, SyncOK
<1>3. \/ data' = data
      \/ ~restart /\ data' = [data EXCEPT ![d] = dt]
      \/ ~restart /\ data' = [data EXCEPT ![d] = dn]
    BY DEF ReceiveResult, ResultApplied
<1>4. CASE data' = data \/ data' = [data EXCEPT ![d] = dt]
  <2>1. data' = [data EXCEPT ![d] = data[d]]
      BY <1>1, <1>4 DEF Typed
  <2> QED
      BY <2>1 DEF Drops
<1>5. CASE ~restart /\ data' = [data EXCEPT ![d] = dn]
  <2>1. a.key \in Keys /\ a.rec \in AccountRecord /\ a.gen \in Nat /\ a.sent \in ReadingChange
        /\ a.sent.key \in Keys /\ s.meta.gen \in {0, a.gen}
      BY <1>1, <1>5 DEF Answer, ReadingChange
  <2>2. /\ a.key # WirdKey /\ a.rec.live => a.rec.body.at # 0
        /\ a.status = "duplicate" =>
              /\ a.rec.live /\ a.key \in KhatmaKeys
              /\ a.key # a.sent.key /\ a.key[1] = a.sent.key[1]
              /\ a.key \notin meta[d].acked
      BY <1>1, <1>2, <2>1 DEF Tells
  <2>3. fresh \in Meta
      BY <1>1, <2>1 DEF Meta
  <2>4. /\ dropped \in Data /\ dropped.deleted = dt.deleted
        /\ \A k \in KhatmaKeys : dropped.khatmas[k] =
              IF a.status = "duplicate" /\ k = a.sent.key THEN 0 ELSE dt.khatmas[k]
    <3>1. dt = [wird |-> dt.wird, khatmas |-> dt.khatmas, deleted |-> dt.deleted]
          /\ dt.khatmas \in [KhatmaKeys -> Nat]
        BY <1>1 DEF Data
    <3> QED
        BY <1>1, <3>1 DEF Data
  <2>5. got \in SUBSET Pulled /\ OnePerKey(got)
        /\ \A g \in got : g.key = a.key /\ g.rec = a.rec
      BY <2>1 DEF Pulled, OnePerKey
  <2>6. a.status = "duplicate" => a.key \in Live(got)
    <3>1. [key |-> a.key, rec |-> a.rec] \in got
        OBVIOUS
    <3> HIDE DEF got
    <3>2. RecOf(got, a.key) = a.rec
        BY <2>1, <2>5, <3>1, RecOfFacts
    <3> QED
        BY <2>2, <3>2 DEF Live
  <2> HIDE DEF fresh, dropped, got
  <2>7. /\ \A k \in KhatmaKeys : dropped.khatmas[k] # 0 /\ dn.khatmas[k] = 0
              => RightlyGone(dn, k)
        /\ \A k \in Live(got) \ dropped.deleted : dn.khatmas[k] # 0
      BY <2>2, <2>3, <2>4, <2>5, AppliedDrops
  <2> HIDE DEF dn
  <2>8. ASSUME NEW k \in KhatmaKeys, dt.khatmas[k] # 0, dn.khatmas[k] = 0
        PROVE  \/ RightlyGone(dn, k)
               \/ \E j \in dt.deleted \ meta[d].acked : j # k /\ j[1] = k[1]
    <3>1. CASE a.status = "duplicate" /\ k = a.sent.key
      <4>1. CASE a.key \in dt.deleted
          BY <2>2, <3>1, <4>1
      <4>2. CASE a.key \notin dt.deleted
          BY <2>2, <2>4, <2>6, <2>7, <3>1, <4>2 DEF RightlyGone
      <4> QED
          BY <4>1, <4>2
    <3>2. CASE ~(a.status = "duplicate" /\ k = a.sent.key)
        BY <2>4, <2>7, <2>8, <3>2 DEF RightlyGone
    <3> QED
        BY <3>1, <3>2
  <2>9. Drops(d, dn)
      BY <2>8 DEF Drops
  <2> QED
      BY <1>5, <2>9
<1> QED
    BY <1>3, <1>4, <1>5

LEMMA ReaderDrops ==
    ASSUME ReadingInv, NEW d \in ReadingDevices, Reader(d)
    PROVE  \E dn : data' = [data EXCEPT ![d] = dn] /\ Drops(d, dn)
<1>0. /\ data[d] = [wird |-> data[d].wird, khatmas |-> data[d].khatmas,
                    deleted |-> data[d].deleted]
      /\ data[d].khatmas \in [KhatmaKeys -> Nat]
    BY DEF ReadingInv, Typed, Data
<1>1. ASSUME NEW dn, Edit(d, dn),
             \A k \in KhatmaKeys : data[d].khatmas[k] # 0 /\ dn.khatmas[k] = 0
                                       => k \in dn.deleted
      PROVE  \E x : data' = [data EXCEPT ![d] = x] /\ Drops(d, x)
    BY <1>1 DEF Edit, Drops, RightlyGone
<1>2. ASSUME NEW p \in Page, NEW t \in Instants, SaveWirdPage(d, p, t)
      PROVE  \E dn : data' = [data EXCEPT ![d] = dn] /\ Drops(d, dn)
  <2>1. PICK w : Edit(d, [data[d] EXCEPT !.wird = w])
      BY <1>2 DEF SaveWirdPage
  <2>2. [data[d] EXCEPT !.wird = w].khatmas = data[d].khatmas
      BY <1>0
  <2> QED
      BY <1>1, <2>1, <2>2
<1>3. ASSUME NEW c \in Cycles, NEW t \in Instants, ConfirmKhatma(d, c, t)
      PROVE  \E dn : data' = [data EXCEPT ![d] = dn] /\ Drops(d, dn)
  <2>1. \E k \in KhatmaKeys : \E w : Edit(d, [data[d] EXCEPT !.khatmas[k] = t, !.wird = w])
      BY <1>3 DEF ConfirmKhatma
  <2>2. PICK k \in KhatmaKeys : \E w : Edit(d, [data[d] EXCEPT !.khatmas[k] = t, !.wird = w])
      BY <2>1
  <2>3. PICK w : Edit(d, [data[d] EXCEPT !.khatmas[k] = t, !.wird = w])
      BY <2>2
  <2> DEFINE dn == [data[d] EXCEPT !.khatmas[k] = t, !.wird = w]
  <2>4. dn.khatmas = [data[d].khatmas EXCEPT ![k] = t]
      BY <1>0
  <2>5. t # 0
      BY ReadingAssumption
  <2>6. \A j \in KhatmaKeys : data[d].khatmas[j] # 0 => dn.khatmas[j] # 0
      BY <1>0, <2>4, <2>5
  <2> QED
      BY <1>1, <2>3, <2>6
<1>4. ASSUME NEW k \in KhatmaKeys, RemoveKhatma(d, k)
      PROVE  \E dn : data' = [data EXCEPT ![d] = dn] /\ Drops(d, dn)
  <2>1. PICK w : Edit(d, [data[d] EXCEPT !.khatmas[k] = 0, !.deleted = @ \cup {k}, !.wird = w])
      BY <1>4 DEF RemoveKhatma
  <2> DEFINE dn == [data[d] EXCEPT !.khatmas[k] = 0, !.deleted = @ \cup {k}, !.wird = w]
  <2>2. dn.khatmas = [data[d].khatmas EXCEPT ![k] = 0] /\ dn.deleted = data[d].deleted \cup {k}
      BY <1>0
  <2> QED
      BY <1>0, <1>1, <2>1, <2>2
<1>5. CASE DeleteWird(d)
  <2>1. PICK x : Edit(d, [data[d] EXCEPT !.wird = NoWird, !.deleted = x])
      BY <1>5 DEF DeleteWird
  <2>2. [data[d] EXCEPT !.wird = NoWird, !.deleted = x].khatmas = data[d].khatmas
      BY <1>0
  <2> QED
      BY <1>1, <2>1, <2>2
<1> QED
    BY <1>2, <1>3, <1>4, <1>5 DEF Reader

(* A confirmed Khatma leaves a device because it was removed there or on the account, *)
(* for another Khatma of its cycle, or while the deletion of another one of its cycle *)
(* that the account has not had from this device waits there: the one case in which   *)
(* applyResults of a "duplicate" drops it and applyContent puts nothing in its place, *)
(* and so exactly how far DroppedOnlyForAnother fails.                                *)
THEOREM KhatmaDropped == ReadingSpec => DroppedBeforeADeletion
<1> DEFINE DropStep ==
        \A d \in ReadingDevices, k \in KhatmaKeys :
          data[d].khatmas[k] # 0 /\ data'[d].khatmas[k] = 0 =>
             \/ k \in data'[d].deleted
             \/ \E j \in KhatmaKeys : j[1] = k[1] /\ data'[d].khatmas[j] # 0
             \/ \E j \in data[d].deleted \ meta[d].acked : j # k /\ j[1] = k[1]
<1>1. ASSUME ReadingInv, AnswersTell, [ReadingNext]_readingVars
      PROVE  [DropStep]_readingVars
  <2> SUFFICES ASSUME ReadingNext PROVE DropStep
      BY <1>1
  <2>0. data \in [ReadingDevices -> Data]
      BY <1>1 DEF ReadingInv, Typed
  <2>1. ASSUME NEW d \in ReadingDevices, \E dn : data' = [data EXCEPT ![d] = dn] /\ Drops(d, dn)
        PROVE  DropStep
      BY <2>0, <2>1 DEF Drops, RightlyGone
  <2>2. ASSUME data' = data PROVE DropStep
      BY <2>2
  <2>3. ASSUME NEW d \in ReadingDevices, Reader(d) \/ SyncStep(d)
        PROVE  DropStep
    <3>1. CASE SaveMeta(d) \/ PushChange(d)
        BY <2>2, <3>1 DEF SaveMeta, PushChange
    <3> HIDE DEF DropStep
    <3> QED
        BY <1>1, <2>1, <2>3, <3>1, PullDrops, ReceiveDrops, ReaderDrops DEF SyncStep
  <2>4. ASSUME NEW d \in ReadingDevices, LoseStops(d)
        PROVE  DropStep
    <3>1. [data[d] EXCEPT !.wird = NoWird].khatmas = data[d].khatmas
        BY <2>0 DEF Data
    <3>2. Drops(d, [data[d] EXCEPT !.wird = NoWird])
        BY <3>1 DEF Drops
    <3>3. data' = [data EXCEPT ![d] = [data[d] EXCEPT !.wird = NoWird]]
        BY <2>0, <2>4 DEF LoseStops
    <3> QED
        BY <2>1, <3>2, <3>3
  <2>5. ASSUME NEW d \in ReadingDevices, Abandon(d) \/ LoseMeta(d)
        PROVE  DropStep
      BY <2>2, <2>5 DEF Abandon, LoseMeta
  <2>6. CASE DeliverStray \/ ReplaceRecords
      BY <2>2, <2>6 DEF DeliverStray, ReplaceRecords
  <2> QED
      BY <2>3, <2>4, <2>5, <2>6 DEF ReadingNext
<1>2. ReadingInit => AnswersTell
    BY NoneTyped DEF ReadingInit, AnswersTell, Tells
<1>3. ReadingSpec => []AnswersTell
    BY <1>2, TellsStill, ReadingInvariant, PTL DEF ReadingSpec
<1> QED
    BY <1>1, <1>3, ReadingInvariant, PTL DEF ReadingSpec, DroppedBeforeADeletion
================================================================================

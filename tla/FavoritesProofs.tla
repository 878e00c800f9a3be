--------------------------- MODULE FavoritesProofs ---------------------------
(***************************************************************************)
(* What holds of FavoritesSync for any number of devices, syncs and pushes *)
(* in progress, and for every bound.                                       *)
(***************************************************************************)
EXTENDS FavoritesSync, TLAPS

-----------------------------------------------------------------------------
(* The order of entries                                                    *)

(* No entry beats itself. *)
LEMMA NotBeatsSelf == ASSUME NEW e \in Entry PROVE ~Beats(e, e)
BY DEF Beats, Entry, NoEntry

(* An entry that does not beat the second does not beat a third the second *)
(* does not beat.                                                          *)
LEMMA NotBeatsTrans ==
    ASSUME NEW e \in Entry, NEW f \in Entry, NEW g \in Entry,
           ~Beats(e, f), ~Beats(f, g)
    PROVE  ~Beats(e, g)
BY DEF Beats, Entry, NoEntry

(* What beats an entry is not beaten by it. *)
LEMMA BeatsNotBeaten ==
    ASSUME NEW e \in Entry, NEW f \in Entry, Beats(e, f)
    PROVE  ~Beats(f, e)
BY DEF Beats, Entry, NoEntry

-----------------------------------------------------------------------------
(* Types                                                                   *)

LEMMA IdleType == Idle \in Task
BY FavoritesAssumption DEF Idle, Task, Entry

LEMMA ChangeType ==
    ASSUME TypeOK, NEW d \in Devices, NEW k \in {"active", "tombstone"}
    PROVE  Change(d, k) \in Entry
BY FavoritesAssumption DEF TypeOK, Change, Clock, Entry

LEMMA OppositeType == \A e : Opposite(e) \in {"active", "tombstone"}
BY DEF Opposite

LEMMA AcceptType ==
    ASSUME TypeOK, NEW e \in Entry
    PROVE  Accept(e) \in Entry
<1>1. CASE e = NoEntry
  BY <1>1, FavoritesAssumption DEF TypeOK, Accept, NoEntry, Entry
<1>2. CASE e \in [kind : {"active", "tombstone"}, ts : Nat, made : Nat]
  BY <1>2 DEF TypeOK, Accept, Entry
<1> QED BY <1>1, <1>2 DEF Entry

LEMMA MergedType ==
    ASSUME TypeOK, NEW e \in Entry
    PROVE  Merged(e) \in Entry
BY AcceptType DEF Merged, TypeOK

LEMMA ReplaceType ==
    ASSUME TypeOK, NEW d \in Devices, NEW x, NEW e \in Entry
    PROVE  Replace(d, x, e) \in [Devices -> Entry]
BY DEF Replace, TypeOK

LEMMA TaskType ==
    ASSUME TypeOK, NEW t \in Tasks,
           NEW st \in {"asking", "asked", "putting", "stored", "asking2", "asked2"},
           NEW op \in {"sync", "push"}, NEW d \in Devices,
           NEW e \in Entry, NEW f \in Entry
    PROVE  [task EXCEPT ![t] = [st |-> st, op |-> op, dev |-> d,
                                mine |-> e, cloud |-> f]] \in [Tasks -> Task]
<1> DEFINE r == [st |-> st, op |-> op, dev |-> d, mine |-> e, cloud |-> f]
<1>1. r \in Task
  BY DEF Task
<1> HIDE DEF r
<1>2. [task EXCEPT ![t] = r] \in [Tasks -> Task]
  BY <1>1 DEF TypeOK
<1> QED BY <1>2 DEF r

(* What a step of a task does to the tasks, and to their types. *)
LEMMA EndType == ASSUME TypeOK, NEW t \in Tasks, End(t) PROVE task' \in [Tasks -> Task]
BY IdleType DEF End, TypeOK

LEMMA BecomeType ==
    ASSUME TypeOK, NEW t \in Tasks,
           NEW st \in {"asking", "asked", "putting", "stored", "asking2", "asked2"},
           Become(t, st)
    PROVE  task' \in [Tasks -> Task]
<1>1. task[t] \in Task
  BY DEF TypeOK
<1>2. [task[t] EXCEPT !.st = st] \in Task
  BY <1>1 DEF Task
<1> QED BY <1>2 DEF Become, TypeOK

LEMMA AnswerType ==
    ASSUME TypeOK, NEW t \in Tasks,
           NEW st \in {"asked", "stored", "asked2"}, NEW e \in Entry
    PROVE  [task EXCEPT ![t].st = st, ![t].cloud = e] \in [Tasks -> Task]
<1>1. task[t] \in Task
  BY DEF TypeOK
<1>2. [task[t] EXCEPT !.st = st, !.cloud = e] \in Task
  BY <1>1 DEF Task
<1> DEFINE r == [task[t] EXCEPT !.st = st, !.cloud = e]
<1>3. [task EXCEPT ![t] = r] \in [Tasks -> Task]
  BY <1>2 DEF TypeOK
<1> QED BY <1>3 DEF TypeOK

LEMMA TaskFields ==
    ASSUME TypeOK, NEW t \in Tasks
    PROVE  /\ task[t].dev \in Devices
           /\ task[t].mine \in Entry
           /\ task[t].cloud \in Entry
           /\ task[t].op \in {"sync", "push"}
           /\ task[t].st \in {"idle", "asking", "asked", "putting", "stored",
                              "asking2", "asked2"}
BY DEF TypeOK, Task

LEMMA LocalUpdateType ==
    ASSUME TypeOK, NEW d \in Devices, NEW e \in Entry
    PROVE  [local EXCEPT ![d] = e] \in [Devices -> Entry]
BY DEF TypeOK

LEMMA GuestUpdateType ==
    ASSUME TypeOK, NEW d \in Devices, NEW e \in Entry
    PROVE  [guest EXCEPT ![d] = e] \in [Devices -> Entry]
BY DEF TypeOK

LEMMA NoEntryType == NoEntry \in Entry
BY DEF Entry

LEMMA InitType == Init => TypeOK
BY IdleType, NoEntryType DEF Init, TypeOK

(* Every step keeps the types. *)
LEMMA TypeStep == TypeOK /\ [Next]_vars => TypeOK'
<1> SUFFICES ASSUME TypeOK, [Next]_vars PROVE TypeOK'
  OBVIOUS
<1>1. ASSUME NEW d \in Devices, ToggleFavorite(d) PROVE TypeOK'
  <2>1. Change(d, Opposite(local[d])) \in Entry
    BY ChangeType, OppositeType
  <2>2. local' \in [Devices -> Entry]
    BY <2>1, <1>1, LocalUpdateType DEF ToggleFavorite
  <2> QED BY <2>2, <1>1 DEF ToggleFavorite, TypeOK
<1>2. ASSUME NEW d \in Devices, ToggleGuestFavorite(d) PROVE TypeOK'
  <2>1. Change(d, Opposite(guest[d])) \in Entry
    BY ChangeType, OppositeType
  <2>2. guest' \in [Devices -> Entry]
    BY <2>1, <1>2, GuestUpdateType DEF ToggleGuestFavorite
  <2> QED BY <2>2, <1>2 DEF ToggleGuestFavorite, TypeOK
<1>3. ASSUME NEW d \in Devices, SwitchOwner(d) PROVE TypeOK'
  BY <1>3 DEF SwitchOwner, TypeOK
<1>4. ASSUME NEW d \in Devices, AdoptGuest(d) PROVE TypeOK'
  <2>1. local' \in [Devices -> Entry]
    BY <1>4 DEF AdoptGuest, TypeOK
  <2>2. guest' \in [Devices -> Entry]
    BY <1>4, NoEntryType DEF AdoptGuest, TypeOK
  <2> QED BY <2>1, <2>2, <1>4 DEF AdoptGuest, TypeOK
<1>5. ASSUME NEW d \in Devices, NEW t \in Tasks, StartSync(d, t) PROVE TypeOK'
  <2>1. local[d] \in Entry
    BY DEF TypeOK
  <2>2. task' \in [Tasks -> Task]
    BY <2>1, <1>5, TaskType, NoEntryType DEF StartSync
  <2> QED BY <2>2, <1>5 DEF StartSync, TypeOK
<1>6. ASSUME NEW d \in Devices, NEW t \in Tasks, StartPush(d, t) PROVE TypeOK'
  <2>1. local[d] \in Entry
    BY DEF TypeOK
  <2>2. task' \in [Tasks -> Task]
    BY <2>1, <1>6, TaskType, NoEntryType DEF StartPush
  <2> QED BY <2>2, <1>6 DEF StartPush, TypeOK
<1>7. ASSUME NEW t \in Tasks, Get(t) PROVE TypeOK'
  <2>1. server \in Entry
    BY DEF TypeOK
  <2>2. PICK st \in {"asked", "asked2"} :
               task' = [task EXCEPT ![t].st = st, ![t].cloud = server]
    BY <1>7 DEF Get
  <2>3. [task EXCEPT ![t].st = st, ![t].cloud = server] \in [Tasks -> Task]
    BY <2>1, AnswerType
  <2> QED BY <2>2, <2>3, <1>7 DEF Get, TypeOK
<1>8. ASSUME NEW t \in Tasks, Put(t) PROVE TypeOK'
  <2>1. server' \in Entry
    BY <1>8, TaskFields, MergedType DEF Put
  <2>2. task' \in [Tasks -> Task]
    BY <2>1, <1>8, AnswerType DEF Put
  <2> QED BY <2>1, <2>2, <1>8 DEF Put, TypeOK
<1>9. ASSUME NEW t \in Tasks, Compare(t) PROVE TypeOK'
  <2>1. task' \in [Tasks -> Task]
    BY <1>9, BecomeType DEF Compare
  <2> QED BY <2>1, <1>9 DEF Compare, TypeOK
<1>10. ASSUME NEW t \in Tasks, AdoptStored(t) PROVE TypeOK'
  <2>1. CASE StoredEarlier(task[t].mine, task[t].cloud)
    <3>1. local' \in [Devices -> Entry]
      BY <2>1, <1>10, TaskFields, ReplaceType DEF AdoptStored
    <3> DEFINE r == [task[t] EXCEPT !.st = "asking2", !.mine = task[t].cloud]
    <3>2. r \in Task
      BY DEF TypeOK, Task
    <3>3. task' = [task EXCEPT ![t] = r]
      BY <2>1, <1>10 DEF AdoptStored, TypeOK
    <3>4. task' \in [Tasks -> Task]
      <4> HIDE DEF r
      <4> QED BY <3>2, <3>3 DEF TypeOK
    <3> QED BY <3>1, <3>4, <1>10 DEF AdoptStored, TypeOK
  <2>2. CASE ~StoredEarlier(task[t].mine, task[t].cloud)
    <3>1. task' \in [Tasks -> Task] /\ local' = local
      BY <2>2, <1>10, BecomeType DEF AdoptStored
    <3> QED BY <3>1, <1>10 DEF AdoptStored, TypeOK
  <2> QED BY <2>1, <2>2
<1>11. ASSUME NEW t \in Tasks, ApplyCloud(t) PROVE TypeOK'
  <2>1. task' \in [Tasks -> Task]
    BY <1>11, EndType DEF ApplyCloud
  <2>2. local' \in [Devices -> Entry]
    <3>1. local \in [Devices -> Entry]
      BY DEF TypeOK
    <3> QED BY <3>1, <1>11, TaskFields, ReplaceType DEF ApplyCloud
  <2> QED BY <2>1, <2>2, <1>11 DEF ApplyCloud, TypeOK
<1>12. ASSUME NEW t \in Tasks, FinishPush(t) PROVE TypeOK'
  <2>1. task' \in [Tasks -> Task]
    BY <1>12, EndType DEF FinishPush
  <2>2. local' \in [Devices -> Entry]
    <3>1. local \in [Devices -> Entry]
      BY DEF TypeOK
    <3> QED BY <3>1, <1>12, TaskFields, ReplaceType DEF FinishPush
  <2> QED BY <2>1, <2>2, <1>12 DEF FinishPush, TypeOK
<1>13. ASSUME NEW t \in Tasks, GiveUp(t) PROVE TypeOK'
  <2>1. task' \in [Tasks -> Task]
    BY <1>13, EndType DEF GiveUp
  <2>2. stray' \subseteq Entry
    BY <1>13, TaskFields DEF GiveUp, TypeOK
  <2> QED BY <2>1, <2>2, <1>13 DEF GiveUp, TypeOK
<1>14. ASSUME NEW e \in stray, PutLate(e) PROVE TypeOK'
  <2>1. e \in Entry
    BY DEF TypeOK
  <2> QED BY <2>1, <1>14, MergedType DEF PutLate, TypeOK
<1>15. CASE OldAdd \/ OldRemove
  <2>1. server' \in Entry
    BY <1>15 DEF OldAdd, OldRemove, Entry, TypeOK
  <2>2. UNCHANGED <<now, local, guest, signedIn, unpushed, task, stray>>
    BY <1>15 DEF OldAdd, OldRemove
  <2> QED BY <2>1, <2>2 DEF TypeOK
<1>16. CASE Tick
  BY <1>16 DEF Tick, TypeOK
<1>17. CASE UNCHANGED vars
  BY <1>17 DEF vars, TypeOK
<1> QED BY <1>1, <1>2, <1>3, <1>4, <1>5, <1>6, <1>7, <1>8, <1>9, <1>10, <1>11,
           <1>12, <1>13, <1>14, <1>15, <1>16, <1>17
        DEF Next, UserStep, TaskStep, ServerStep

(* Records, markers and tasks always have their shape: in particular, an   *)
(* entry is saved, deleted or absent, and nothing else, in every place.    *)
THEOREM FavoritesTyped == Spec => []TypeOK
<1>1. Init => TypeOK
  BY InitType
<1>2. TypeOK /\ [Next]_vars => TypeOK'
  BY TypeStep
<1> QED BY <1>1, <1>2, PTL DEF Spec

-----------------------------------------------------------------------------
(* The invariants behind NothingIsLost and NoResurrection                  *)

(* The assumptions on clocks: no device is further ahead than the server   *)
(* tolerates; the clocks agree.                                            *)
Within == \A d \in Devices : Skew[d] <= Tolerance
ExactClocks == \A d \in Devices : Skew[d] = 0

(* Every entry held, remembered or on its way. *)
Everywhere ==
    {server} \cup {local[d] : d \in Devices} \cup {guest[d] : d \in Devices}
        \cup {task[t].mine : t \in Tasks} \cup {task[t].cloud : t \in Tasks}
        \cup stray

(* No instant is so far ahead that the server would replace it. *)
Near == \A e \in Everywhere : e.ts <= now + Tolerance

(* With agreeing clocks an entry says truly when it was made. *)
Stamped == \A e \in Everywhere : e.ts <= now /\ e.made = e.ts

(* The answer to an upload is not beaten by what was uploaded. *)
Answered ==
    \A t \in Tasks : task[t].st = "stored" => ~Beats(task[t].mine, task[t].cloud)

(* What a task was told of the account is at most what the account holds.  *)
CloudOld == \A t \in Tasks : ~Beats(task[t].cloud, server)

(* A device holds an entry its own clock could give, or one the account    *)
(* has too, or has a newer one of.  A change the user makes therefore      *)
(* either beats the device's entry or replaces one that is not needed.     *)
OwnOrKnown ==
    \A d \in Devices : local[d].ts <= Clock(d) \/ ~Beats(local[d], server)

GuestOwn == \A d \in Devices : guest[d].ts <= Clock(d)

Sound ==
    /\ TypeOK
    /\ Near
    /\ ExactClocks => Stamped
    /\ Answered
    /\ CloudOld
    /\ OwnOrKnown
    /\ GuestOwn

-----------------------------------------------------------------------------
(* Where the entries of the next state come from                           *)

Source(e) ==
    \/ e \in Everywhere
    \/ e = NoEntry
    \/ \E d \in Devices, k \in {"active", "tombstone"} : e = Change(d, k)
    \/ OldVersions /\ \E k \in {"active", "tombstone"} :
                          e = [kind |-> k, ts |-> now, made |-> now]
    \/ \E f \in Everywhere : e = Accept(f)

LEMMA PlacesSourced ==
    /\ Source(server)
    /\ \A d \in Devices : Source(local[d]) /\ Source(guest[d])
    /\ \A t \in Tasks : Source(task[t].mine) /\ Source(task[t].cloud)
    /\ \A e \in stray : Source(e)
BY DEF Source, Everywhere

LEMMA MergedSourced ==
    ASSUME NEW e \in Everywhere
    PROVE  Source(Merged(e))
BY DEF Merged, Source, Everywhere

LEMMA ReplaceSourced ==
    ASSUME TypeOK, NEW d \in Devices, NEW x, NEW e, Source(e), NEW c \in Devices
    PROVE  Source(Replace(d, x, e)[c])
<1>1. CASE local[d].ts = x.ts
  <2>1. Replace(d, x, e)[c] = IF c = d THEN e ELSE local[c]
    BY <1>1 DEF Replace, TypeOK
  <2> QED BY <2>1, PlacesSourced
<1>2. CASE local[d].ts # x.ts
  BY <1>2, PlacesSourced DEF Replace
<1> QED BY <1>1, <1>2

(* A step that begins, ends or advances a task leaves its entries sourced. *)
LEMMA TaskPutSourced ==
    ASSUME TypeOK, NEW t \in Tasks, NEW r, task' = [task EXCEPT ![t] = r],
           Source(r.mine), Source(r.cloud)
    PROVE  \A u \in Tasks : Source(task'[u].mine) /\ Source(task'[u].cloud)
<1>1. \A u \in Tasks : task'[u] = IF u = t THEN r ELSE task[u]
  BY DEF TypeOK
<1> QED BY <1>1, PlacesSourced

LEMMA EndSourced ==
    ASSUME TypeOK, NEW t \in Tasks, End(t)
    PROVE  \A u \in Tasks : Source(task'[u].mine) /\ Source(task'[u].cloud)
<1>1. Source(Idle.mine) /\ Source(Idle.cloud)
  BY DEF Source, Idle
<1> QED BY <1>1, TaskPutSourced DEF End

LEMMA BecomeSourced ==
    ASSUME TypeOK, NEW t \in Tasks, NEW st, Become(t, st)
    PROVE  \A u \in Tasks : Source(task'[u].mine) /\ Source(task'[u].cloud)
<1> DEFINE r == [task[t] EXCEPT !.st = st]
<1>1. r.mine = task[t].mine /\ r.cloud = task[t].cloud
  BY DEF TypeOK, Task
<1>2. task' = [task EXCEPT ![t] = r]
  BY DEF Become
<1> HIDE DEF r
<1> QED BY <1>1, <1>2, PlacesSourced, TaskPutSourced

LEMMA AnswerSourced ==
    ASSUME TypeOK, NEW t \in Tasks, NEW st, NEW e, Source(e),
           task' = [task EXCEPT ![t].st = st, ![t].cloud = e]
    PROVE  \A u \in Tasks : Source(task'[u].mine) /\ Source(task'[u].cloud)
<1> DEFINE r == [task[t] EXCEPT !.st = st, !.cloud = e]
<1>1. r.mine = task[t].mine /\ r.cloud = e
  BY DEF TypeOK, Task
<1>2. task' = [task EXCEPT ![t] = r]
  BY DEF TypeOK
<1> HIDE DEF r
<1> QED BY <1>1, <1>2, PlacesSourced, TaskPutSourced

(* Every entry of the next state was somewhere already, is new from a      *)
(* device or the server, or is one the server has accepted.                *)
LEMMA Sources == TypeOK /\ [Next]_vars => \A e \in Everywhere' : Source(e)
<1> SUFFICES ASSUME TypeOK, [Next]_vars PROVE \A e \in Everywhere' : Source(e)
  OBVIOUS
<1> DEFINE After ==
      /\ Source(server')
      /\ \A d \in Devices : Source(local'[d])
      /\ \A d \in Devices : Source(guest'[d])
      /\ \A t \in Tasks : Source(task'[t].mine) /\ Source(task'[t].cloud)
      /\ \A e \in stray' : Source(e)
<1>0. After => \A e \in Everywhere' : Source(e)
  BY DEF Everywhere
<1>1. ASSUME NEW d \in Devices, ToggleFavorite(d) PROVE After
  <2>1. Source(Change(d, Opposite(local[d])))
    BY OppositeType DEF Source
  <2>2. \A c \in Devices : local'[c] = IF c = d THEN Change(d, Opposite(local[d]))
                                       ELSE local[c]
    BY <1>1 DEF ToggleFavorite, TypeOK
  <2> QED BY <2>1, <2>2, <1>1, PlacesSourced DEF ToggleFavorite
<1>2. ASSUME NEW d \in Devices, ToggleGuestFavorite(d) PROVE After
  <2>1. Source(Change(d, Opposite(guest[d])))
    BY OppositeType DEF Source
  <2>2. \A c \in Devices : guest'[c] = IF c = d THEN Change(d, Opposite(guest[d]))
                                       ELSE guest[c]
    BY <1>2 DEF ToggleGuestFavorite, TypeOK
  <2> QED BY <2>1, <2>2, <1>2, PlacesSourced DEF ToggleGuestFavorite
<1>3. ASSUME NEW d \in Devices, SwitchOwner(d) PROVE After
  BY <1>3, PlacesSourced DEF SwitchOwner
<1>4. ASSUME NEW d \in Devices, AdoptGuest(d) PROVE After
  <2>1. \A c \in Devices : local'[c] \in {guest[d], local[c]}
    BY <1>4 DEF AdoptGuest, TypeOK
  <2>2. \A c \in Devices : guest'[c] \in {NoEntry, guest[c]}
    BY <1>4 DEF AdoptGuest, TypeOK
  <2>3. Source(NoEntry)
    BY DEF Source
  <2> QED BY <2>1, <2>2, <2>3, <1>4, PlacesSourced DEF AdoptGuest
<1>5. ASSUME NEW d \in Devices, NEW t \in Tasks, StartSync(d, t) \/ StartPush(d, t)
      PROVE  After
  <2>1. PICK st, op : task' = [task EXCEPT ![t] =
               [st |-> st, op |-> op, dev |-> d, mine |-> local[d], cloud |-> NoEntry]]
    BY <1>5 DEF StartSync, StartPush
  <2>2. Source(NoEntry)
    BY DEF Source
  <2>3. \A u \in Tasks : Source(task'[u].mine) /\ Source(task'[u].cloud)
    BY <2>1, <2>2, PlacesSourced, TaskPutSourced
  <2> QED BY <2>3, <1>5, PlacesSourced DEF StartSync, StartPush
<1>6. ASSUME NEW t \in Tasks, Get(t) PROVE After
  <2>1. PICK st : task' = [task EXCEPT ![t].st = st, ![t].cloud = server]
    BY <1>6 DEF Get
  <2>2. \A u \in Tasks : Source(task'[u].mine) /\ Source(task'[u].cloud)
    BY <2>1, PlacesSourced, AnswerSourced
  <2> QED BY <2>2, <1>6, PlacesSourced DEF Get
<1>7. ASSUME NEW t \in Tasks, Put(t) PROVE After
  <2>1. Source(server')
    BY <1>7, MergedSourced DEF Put, Everywhere
  <2>2. \A u \in Tasks : Source(task'[u].mine) /\ Source(task'[u].cloud)
    BY <2>1, <1>7, AnswerSourced DEF Put
  <2> QED BY <2>1, <2>2, <1>7, PlacesSourced DEF Put
<1>8. ASSUME NEW t \in Tasks, Compare(t) PROVE After
  BY <1>8, BecomeSourced, PlacesSourced DEF Compare
<1>9. ASSUME NEW t \in Tasks, AdoptStored(t) PROVE After
  <2>1. \A u \in Tasks : Source(task'[u].mine) /\ Source(task'[u].cloud)
    <3>1. CASE StoredEarlier(task[t].mine, task[t].cloud)
      <4> DEFINE r == [task[t] EXCEPT !.st = "asking2", !.mine = task[t].cloud]
      <4>1. r.mine = task[t].cloud /\ r.cloud = task[t].cloud
        BY DEF TypeOK, Task
      <4>2. task' = [task EXCEPT ![t] = r]
        BY <1>9, <3>1 DEF AdoptStored, TypeOK
      <4> HIDE DEF r
      <4> QED BY <4>1, <4>2, PlacesSourced, TaskPutSourced
    <3>2. CASE ~StoredEarlier(task[t].mine, task[t].cloud)
      BY <1>9, <3>2, BecomeSourced DEF AdoptStored
    <3> QED BY <3>1, <3>2
  <2>2. \A c \in Devices : Source(local'[c])
    BY <1>9, TaskFields, PlacesSourced, ReplaceSourced DEF AdoptStored
  <2> QED BY <2>1, <2>2, <1>9, PlacesSourced DEF AdoptStored
<1>10. ASSUME NEW t \in Tasks, ApplyCloud(t) PROVE After
  <2>1. \A c \in Devices : Source(local'[c])
    BY <1>10, TaskFields, PlacesSourced, ReplaceSourced DEF ApplyCloud
  <2> QED BY <2>1, <1>10, EndSourced, PlacesSourced DEF ApplyCloud
<1>11. ASSUME NEW t \in Tasks, FinishPush(t) PROVE After
  <2>1. \A c \in Devices : Source(local'[c])
    BY <1>11, TaskFields, PlacesSourced, ReplaceSourced DEF FinishPush
  <2> QED BY <2>1, <1>11, EndSourced, PlacesSourced DEF FinishPush
<1>12. ASSUME NEW t \in Tasks, GiveUp(t) PROVE After
  <2>1. \A e \in stray' : Source(e)
    BY <1>12, PlacesSourced DEF GiveUp
  <2> QED BY <2>1, <1>12, EndSourced, PlacesSourced DEF GiveUp
<1>13. ASSUME NEW e \in stray, PutLate(e) PROVE After
  <2>1. Source(server')
    BY <1>13, MergedSourced DEF PutLate, Everywhere
  <2> QED BY <2>1, <1>13, PlacesSourced DEF PutLate
<1>14. ASSUME OldAdd PROVE After
  BY <1>14, PlacesSourced DEF OldAdd, Source
<1>15. ASSUME OldRemove PROVE After
  BY <1>15, PlacesSourced DEF OldRemove, Source
<1>16. ASSUME Tick PROVE After
  BY <1>16, PlacesSourced DEF Tick
<1>17. ASSUME UNCHANGED vars PROVE After
  BY <1>17, PlacesSourced DEF vars
<1> HIDE DEF After
<1> QED BY <1>0, <1>1, <1>2, <1>3, <1>4, <1>5, <1>6, <1>7, <1>8, <1>9, <1>10,
           <1>11, <1>12, <1>13, <1>14, <1>15, <1>16, <1>17
        DEF Next, UserStep, TaskStep, ServerStep

-----------------------------------------------------------------------------
(* What a step may change of each variable                                 *)

LEMMA ClockAdvances == TypeOK /\ [Next]_vars => now' \in Nat /\ now <= now'
<1> SUFFICES ASSUME TypeOK, [Next]_vars PROVE now' \in Nat /\ now <= now'
  OBVIOUS
<1>1. now' = now \/ now' = now + 1
  BY DEF Next, vars, UserStep, TaskStep, ServerStep, ToggleFavorite,
         ToggleGuestFavorite, SwitchOwner, AdoptGuest, StartSync, StartPush, Get,
         Put, Compare, AdoptStored, ApplyCloud, FinishPush, GiveUp, PutLate,
         OldAdd, OldRemove, Tick
<1> QED BY <1>1 DEF TypeOK

LEMMA GuestFrame ==
    TypeOK /\ [Next]_vars =>
        \A d \in Devices :
            \/ guest'[d] = guest[d]
            \/ guest'[d] = NoEntry
            \/ \E k \in {"active", "tombstone"} : guest'[d] = Change(d, k)
<1> SUFFICES ASSUME TypeOK, [Next]_vars, NEW d \in Devices
             PROVE  \/ guest'[d] = guest[d]
                    \/ guest'[d] = NoEntry
                    \/ \E k \in {"active", "tombstone"} : guest'[d] = Change(d, k)
  OBVIOUS
<1>1. ASSUME NEW c \in Devices, ToggleGuestFavorite(c)
      PROVE  \/ guest'[d] = guest[d]
             \/ \E k \in {"active", "tombstone"} : guest'[d] = Change(d, k)
  <2>1. guest'[d] = IF d = c THEN Change(c, Opposite(guest[c])) ELSE guest[d]
    BY <1>1 DEF ToggleGuestFavorite, TypeOK
  <2> QED BY <2>1, OppositeType
<1>2. ASSUME NEW c \in Devices, AdoptGuest(c) PROVE guest'[d] \in {guest[d], NoEntry}
  BY <1>2 DEF AdoptGuest, TypeOK
<1>3. \/ UNCHANGED guest
      \/ \E c \in Devices : ToggleGuestFavorite(c)
      \/ \E c \in Devices : AdoptGuest(c)
  BY DEF Next, vars, UserStep, TaskStep, ServerStep, ToggleFavorite, SwitchOwner,
         StartSync, StartPush, Get, Put, Compare, AdoptStored, ApplyCloud,
         FinishPush, GiveUp, PutLate, OldAdd, OldRemove, Tick
<1> QED BY <1>1, <1>2, <1>3

LEMMA ReplaceFrame ==
    ASSUME TypeOK, NEW c \in Devices, NEW x, NEW e, NEW d \in Devices
    PROVE  Replace(c, x, e)[d] = local[d] \/ (d = c /\ Replace(c, x, e)[d] = e)
BY DEF Replace, TypeOK

LEMMA LocalFrame ==
    TypeOK /\ [Next]_vars =>
        \A d \in Devices :
            \/ local'[d] = local[d]
            \/ local'[d] = guest[d]
            \/ \E k \in {"active", "tombstone"} : local'[d] = Change(d, k)
            \/ \E t \in Tasks : local'[d] = task[t].cloud
<1> SUFFICES ASSUME TypeOK, [Next]_vars, NEW d \in Devices
             PROVE  \/ local'[d] = local[d]
                    \/ local'[d] = guest[d]
                    \/ \E k \in {"active", "tombstone"} : local'[d] = Change(d, k)
                    \/ \E t \in Tasks : local'[d] = task[t].cloud
  OBVIOUS
<1>1. ASSUME NEW c \in Devices, ToggleFavorite(c)
      PROVE  \/ local'[d] = local[d]
             \/ \E k \in {"active", "tombstone"} : local'[d] = Change(d, k)
  <2>1. local'[d] = IF d = c THEN Change(c, Opposite(local[c])) ELSE local[d]
    BY <1>1 DEF ToggleFavorite, TypeOK
  <2> QED BY <2>1, OppositeType
<1>2. ASSUME NEW c \in Devices, AdoptGuest(c) PROVE local'[d] \in {local[d], guest[d]}
  BY <1>2 DEF AdoptGuest, TypeOK
<1>3. ASSUME NEW t \in Tasks, AdoptStored(t) \/ ApplyCloud(t) \/ FinishPush(t)
      PROVE  local'[d] = local[d] \/ local'[d] = task[t].cloud
  BY <1>3, TaskFields, ReplaceFrame DEF AdoptStored, ApplyCloud, FinishPush
<1>4. \/ UNCHANGED local
      \/ \E c \in Devices : ToggleFavorite(c)
      \/ \E c \in Devices : AdoptGuest(c)
      \/ \E t \in Tasks : AdoptStored(t) \/ ApplyCloud(t) \/ FinishPush(t)
  BY DEF Next, vars, UserStep, TaskStep, ServerStep, ToggleGuestFavorite,
         SwitchOwner, StartSync, StartPush, Get, Put, Compare, GiveUp, PutLate,
         OldAdd, OldRemove, Tick
<1> QED BY <1>1, <1>2, <1>3, <1>4

LEMMA TaskFrame ==
    TypeOK /\ [Next]_vars =>
        \A u \in Tasks :
            /\ task'[u].cloud \in {task[u].cloud, NoEntry, server'}
            /\ task'[u].st = "stored" =>
                 \/ Put(u)
                 \/ /\ task[u].st = "stored"
                    /\ task'[u].mine = task[u].mine
                    /\ task'[u].cloud = task[u].cloud
<1> SUFFICES ASSUME TypeOK, [Next]_vars, NEW u \in Tasks
             PROVE  /\ task'[u].cloud \in {task[u].cloud, NoEntry, server'}
                    /\ task'[u].st = "stored" =>
                         \/ Put(u)
                         \/ /\ task[u].st = "stored"
                            /\ task'[u].mine = task[u].mine
                            /\ task'[u].cloud = task[u].cloud
  OBVIOUS
<1> DEFINE Goal ==
      /\ task'[u].cloud \in {task[u].cloud, NoEntry, server'}
      /\ task'[u].st = "stored" =>
           \/ Put(u)
           \/ /\ task[u].st = "stored"
              /\ task'[u].mine = task[u].mine
              /\ task'[u].cloud = task[u].cloud
<1>1. ASSUME NEW d \in Devices, NEW t \in Tasks, StartSync(d, t) \/ StartPush(d, t)
      PROVE  Goal
  BY <1>1 DEF StartSync, StartPush, TypeOK
<1>2. ASSUME NEW t \in Tasks, Get(t) PROVE Goal
  BY <1>2 DEF Get, TypeOK, Task
<1>3. ASSUME NEW t \in Tasks, Put(t) PROVE Goal
  BY <1>3 DEF Put, TypeOK, Task
<1>4. ASSUME NEW t \in Tasks, Compare(t) PROVE Goal
  BY <1>4 DEF Compare, Become, TypeOK, Task
<1>5. ASSUME NEW t \in Tasks, AdoptStored(t) PROVE Goal
  BY <1>5 DEF AdoptStored, Become, TypeOK, Task
<1>6. ASSUME NEW t \in Tasks, ApplyCloud(t) \/ FinishPush(t) \/ GiveUp(t) PROVE Goal
  <2>1. End(t)
    BY <1>6 DEF ApplyCloud, FinishPush, GiveUp
  <2> QED BY <2>1 DEF End, Idle, TypeOK
<1>7. ASSUME UNCHANGED task PROVE Goal
  BY <1>7
<1>8. \/ UNCHANGED task
      \/ \E t \in Tasks :
           \/ \E d \in Devices : StartSync(d, t) \/ StartPush(d, t)
           \/ Get(t)
           \/ Put(t)
           \/ Compare(t)
           \/ AdoptStored(t)
           \/ ApplyCloud(t) \/ FinishPush(t) \/ GiveUp(t)
  BY DEF Next, vars, UserStep, TaskStep, ServerStep, ToggleFavorite,
         ToggleGuestFavorite, SwitchOwner, AdoptGuest, PutLate, OldAdd,
         OldRemove, Tick
<1> HIDE DEF Goal
<1>9. Goal
  BY <1>1, <1>2, <1>3, <1>4, <1>5, <1>6, <1>7, <1>8
<1> QED BY <1>9 DEF Goal

(* The account's entry moves forward.  An app version without deletion     *)
(* markers stamps the server's time, so with one the clocks have to agree. *)
LEMMA ServerForward ==
    ASSUME TypeOK, OldVersions => Stamped, [Next]_vars
    PROVE  server' = server \/ Beats(server', server)
<1>1. ASSUME NEW e, server' = Merged(e) PROVE server' = server \/ Beats(server', server)
  BY <1>1 DEF Merged
<1>2. ASSUME OldAdd PROVE Beats(server', server)
  <2>1. server.ts = -1 /\ server'.ts = now
    BY <1>2 DEF OldAdd, TypeOK, Entry, NoEntry
  <2> QED BY <2>1 DEF Beats, TypeOK
<1>3. ASSUME OldRemove PROVE server' = server \/ Beats(server', server)
  <2>1. server' = [kind |-> "tombstone", ts |-> now, made |-> now]
    BY <1>3 DEF OldRemove
  <2>2. server.ts <= now /\ server.made = server.ts
    BY <1>3 DEF OldRemove, Stamped, Everywhere
  <2>3. CASE server = NoEntry
    BY <2>1, <2>3 DEF Beats, NoEntry, TypeOK
  <2>4. CASE server \in [kind : {"active", "tombstone"}, ts : Nat, made : Nat]
    <3>1. CASE server.ts = now /\ server.kind = "tombstone"
      BY <3>1, <2>1, <2>2, <2>4
    <3>2. CASE server.ts = now /\ server.kind = "active"
      BY <3>2, <2>1 DEF Beats
    <3>3. CASE server.ts < now
      BY <3>3, <2>1, <2>4 DEF Beats, TypeOK
    <3> QED BY <3>1, <3>2, <3>3, <2>2, <2>4 DEF TypeOK
  <2> QED BY <2>3, <2>4 DEF TypeOK, Entry
<1>4. \/ UNCHANGED server
      \/ \E e : server' = Merged(e)
      \/ OldAdd
      \/ OldRemove
  BY DEF Next, vars, UserStep, TaskStep, ServerStep, ToggleFavorite,
         ToggleGuestFavorite, SwitchOwner, AdoptGuest, StartSync, StartPush, Get,
         Put, Compare, AdoptStored, ApplyCloud, FinishPush, GiveUp, PutLate, Tick
<1> QED BY <1>1, <1>2, <1>3, <1>4

LEMMA ServerKept ==
    ASSUME TypeOK, TypeOK', OldVersions => Stamped, [Next]_vars,
           NEW e \in Entry, ~Beats(e, server)
    PROVE  ~Beats(e, server')
<1>1. server \in Entry /\ server' \in Entry
  BY DEF TypeOK
<1>2. ~Beats(server, server')
  BY <1>1, ServerForward, BeatsNotBeaten, NotBeatsSelf
<1> QED BY <1>1, <1>2, NotBeatsTrans

LEMMA EntryTs == \A e \in Entry : e.ts \in Int /\ e.ts >= -1
BY DEF Entry, NoEntry

LEMMA EverywhereType == TypeOK => Everywhere \subseteq Entry
BY DEF TypeOK, Everywhere, Task

-----------------------------------------------------------------------------
(* Each part of Sound is kept                                              *)

LEMMA LaterIsMore ==
    ASSUME NEW x \in Nat, NEW y \in Nat, NEW z \in Nat, x <= y
    PROVE  x <= y + z /\ -1 <= y + z
OBVIOUS

LEMMA NearStep ==
    ASSUME TypeOK, Within, Near, [Next]_vars
    PROVE  Near'
<1> SUFFICES ASSUME NEW e \in Everywhere' PROVE e.ts <= now' + Tolerance
  BY DEF Near
<1>0. now \in Nat /\ now' \in Nat /\ now <= now' /\ Tolerance \in Nat
  BY ClockAdvances, FavoritesAssumption DEF TypeOK
<1>1. Source(e)
  BY Sources
<1>2. CASE e \in Everywhere
  <2>1. e.ts \in Int /\ e.ts <= now + Tolerance
    BY <1>2, EntryTs, EverywhereType DEF Near
  <2> QED BY <1>0, <2>1
<1>3. CASE e = NoEntry
  <2>1. e.ts = -1
    BY <1>3 DEF NoEntry
  <2>2. -1 <= now' + Tolerance
    BY <1>0, LaterIsMore
  <2> QED BY <2>1, <2>2
<1>4. ASSUME NEW d \in Devices, NEW k \in {"active", "tombstone"}, e = Change(d, k)
      PROVE  e.ts <= now' + Tolerance
  <2>1. e.ts = now + Skew[d] /\ Skew[d] <= Tolerance /\ Skew[d] \in Nat
    BY <1>4, FavoritesAssumption DEF Change, Clock, Within
  <2> QED BY <1>0, <2>1
<1>5. ASSUME NEW k \in {"active", "tombstone"},
             e = [kind |-> k, ts |-> now, made |-> now]
      PROVE  e.ts <= now' + Tolerance
  <2>1. e.ts = now
    BY <1>5
  <2>2. now <= now' + Tolerance
    BY <1>0, LaterIsMore
  <2> QED BY <2>1, <2>2
<1>6. ASSUME NEW f \in Everywhere, e = Accept(f)
      PROVE  e.ts <= now' + Tolerance
  <2>1. f.ts \in Int /\ f.ts <= now + Tolerance
    BY EntryTs, EverywhereType DEF Near
  <2>2. e = f
    <3>1. ~(f.ts - now > Tolerance)
      BY <1>0, <2>1
    <3> QED BY <1>6, <3>1 DEF Accept
  <2> QED BY <1>0, <2>1, <2>2
<1> QED BY <1>1, <1>2, <1>3, <1>4, <1>5, <1>6 DEF Source

LEMMA StampedStep ==
    ASSUME TypeOK, ExactClocks, Stamped, [Next]_vars
    PROVE  Stamped'
<1> SUFFICES ASSUME NEW e \in Everywhere' PROVE e.ts <= now' /\ e.made = e.ts
  BY DEF Stamped
<1>0. now \in Nat /\ now' \in Nat /\ now <= now' /\ Tolerance \in Nat
  BY ClockAdvances, FavoritesAssumption DEF TypeOK
<1>1. Source(e)
  BY Sources
<1>2. CASE e \in Everywhere
  BY <1>0, <1>2, EntryTs, EverywhereType DEF Stamped
<1>3. CASE e = NoEntry
  BY <1>0, <1>3 DEF NoEntry
<1>4. ASSUME NEW d \in Devices, NEW k \in {"active", "tombstone"}, e = Change(d, k)
      PROVE  e.ts <= now' /\ e.made = e.ts
  BY <1>0, <1>4 DEF Change, Clock, ExactClocks
<1>5. ASSUME NEW k \in {"active", "tombstone"},
             e = [kind |-> k, ts |-> now, made |-> now]
      PROVE  e.ts <= now' /\ e.made = e.ts
  BY <1>0, <1>5
<1>6. ASSUME NEW f \in Everywhere, e = Accept(f)
      PROVE  e.ts <= now' /\ e.made = e.ts
  <2>1. f.ts \in Int /\ f.ts <= now /\ f.made = f.ts
    BY EntryTs, EverywhereType DEF Stamped
  <2>2. e = f
    BY <1>0, <1>6, <2>1 DEF Accept
  <2> QED BY <1>0, <2>1, <2>2
<1> QED BY <1>1, <1>2, <1>3, <1>4, <1>5, <1>6 DEF Source

LEMMA AnsweredStep ==
    ASSUME TypeOK, Near, Answered, [Next]_vars
    PROVE  Answered'
<1> SUFFICES ASSUME NEW t \in Tasks, task'[t].st = "stored"
             PROVE  ~Beats(task'[t].mine, task'[t].cloud)
  BY DEF Answered, Beats
<1>1. CASE Put(t)
  <2>1. task'[t].mine = task[t].mine /\ task'[t].cloud = Merged(task[t].mine)
    BY <1>1 DEF Put, TypeOK, Task
  <2>2. task[t].mine \in Entry /\ task[t].mine.ts <= now + Tolerance
    BY TaskFields DEF Near, Everywhere
  <2>3. Accept(task[t].mine) = task[t].mine
    BY <2>2, EntryTs, FavoritesAssumption DEF Accept, TypeOK
  <2>4. Merged(task[t].mine) = task[t].mine \/ ~Beats(task[t].mine, server)
    BY <2>3 DEF Merged
  <2>5. ~Beats(task[t].mine, Merged(task[t].mine))
    BY <2>2, <2>3, <2>4, NotBeatsSelf DEF Merged
  <2> QED BY <2>1, <2>5
<1>2. CASE ~Put(t)
  BY <1>2, TaskFrame DEF Answered
<1> QED BY <1>1, <1>2

LEMMA CloudOldStep ==
    ASSUME TypeOK, TypeOK', OldVersions => Stamped, CloudOld, [Next]_vars
    PROVE  CloudOld'
<1> SUFFICES ASSUME NEW t \in Tasks PROVE ~Beats(task'[t].cloud, server')
  BY DEF CloudOld, Beats
<1>1. task'[t].cloud \in {task[t].cloud, NoEntry, server'}
  BY TaskFrame
<1>2. server' \in Entry /\ task[t].cloud \in Entry
  BY TaskFields DEF TypeOK
<1>3. ~Beats(task[t].cloud, server')
  BY <1>2, ServerKept DEF CloudOld
<1>4. ~Beats(NoEntry, server')
  BY <1>2, EntryTs DEF Beats, NoEntry
<1>5. ~Beats(server', server')
  BY <1>2, NotBeatsSelf
<1> QED BY <1>1, <1>3, <1>4, <1>5

LEMMA GuestOwnStep ==
    ASSUME TypeOK, GuestOwn, [Next]_vars
    PROVE  GuestOwn'
<1> SUFFICES ASSUME NEW d \in Devices PROVE guest'[d].ts <= now' + Skew[d]
  BY DEF GuestOwn, Clock
<1>0. now \in Nat /\ now' \in Nat /\ now <= now' /\ Skew[d] \in Nat
  BY ClockAdvances, FavoritesAssumption DEF TypeOK
<1>1. guest[d].ts \in Int /\ guest[d].ts <= now + Skew[d]
  BY EntryTs DEF TypeOK, GuestOwn, Clock
<1>2. CASE guest'[d] = guest[d]
  BY <1>0, <1>1, <1>2
<1>3. CASE guest'[d] = NoEntry
  <2>1. guest'[d].ts = -1
    BY <1>3 DEF NoEntry
  <2> QED BY <1>0, <2>1
<1>4. ASSUME NEW k \in {"active", "tombstone"}, guest'[d] = Change(d, k)
      PROVE  guest'[d].ts <= now' + Skew[d]
  <2>1. guest'[d].ts = now + Skew[d]
    BY <1>4 DEF Change, Clock
  <2> QED BY <1>0, <2>1
<1> QED BY <1>2, <1>3, <1>4, GuestFrame

LEMMA OwnOrKnownStep ==
    ASSUME TypeOK, TypeOK', OldVersions => Stamped, CloudOld, OwnOrKnown, GuestOwn,
           [Next]_vars
    PROVE  OwnOrKnown'
<1> SUFFICES ASSUME NEW d \in Devices
             PROVE  local'[d].ts <= now' + Skew[d] \/ ~Beats(local'[d], server')
  BY DEF OwnOrKnown, Clock, Beats
<1>0. now \in Nat /\ now' \in Nat /\ now <= now' /\ Skew[d] \in Nat
  BY ClockAdvances, FavoritesAssumption DEF TypeOK
<1>1. CASE local'[d] = local[d]
  <2>1. local[d] \in Entry /\ local[d].ts \in Int
    BY EntryTs DEF TypeOK
  <2>2. CASE local[d].ts <= now + Skew[d]
    BY <1>0, <1>1, <2>1, <2>2
  <2>3. CASE ~Beats(local[d], server)
    BY <1>1, <2>1, <2>3, ServerKept
  <2> QED BY <2>2, <2>3 DEF OwnOrKnown, Clock
<1>2. CASE local'[d] = guest[d]
  <2>1. guest[d].ts \in Int /\ guest[d].ts <= now + Skew[d]
    BY EntryTs DEF TypeOK, GuestOwn, Clock
  <2> QED BY <1>0, <1>2, <2>1
<1>3. ASSUME NEW k \in {"active", "tombstone"}, local'[d] = Change(d, k)
      PROVE  local'[d].ts <= now' + Skew[d]
  <2>1. local'[d].ts = now + Skew[d]
    BY <1>3 DEF Change, Clock
  <2> QED BY <1>0, <2>1
<1>4. ASSUME NEW t \in Tasks, local'[d] = task[t].cloud
      PROVE  ~Beats(local'[d], server')
  BY <1>4, TaskFields, ServerKept DEF CloudOld
<1> QED BY <1>1, <1>2, <1>3, <1>4, LocalFrame

LEMMA SoundInit == Init => Sound
<1> SUFFICES ASSUME Init PROVE Sound
  OBVIOUS
<1>1. Everywhere = {NoEntry}
  BY FavoritesAssumption DEF Init, Everywhere, Idle
<1>2. NoEntry.ts = -1 /\ NoEntry.made = -1
  BY DEF NoEntry
<1>3. now = 0 /\ Tolerance \in Nat
  BY FavoritesAssumption DEF Init
<1>4. Near /\ Stamped
  BY <1>1, <1>2, <1>3 DEF Near, Stamped
<1>5. Answered /\ CloudOld
  <2>1. ~Beats(NoEntry, NoEntry)
    BY NoEntryType, NotBeatsSelf
  <2>2. \A t \in Tasks : task[t] = Idle
    BY DEF Init
  <2>3. server = NoEntry
    BY DEF Init
  <2>4. Idle.mine = NoEntry /\ Idle.cloud = NoEntry
    BY DEF Idle
  <2> QED BY <2>1, <2>2, <2>3, <2>4 DEF Answered, CloudOld
<1>6. \A d \in Devices : Clock(d) \in Nat
  BY <1>3, FavoritesAssumption DEF Clock
<1>7. OwnOrKnown /\ GuestOwn
  BY <1>2, <1>6 DEF Init, OwnOrKnown, GuestOwn
<1> QED BY <1>4, <1>5, <1>7, InitType DEF Sound

LEMMA SoundStep ==
    ASSUME Within, OldVersions => ExactClocks, Sound, [Next]_vars
    PROVE  Sound'
<1>1. TypeOK'
  BY TypeStep DEF Sound
<1>2. OldVersions => Stamped
  BY DEF Sound
<1>3. Near'
  BY NearStep DEF Sound
<1>4. ExactClocks => Stamped'
  BY StampedStep DEF Sound
<1>5. Answered'
  BY AnsweredStep DEF Sound
<1>6. CloudOld'
  BY <1>1, <1>2, CloudOldStep DEF Sound
<1>7. OwnOrKnown'
  BY <1>1, <1>2, OwnOrKnownStep DEF Sound
<1>8. GuestOwn'
  BY GuestOwnStep DEF Sound
<1> QED BY <1>1, <1>3, <1>4, <1>5, <1>6, <1>7, <1>8 DEF Sound, ExactClocks

-----------------------------------------------------------------------------
(* The account's entry                                                     *)

(* Whatever the devices' clocks say, and in whatever order the uploads of  *)
(* deletion-aware apps arrive, the account's entry gives way only to one   *)
(* that beats it.                                                          *)
THEOREM AccountForward ==
    ASSUME ~OldVersions
    PROVE  Spec => AccountMovesForward
<1>1. TypeOK /\ [Next]_vars => [server' # server => Beats(server', server)]_vars
  BY ServerForward
<1> QED BY <1>1, FavoritesTyped, PTL DEF Spec, AccountMovesForward

-----------------------------------------------------------------------------
(* No change is lost                                                       *)

(* What a step writes to a device in place of its entry is not beaten by   *)
(* that entry, unless the entry was ahead of the device's own clock.       *)
LEMMA LocalKept ==
    ASSUME Sound, Within, [Next]_vars, NEW d \in Devices
    PROVE  ~Beats(local[d], local'[d]) \/ ~(local[d].ts <= Clock(d))
<1>0. TypeOK /\ Answered
  BY DEF Sound
<1>1. local[d] \in Entry /\ local[d].ts \in Int
  BY <1>0, EntryTs DEF TypeOK
<1>2. CASE local'[d] = local[d]
  BY <1>1, <1>2, NotBeatsSelf
<1>3. ASSUME NEW c \in Devices, ToggleFavorite(c), local'[d] # local[d]
      PROVE  ~Beats(local[d], local'[d]) \/ ~(local[d].ts <= Clock(d))
  <2>1. d = c /\ local'[d] = Change(d, Opposite(local[d])) /\ Clock(d) # local[d].ts
    BY <1>0, <1>3 DEF ToggleFavorite, TypeOK
  <2>2. local'[d].ts = Clock(d)
    BY <2>1 DEF Change
  <2>3. Clock(d) \in Int
    BY <1>0, FavoritesAssumption DEF Clock, TypeOK
  <2>4. CASE local[d].ts <= Clock(d)
    <3>1. local[d].ts < local'[d].ts
      BY <1>1, <2>1, <2>2, <2>3, <2>4
    <3> QED BY <1>1, <2>2, <2>3, <3>1 DEF Beats
  <2> QED BY <2>4
<1>4. ASSUME NEW c \in Devices, AdoptGuest(c), local'[d] # local[d]
      PROVE  ~Beats(local[d], local'[d])
  <2>1. guest[d].ts > local[d].ts /\ local'[d] = guest[d]
    BY <1>0, <1>4 DEF AdoptGuest, TypeOK
  <2>2. guest[d].ts \in Int
    BY <1>0, EntryTs DEF TypeOK
  <2> QED BY <1>1, <2>1, <2>2 DEF Beats
<1>5. ASSUME NEW t \in Tasks, AdoptStored(t), local'[d] # local[d]
      PROVE  FALSE
  <2>1. task[t].st = "stored" /\ StoredEarlier(task[t].mine, task[t].cloud)
    BY <1>5 DEF AdoptStored
  <2>2. task[t].mine.ts \in Int /\ task[t].cloud.ts \in Int
    BY <1>0, TaskFields, EntryTs
  <2>3. Beats(task[t].mine, task[t].cloud)
    BY <2>1, <2>2 DEF StoredEarlier, Beats
  <2> QED BY <1>0, <2>1, <2>3 DEF Answered
<1>6. ASSUME NEW t \in Tasks, ApplyCloud(t), local'[d] # local[d]
      PROVE  ~Beats(local[d], local'[d])
  <2>1. local' = Replace(task[t].dev, task[t].mine, task[t].cloud)
        /\ Beats(task[t].cloud, task[t].mine)
    BY <1>6 DEF ApplyCloud
  <2>2. local[d].ts = task[t].mine.ts /\ local'[d] = task[t].cloud
    BY <1>0, <1>6, <2>1, TaskFields DEF Replace, TypeOK
  <2>3. task[t].mine.ts \in Int /\ task[t].cloud.ts \in Int
    BY <1>0, TaskFields, EntryTs
  <2> QED BY <1>1, <2>1, <2>2, <2>3 DEF Beats
<1>7. ASSUME NEW t \in Tasks, FinishPush(t), local'[d] # local[d]
      PROVE  ~Beats(local[d], local'[d])
  <2>1. /\ task[t].st = "stored"
        /\ \/ StoredEarlier(task[t].mine, task[t].cloud)
           \/ task[t].cloud.ts > task[t].mine.ts
        /\ local' = Replace(task[t].dev, task[t].mine, task[t].cloud)
    BY <1>7 DEF FinishPush
  <2>2. local[d].ts = task[t].mine.ts /\ local'[d] = task[t].cloud
    BY <1>0, <1>7, <2>1, TaskFields DEF Replace, TypeOK
  <2>3. task[t].mine.ts \in Int /\ task[t].cloud.ts \in Int
    BY <1>0, TaskFields, EntryTs
  <2>4. ~StoredEarlier(task[t].mine, task[t].cloud)
    BY <1>0, <2>1, <2>3 DEF Answered, StoredEarlier, Beats
  <2> QED BY <1>1, <2>1, <2>2, <2>3, <2>4 DEF Beats
<1>8. \/ UNCHANGED local
      \/ \E c \in Devices : ToggleFavorite(c)
      \/ \E c \in Devices : AdoptGuest(c)
      \/ \E t \in Tasks : AdoptStored(t)
      \/ \E t \in Tasks : ApplyCloud(t)
      \/ \E t \in Tasks : FinishPush(t)
  BY DEF Next, vars, UserStep, TaskStep, ServerStep, ToggleGuestFavorite,
         SwitchOwner, StartSync, StartPush, Get, Put, Compare, GiveUp, PutLate,
         OldAdd, OldRemove, Tick
<1> QED BY <1>2, <1>3, <1>4, <1>5, <1>6, <1>7, <1>8

LEMMA HeldKept ==
    ASSUME Sound, Within, OldVersions => ExactClocks, [Next]_vars
    PROVE  \A e \in Held : \E f \in Held' : ~Beats(e, f)
<1> SUFFICES ASSUME NEW e \in Held PROVE \E f \in Held' : ~Beats(e, f)
  OBVIOUS
<1>0. TypeOK /\ TypeOK' /\ (OldVersions => Stamped)
  BY TypeStep DEF Sound
<1>1. server' \in Held' /\ \A d \in Devices : local'[d] \in Held'
  BY DEF Held
<1>2. CASE e = server
  <2>1. server \in Entry /\ ~Beats(server, server)
    BY <1>0, NotBeatsSelf DEF TypeOK
  <2>2. ~Beats(server, server')
    BY <1>0, <2>1, ServerKept
  <2> QED BY <1>1, <1>2, <2>2
<1>3. ASSUME NEW d \in Devices, e = local[d] PROVE \E f \in Held' : ~Beats(e, f)
  <2>1. local[d] \in Entry
    BY <1>0 DEF TypeOK
  <2>2. CASE ~Beats(local[d], local'[d])
    BY <1>1, <1>3, <2>2
  <2>3. CASE ~Beats(local[d], server)
    BY <1>0, <1>1, <1>3, <2>1, <2>3, ServerKept
  <2> QED BY <2>2, <2>3, LocalKept DEF Sound, OwnOrKnown
<1> QED BY <1>2, <1>3 DEF Held

LEMMA SoundAlways ==
    ASSUME Within, OldVersions => ExactClocks
    PROVE  Spec => []Sound
<1>1. Init => Sound
  BY SoundInit
<1>2. Sound /\ [Next]_vars => Sound'
  BY SoundStep
<1> QED BY <1>1, <1>2, PTL DEF Spec

(* With clocks the server tolerates, no interleaving of changes, syncs,    *)
(* pushes, kills, late uploads and merges of guest data loses a change:    *)
(* the account or a device still holds it, or one that beats it.           *)
THEOREM ChangesKept ==
    ASSUME Within, OldVersions => ExactClocks
    PROVE  Spec => NothingIsLost
<1>1. Sound /\ [Next]_vars =>
        [\A e \in Held : \E f \in Held' : ~Beats(e, f)]_vars
  BY HeldKept
<1>2. Spec => []Sound
  BY SoundAlways
<1> QED BY <1>1, <1>2, PTL DEF Spec, NothingIsLost

-----------------------------------------------------------------------------
(* A deletion stays                                                        *)

LEMMA ExactWithin == ExactClocks => Within
<1>1. 0 <= Tolerance
  BY FavoritesAssumption
<1> QED BY <1>1 DEF ExactClocks, Within

LEMMA ServerRevival ==
    ASSUME TypeOK, Stamped, Stamped', [Next]_vars,
           server.kind = "tombstone", server'.kind = "active"
    PROVE  server'.made >= server.made
<1>1. Beats(server', server)
  BY ServerForward
<1>0. server.ts \in Int /\ server'.ts \in Int
  BY TypeStep, EntryTs DEF TypeOK
<1>2. server'.ts >= server.ts
  BY <1>0, <1>1 DEF Beats
<1>3. server.made = server.ts /\ server'.made = server'.ts
  BY DEF Stamped, Everywhere
<1> QED BY <1>2, <1>3

LEMMA LocalRevival ==
    ASSUME Sound, Sound', ExactClocks, [Next]_vars, NEW d \in Devices,
           local[d].kind = "tombstone", local'[d].kind = "active"
    PROVE  local'[d].made >= local[d].made
<1>0. TypeOK /\ TypeOK' /\ Stamped /\ Stamped' /\ Within
  BY ExactWithin DEF Sound, ExactClocks
<1>1. /\ local[d].ts \in Int /\ local'[d].ts \in Int
      /\ local[d].made = local[d].ts /\ local'[d].made = local'[d].ts
  BY <1>0, EntryTs DEF Stamped, Everywhere, TypeOK
<1>2. local[d].ts <= Clock(d)
  <2>1. local[d].ts <= now /\ now \in Nat /\ Clock(d) = now + 0
    BY <1>0 DEF Stamped, Everywhere, Clock, ExactClocks, TypeOK
  <2> QED BY <1>1, <2>1
<1>3. ~Beats(local[d], local'[d])
  BY <1>0, <1>2, LocalKept
<1> QED BY <1>1, <1>3 DEF Beats

(* With agreeing clocks a deletion is undone only by a later save, even    *)
(* when an app version without deletion markers takes part: no stale copy, *)
(* retry, late upload, other device or guest partition revives the verse.  *)
THEOREM DeletionsStay ==
    ASSUME ExactClocks
    PROVE  Spec => NoResurrection
<1>1. Sound /\ Sound' /\ [Next]_vars =>
        [ /\ server.kind = "tombstone" /\ server'.kind = "active"
                => server'.made >= server.made
          /\ \A d \in Devices :
               local[d].kind = "tombstone" /\ local'[d].kind = "active"
                  => local'[d].made >= local[d].made ]_vars
  <2> SUFFICES ASSUME Sound, Sound', [Next]_vars
               PROVE  /\ server.kind = "tombstone" /\ server'.kind = "active"
                            => server'.made >= server.made
                      /\ \A d \in Devices :
                           local[d].kind = "tombstone" /\ local'[d].kind = "active"
                              => local'[d].made >= local[d].made
    OBVIOUS
  <2>1. TypeOK /\ Stamped /\ Stamped'
    BY DEF Sound, ExactClocks
  <2> QED BY <2>1, ServerRevival, LocalRevival
<1>2. Within
  BY ExactWithin
<1>3. Spec => []Sound
  BY <1>2, SoundAlways
<1> QED BY <1>1, <1>3, PTL DEF Spec, NoResurrection

-----------------------------------------------------------------------------
(* Agreement stays                                                         *)

(* What tasks remember and what is still on its way to the server. *)
Carried ==
    {task[t].mine : t \in Tasks} \cup {task[t].cloud : t \in Tasks} \cup stray

(* Nothing carried is news: a place holds it, or something it cannot beat. *)
NoNews == \A e \in Carried : \E f \in Held : ~Beats(e, f)

KnownBefore(e) == e \in Carried \/ e \in Held \/ e \in Held' \/ e = NoEntry

LEMMA PlacesKnown ==
    /\ \A t \in Tasks : KnownBefore(task[t].mine) /\ KnownBefore(task[t].cloud)
    /\ \A e \in stray : KnownBefore(e)
    /\ KnownBefore(server) /\ KnownBefore(server')
    /\ \A d \in Devices : KnownBefore(local[d])
    /\ KnownBefore(NoEntry)
BY DEF KnownBefore, Carried, Held

LEMMA TaskPutKnown ==
    ASSUME TypeOK, NEW t \in Tasks, NEW r, task' = [task EXCEPT ![t] = r],
           KnownBefore(r.mine), KnownBefore(r.cloud)
    PROVE  \A u \in Tasks : KnownBefore(task'[u].mine) /\ KnownBefore(task'[u].cloud)
<1>1. \A u \in Tasks : task'[u] = IF u = t THEN r ELSE task[u]
  BY DEF TypeOK
<1> QED BY <1>1, PlacesKnown

LEMMA CarriedFrame == TypeOK /\ [Next]_vars => \A e \in Carried' : KnownBefore(e)
<1> SUFFICES ASSUME TypeOK, [Next]_vars PROVE \A e \in Carried' : KnownBefore(e)
  OBVIOUS
<1> DEFINE TasksKnown ==
      \A u \in Tasks : KnownBefore(task'[u].mine) /\ KnownBefore(task'[u].cloud)
<1>1. ASSUME NEW d \in Devices, NEW t \in Tasks, StartSync(d, t) \/ StartPush(d, t)
      PROVE  TasksKnown
  <2>1. PICK st, op : task' = [task EXCEPT ![t] =
               [st |-> st, op |-> op, dev |-> d, mine |-> local[d], cloud |-> NoEntry]]
    BY <1>1 DEF StartSync, StartPush
  <2> QED BY <2>1, PlacesKnown, TaskPutKnown
<1>2. ASSUME NEW t \in Tasks, NEW st, NEW e, KnownBefore(e),
             task' = [task EXCEPT ![t].st = st, ![t].cloud = e]
      PROVE  TasksKnown
  <2> DEFINE r == [task[t] EXCEPT !.st = st, !.cloud = e]
  <2>1. r.mine = task[t].mine /\ r.cloud = e
    BY DEF TypeOK, Task
  <2>2. task' = [task EXCEPT ![t] = r]
    BY <1>2 DEF TypeOK
  <2> HIDE DEF r
  <2> QED BY <1>2, <2>1, <2>2, PlacesKnown, TaskPutKnown
<1>3. ASSUME NEW t \in Tasks, NEW st, NEW e, KnownBefore(e),
             task' = [task EXCEPT ![t].st = st, ![t].mine = e]
      PROVE  TasksKnown
  <2> DEFINE r == [task[t] EXCEPT !.st = st, !.mine = e]
  <2>1. r.mine = e /\ r.cloud = task[t].cloud
    BY DEF TypeOK, Task
  <2>2. task' = [task EXCEPT ![t] = r]
    BY <1>3 DEF TypeOK
  <2> HIDE DEF r
  <2> QED BY <1>3, <2>1, <2>2, PlacesKnown, TaskPutKnown
<1>4. ASSUME NEW t \in Tasks, NEW st, Become(t, st) PROVE TasksKnown
  <2> DEFINE r == [task[t] EXCEPT !.st = st]
  <2>1. r.mine = task[t].mine /\ r.cloud = task[t].cloud
    BY DEF TypeOK, Task
  <2>2. task' = [task EXCEPT ![t] = r]
    BY <1>4 DEF Become
  <2> HIDE DEF r
  <2> QED BY <2>1, <2>2, PlacesKnown, TaskPutKnown
<1>5. ASSUME NEW t \in Tasks, End(t) PROVE TasksKnown
  <2>1. Idle.mine = NoEntry /\ Idle.cloud = NoEntry
    BY DEF Idle
  <2> QED BY <1>5, <2>1, PlacesKnown, TaskPutKnown DEF End
<1>6. ASSUME UNCHANGED task PROVE TasksKnown
  BY <1>6, PlacesKnown
<1>7. \/ UNCHANGED task
      \/ \E t \in Tasks :
           \/ \E d \in Devices : StartSync(d, t) \/ StartPush(d, t)
           \/ Get(t) \/ Put(t)
           \/ AdoptStored(t)
           \/ \E st : Become(t, st)
           \/ End(t)
  BY DEF Next, vars, UserStep, TaskStep, ServerStep, ToggleFavorite,
         ToggleGuestFavorite, SwitchOwner, AdoptGuest, Compare, ApplyCloud,
         FinishPush, GiveUp, PutLate, OldAdd, OldRemove, Tick
<1>8. ASSUME NEW t \in Tasks, Get(t) \/ Put(t) PROVE TasksKnown
  <2>1. PICK st : \/ task' = [task EXCEPT ![t].st = st, ![t].cloud = server]
                  \/ task' = [task EXCEPT ![t].st = st, ![t].cloud = server']
    BY <1>8 DEF Get, Put
  <2> QED BY <1>2, <2>1, PlacesKnown
<1>9. ASSUME NEW t \in Tasks, AdoptStored(t) PROVE TasksKnown
  <2>1. \/ task' = [task EXCEPT ![t].st = "asking2", ![t].mine = task[t].cloud]
        \/ Become(t, "asking2")
    BY <1>9 DEF AdoptStored
  <2> QED BY <1>3, <1>4, <2>1, PlacesKnown
<1> HIDE DEF TasksKnown
<1>10. TasksKnown
  BY <1>1, <1>4, <1>5, <1>6, <1>7, <1>8, <1>9
<1>11. \A e \in stray' : KnownBefore(e)
  <2>1. \A e \in stray' : e \in stray \/ \E t \in Tasks : e = task[t].mine
    BY DEF Next, vars, UserStep, TaskStep, ServerStep, ToggleFavorite,
           ToggleGuestFavorite, SwitchOwner, AdoptGuest, StartSync, StartPush, Get,
           Put, Compare, AdoptStored, ApplyCloud, FinishPush, GiveUp, PutLate,
           OldAdd, OldRemove, Tick
  <2> QED BY <2>1, PlacesKnown
<1> QED BY <1>10, <1>11 DEF TasksKnown, Carried

LEMMA NoNewsStep ==
    ASSUME Sound, Within, OldVersions => ExactClocks, NoNews, [Next]_vars
    PROVE  NoNews'
<1>0. TypeOK /\ TypeOK'
  BY TypeStep DEF Sound
<1>1. /\ Held \subseteq Entry /\ Carried \subseteq Entry
      /\ Held' \subseteq Entry /\ Carried' \subseteq Entry
  <2>1. Held \subseteq Entry /\ Held' \subseteq Entry
    BY <1>0 DEF Held, TypeOK
  <2>2. Carried \subseteq Entry /\ Carried' \subseteq Entry
    BY <1>0 DEF Carried, TypeOK, Task
  <2> QED BY <2>1, <2>2
<1>2. \A e \in Held : \E f \in Held' : ~Beats(e, f)
  BY HeldKept
<1>3. server' \in Held'
  BY DEF Held
<1>4. ASSUME NEW e \in Carried' PROVE \E f \in Held' : ~Beats(e, f)
  <2>1. CASE e \in Carried
    <3>1. PICK g \in Held : ~Beats(e, g)
      BY <2>1 DEF NoNews
    <3>2. PICK f \in Held' : ~Beats(g, f)
      BY <1>2
    <3> QED BY <1>1, <3>1, <3>2, NotBeatsTrans
  <2>2. CASE e \in Held
    BY <1>2, <2>2
  <2>3. CASE e \in Held'
    BY <1>1, <2>3, NotBeatsSelf
  <2>4. CASE e = NoEntry
    BY <1>1, <1>3, <2>4, EntryTs DEF Beats, NoEntry
  <2> QED BY <1>0, <2>1, <2>2, <2>3, <2>4, CarriedFrame DEF KnownBefore
<1> QED BY <1>4 DEF NoNews, Beats

LEMMA NoNewsInit == Init => NoNews
<1> SUFFICES ASSUME Init, NEW e \in Carried PROVE \E f \in Held : ~Beats(e, f)
  BY DEF NoNews
<1>1. e = NoEntry /\ server = NoEntry
  BY DEF Init, Carried, Idle
<1> QED BY <1>1, NoEntryType, NotBeatsSelf DEF Held

LEMMA NoNewsAlways ==
    ASSUME Within, OldVersions => ExactClocks
    PROVE  Spec => []NoNews
<1>1. NoNews /\ Sound /\ [Next]_vars => NoNews'
  BY NoNewsStep
<1>2. Spec => []Sound
  BY SoundAlways
<1> QED BY <1>1, <1>2, NoNewsInit, PTL DEF Spec

(* When all agree, nothing carried beats what the account holds. *)
LEMMA CarriedBehind ==
    ASSUME AllAgree, NoNews, NEW e \in Carried
    PROVE  ~Beats(e, server)
<1>1. PICK f \in Held : ~Beats(e, f)
  BY DEF NoNews
<1>2. f.kind = server.kind /\ f.ts = server.ts
  BY DEF Held, AllAgree
<1> QED BY <1>1, <1>2 DEF Beats

LEMMA UploadsChangeNothing ==
    ASSUME Sound, AllAgree, NoNews, NEW e \in Carried
    PROVE  Merged(e) = server
<1>1. e \in Everywhere
  BY DEF Carried, Everywhere
<1>2. e.ts \in Int /\ e.ts <= now + Tolerance
  BY <1>1, EntryTs, EverywhereType DEF Sound, Near
<1>3. Accept(e) = e
  BY <1>2, FavoritesAssumption DEF Accept, Sound, TypeOK
<1> QED BY <1>3, CarriedBehind DEF Merged

LEMMA AnswersChangeNothing ==
    ASSUME Sound, AllAgree, NoNews, NEW t \in Tasks,
           AdoptStored(t) \/ ApplyCloud(t) \/ FinishPush(t), NEW d \in Devices
    PROVE  local'[d].kind = local[d].kind /\ local'[d].ts = local[d].ts
<1> DEFINE mine == task[t].mine
           cloud == task[t].cloud
<1>0. TypeOK /\ Answered
  BY DEF Sound
<1>1. /\ mine \in Entry /\ cloud \in Entry /\ server \in Entry
      /\ mine.ts \in Int /\ cloud.ts \in Int /\ server.ts \in Int
  BY <1>0, TaskFields, EntryTs DEF TypeOK
<1>2. ~Beats(cloud, server)
  BY CarriedBehind DEF Carried
<1>3. local[d].kind = server.kind /\ local[d].ts = server.ts
  BY DEF AllAgree
<1>4. CASE local'[d] = local[d]
  BY <1>4
<1>5. CASE local'[d] # local[d]
  <2>1. /\ local' = Replace(task[t].dev, mine, cloud)
        /\ \/ task[t].st = "stored" /\ StoredEarlier(mine, cloud)
           \/ Beats(cloud, mine)
           \/ cloud.ts > mine.ts
    BY <1>5 DEF AdoptStored, ApplyCloud, FinishPush
  <2>2. local[d].ts = mine.ts /\ local'[d] = cloud
    BY <1>0, <1>5, <2>1, TaskFields DEF Replace, TypeOK
  <2>3. ~(task[t].st = "stored" /\ StoredEarlier(mine, cloud))
    BY <1>0, <1>1 DEF Answered, StoredEarlier, Beats
  <2>4. cloud.ts = mine.ts /\ cloud.kind = "tombstone" /\ server.kind # "active"
    BY <1>1, <1>2, <1>3, <2>1, <2>2, <2>3 DEF Beats
  <2>5. server.kind = "tombstone"
    <3>1. cloud.ts >= 0
      BY <1>1, <2>4 DEF Entry, NoEntry
    <3>2. server # NoEntry
      <4>1. server.ts >= 0
        BY <1>1, <1>3, <2>2, <2>4, <3>1
      <4>2. NoEntry.ts = -1
        BY DEF NoEntry
      <4> QED BY <4>1, <4>2
    <3> QED BY <1>1, <2>4, <3>2 DEF Entry
  <2> QED BY <1>3, <2>2, <2>4, <2>5
<1> QED BY <1>4, <1>5

(* Once every device and the account agree on the verse, only a user's     *)
(* change, a merge of guest data or an app version without deletion        *)
(* markers ends it: uploads in flight or given up on, retries and answers  *)
(* still to be applied, in any order, leave the agreement alone.           *)
THEOREM AgreementLasts ==
    ASSUME Within, OldVersions => ExactClocks
    PROVE  Spec => AgreementStays
<1>1. Sound /\ NoNews /\ [Next]_vars =>
        [ AllAgree /\ ~AllAgree' =>
            \/ \E d \in Devices : ToggleFavorite(d) \/ AdoptGuest(d)
            \/ OldAdd \/ OldRemove ]_vars
  <2> SUFFICES ASSUME Sound, NoNews, Next, AllAgree, ~AllAgree'
               PROVE  \/ \E d \in Devices : ToggleFavorite(d) \/ AdoptGuest(d)
                      \/ OldAdd \/ OldRemove
    OBVIOUS
  <2>1. \/ \E d \in Devices : ToggleFavorite(d) \/ AdoptGuest(d)
        \/ OldAdd \/ OldRemove
        \/ UNCHANGED <<server, local>>
        \/ \E e \in Carried : server' = Merged(e) /\ UNCHANGED local
        \/ \E t \in Tasks : /\ AdoptStored(t) \/ ApplyCloud(t) \/ FinishPush(t)
                            /\ UNCHANGED server
    <3>1. CASE UserStep
      BY <3>1 DEF UserStep, ToggleGuestFavorite, SwitchOwner
    <3>2. ASSUME NEW t \in Tasks, Put(t)
          PROVE  \E e \in Carried : server' = Merged(e) /\ UNCHANGED local
      BY <3>2 DEF Put, Carried
    <3>3. ASSUME NEW t \in Tasks, TaskStep(t)
          PROVE  \/ UNCHANGED <<server, local>>
                 \/ Put(t)
                 \/ /\ AdoptStored(t) \/ ApplyCloud(t) \/ FinishPush(t)
                    /\ UNCHANGED server
      BY <3>3 DEF TaskStep, StartSync, StartPush, Get, Compare, AdoptStored, ApplyCloud,
                  FinishPush, GiveUp
    <3>4. CASE ServerStep
      BY <3>4 DEF ServerStep, PutLate, Tick, Carried
    <3> QED BY <3>1, <3>2, <3>3, <3>4 DEF Next
  <2>2. ~UNCHANGED <<server, local>>
    BY DEF AllAgree
  <2>3. ~\E e \in Carried : server' = Merged(e) /\ UNCHANGED local
    BY <2>2, UploadsChangeNothing
  <2>4. ~\E t \in Tasks : /\ AdoptStored(t) \/ ApplyCloud(t) \/ FinishPush(t)
                          /\ UNCHANGED server
    BY AnswersChangeNothing DEF AllAgree
  <2> QED BY <2>1, <2>2, <2>3, <2>4
<1>2. Spec => []Sound
  BY SoundAlways
<1>3. Spec => []NoNews
  BY NoNewsAlways
<1> QED BY <1>1, <1>2, <1>3, PTL DEF Spec, AgreementStays
=============================================================================

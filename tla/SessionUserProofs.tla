-------------------------- MODULE SessionUserProofs --------------------------
(***************************************************************************)
(* The proofs that the stored tokens are those of the session shown as     *)
(* signed in, and that a settled sign-out leaves none, along an invariant  *)
(* that says what the first token write, while it runs, and the sign-out   *)
(* that is still to clear owe each other; and the proof that only a dead   *)
(* session's tokens are forgotten; and the proof that a live session is    *)
(* revoked for reuse only beyond the grace.  TypeInv and RecoverableInv    *)
(* are used as they stand.                                                 *)
(***************************************************************************)
EXTENDS AuthSessionProofs

(* The first write is running and is of this kind. *)
RunsFirst(op) == 1 \in DOMAIN writes /\ writes[1].st = "running" /\ writes[1].op = op
SignInQueued == \E i \in DOMAIN writes : writes[i].op = "signin"

(* The latest sign-out has yet to clear, and a sign-in waits for it. *)
AwaitsClear == Clearing(epoch) /\ (fresh # NoFresh => fresh.awaits = epoch)

UserInv ==
    /\ stored # NoToken /\ access # NoToken => stored.sid = access.sid
    /\ TokensAreOfTheUser
    /\ phase = "loading" => epoch = 0
    /\ \A i \in DOMAIN writes : writes[i].op = "signin" => writes[i].epoch = epoch
    /\ RunsFirst("save") \/ RunsFirst("signin") => stored = writes[1].tok
    /\ RunsFirst("expire") => access = NoToken
    /\ restoring # "none" => ~RunsFirst("save")
    /\ phase = "guest" /\ (RunsFirst("save") \/ RunsFirst("expire")) => AwaitsClear
    /\ phase = "guest" =>
         \/ AwaitsClear
         \/ access = NoToken /\ (stored = NoToken \/ epoch = 0 \/ SignInQueued)

LEMMA InitUser == Init => UserInv
    BY DEF Init, UserInv, TokensAreOfTheUser, RunsFirst, AwaitsClear, Clearing

(* What the earlier invariants give, with the queue spelled out. *)
Known2 == /\ TypeInv /\ PhaseParts /\ OnlyTheFirstRuns /\ OneOutcome /\ OneSignIn
          /\ NothingFromTheFuture /\ RefreshesStored /\ epoch \in Epochs /\ epoch \in Nat

LEMMA KnownHere == Inv => Known2
    BY PhaseForm, EpochsAreNumbers DEF Known2, Inv, RecoverableInv, TypeInv, TypeOK

(* A step that leaves the tokens and the view alone. *)
LEMMA UserKept ==
    ASSUME UserInv, UNCHANGED <<epoch, phase, user, stored, access, restoring>>,
           \A i \in DOMAIN writes' : writes'[i].op = "signin" => writes'[i].epoch = epoch,
           \A op \in {"save", "signin", "expire"} :
               RunsFirst(op)' => RunsFirst(op) /\ writes'[1].tok = writes[1].tok,
           AwaitsClear => AwaitsClear', SignInQueued => SignInQueued'
    PROVE  UserInv'
    BY DEF UserInv, TokensAreOfTheUser

(* A write that joins the queue does not run. *)
LEMMA JoinedWaits ==
    ASSUME Known2, NEW w \in Write, Joins(w), w.st = "queued"
    PROVE  /\ \A op \in {"save", "signin", "expire"} :
                RunsFirst(op)' => RunsFirst(op) /\ writes'[1].tok = writes[1].tok
           /\ SignInQueued => SignInQueued'
    BY DEF Joins, RunsFirst, SignInQueued

LEMMA RefreshStepUser ==
    ASSUME Known2, UserInv, RefreshStep
    PROVE  UserInv'
<1>1. UNCHANGED <<epoch, phase, user, stored, access, ending, fresh, restoring>>
    BY RefreshStepShape DEF RefreshShape, Known2
<1>2. UNCHANGED writes \/ \E w \in Write : Joins(w) /\ w.st = "queued" /\ w.op # "signin"
    BY RefreshStepShape DEF RefreshShape, Finishes, Known2
<1>3. CASE UNCHANGED writes
    BY <1>1, <1>3, UserKept
    DEF UserInv, RunsFirst, AwaitsClear, Clearing, SignInQueued
<1>4. ASSUME NEW w \in Write, Joins(w), w.st = "queued", w.op # "signin"
      PROVE  UserInv'
  <2>1. \A i \in DOMAIN writes' : writes'[i].op = "signin" => writes'[i].epoch = epoch
      BY <1>4 DEF Joins, UserInv
  <2>2. AwaitsClear => AwaitsClear'
      BY <1>1, <1>4 DEF AwaitsClear, Clearing, Joins
  <2> QED
      BY <1>1, <1>4, <2>1, <2>2, JoinedWaits, UserKept
<1> QED
    BY <1>2, <1>3, <1>4

LEMMA BeginWriteUser ==
    ASSUME Known2, UserInv, BeginWrite
    PROVE  UserInv'
<1>1. /\ StartsToRun /\ writes[1].epoch = epoch /\ writes[1].st = "queued"
      /\ UNCHANGED <<epoch, phase, user, refresh, ending, fresh, restoring>>
    BY BeginWriteStartsToRun DEF BeginWrite, StartsToRun, Known2
<1>2. /\ AwaitsClear' <=> AwaitsClear
      /\ SignInQueued' <=> SignInQueued
      /\ \A i \in DOMAIN writes' : writes'[i].op = "signin" => writes'[i].epoch = epoch
      /\ \A op : RunsFirst(op)' => op = writes[1].op
      /\ writes'[1].tok = writes[1].tok
    BY <1>1 DEF StartsToRun, AwaitsClear, Clearing, SignInQueued, RunsFirst, UserInv
<1>3. CASE writes[1].op = "signin"
  <2>1. /\ stored' = writes[1].tok /\ access' = access
        /\ phase = "guest" /\ ~Clearing(epoch) /\ SignInQueued
      BY <1>1, <1>3
      DEF BeginWrite, StartsToRun, Known2, PhaseParts, SigningIn, SignInOfEpoch, SignInQueued
  <2>2. access = NoToken /\ restoring = "none"
      BY <1>1, <1>3, <2>1 DEF UserInv, AwaitsClear, Known2, PhaseParts, SigningIn, StartsToRun
  <2> QED
      BY <1>1, <1>2, <1>3, <2>1, <2>2 DEF UserInv, TokensAreOfTheUser
<1>4. CASE writes[1].op = "save"
  <2>1. /\ stored' = writes[1].tok /\ access' = access
        /\ stored # NoToken /\ writes[1].tok = Successor(stored) /\ stored \in Token
      BY <1>1, <1>4 DEF BeginWrite, StartsToRun, Known2, RefreshesStored, TypeInv, TypeOK
  <2>2. stored'.sid = stored.sid
      BY <2>1 DEF Successor, Token
  <2>3. phase # "guest" /\ restoring = "none"
      BY <1>1, <1>4 DEF StartsToRun, Known2, OneOutcome, Outcome, PhaseParts
  <2> QED
      BY <1>1, <1>2, <1>4, <2>1, <2>2, <2>3 DEF UserInv, TokensAreOfTheUser
<1>5. CASE writes[1].op = "expire"
  <2>1. access' = NoToken /\ stored' = stored
      BY <1>1, <1>5 DEF BeginWrite, StartsToRun
  <2>2. phase # "guest"
      BY <1>1, <1>5 DEF StartsToRun, Known2, OneOutcome, Outcome, PhaseParts
  <2> QED
      BY <1>1, <1>2, <1>5, <2>1, <2>2 DEF UserInv, TokensAreOfTheUser
<1>6. CASE writes[1].op = "clear"
  <2>1. \/ access' = NoToken /\ stored' = stored
        \/ stored' = NoToken /\ access' = access
      BY <1>1, <1>6 DEF BeginWrite, StartsToRun
  <2>2. phase = "guest"
      BY <1>1, <1>6 DEF StartsToRun, Known2, PhaseParts, Clearing
  <2> QED
      BY <1>1, <1>2, <1>6, <2>1, <2>2 DEF UserInv, TokensAreOfTheUser
<1> QED
    BY <1>1, <1>3, <1>4, <1>5, <1>6, WritesAreWrites DEF StartsToRun, Known2, Write

LEMMA FinishWriteUser ==
    ASSUME Known2, UserInv, FinishWrite
    PROVE  UserInv'
<1>1. Leaves /\ Head(writes) = writes[1] /\ 1 \in DOMAIN writes
    BY FinishShape DEF Known2, Leaves
<1>2. \A op : ~RunsFirst(op)'
    BY <1>1, WritesAreWrites DEF Leaves, RunsFirst, OnlyTheFirstRuns, Known2
<1>3. \A i \in DOMAIN writes' : writes'[i].op = "signin" => writes'[i].epoch = epoch
    BY <1>1 DEF Leaves, UserInv
<1>4. CASE DropWrite
  <2>1. /\ UNCHANGED <<epoch, phase, user, stored, access, ending, fresh, restoring>>
        /\ writes[1].epoch # epoch /\ writes[1].op # "signin"
      BY <1>1, <1>4 DEF DropWrite, UserInv
  <2>2. (AwaitsClear => AwaitsClear') /\ (SignInQueued => SignInQueued')
    <3>1. \A i \in DOMAIN writes : i # 1 => \E j \in DOMAIN writes' : writes'[j] = writes[i]
      <4>1. writes \in Seq(Write) /\ writes' = Tail(writes)
          BY <1>4 DEF Known2, TypeInv, TypeOK, DropWrite
      <4>2. ASSUME NEW i \in DOMAIN writes, i # 1
            PROVE  i - 1 \in DOMAIN writes' /\ writes'[i - 1] = writes[i]
          BY <4>1, <4>2
      <4> QED
          BY <4>2
    <3> QED
        BY <2>1, <3>1 DEF AwaitsClear, Clearing, SignInQueued
  <2> QED
      BY <1>2, <1>3, <2>1, <2>2, UserKept
<1>5. CASE FinishSave
  <2>1. /\ UNCHANGED <<epoch, phase, user, stored, ending, fresh, restoring>>
        /\ access' = writes[1].tok /\ RunsFirst("save")
      BY <1>1, <1>5 DEF FinishSave, Running, RunsFirst
  <2>2. phase = "guest" => AwaitsClear'
    <3>1. \A i \in DOMAIN writes : i # 1 => \E j \in DOMAIN writes' : writes'[j] = writes[i]
      <4>1. writes \in Seq(Write) /\ writes' = Tail(writes)
          BY <1>5 DEF Known2, TypeInv, TypeOK, FinishSave
      <4>2. ASSUME NEW i \in DOMAIN writes, i # 1
            PROVE  i - 1 \in DOMAIN writes' /\ writes'[i - 1] = writes[i]
          BY <4>1, <4>2
      <4> QED
          BY <4>2
    <3> QED
        BY <2>1, <3>1 DEF AwaitsClear, Clearing, UserInv, RunsFirst
  <2> QED
      BY <1>2, <1>3, <2>1, <2>2 DEF UserInv, TokensAreOfTheUser
<1>6. CASE FinishSignIn
  <2>1. /\ UNCHANGED <<epoch, stored, ending, fresh, restoring>>
        /\ RunsFirst("signin") /\ access' = writes[1].tok
        /\ phase' = "signedIn" /\ user' = writes[1].tok.sid
      BY <1>1, <1>6 DEF FinishSignIn, Running, RunsFirst, UserInv
  <2> QED
      BY <1>2, <1>3, <2>1 DEF UserInv, TokensAreOfTheUser
<1>7. CASE FinishExpire
  <2>1. /\ phase' = "guest" /\ stored' = NoToken /\ access' = access
        /\ epoch' = epoch + 1 /\ RunsFirst("expire")
      BY <1>1, <1>7 DEF FinishExpire, EndSession, Running, RunsFirst
  <2>2. access' = NoToken
      BY <2>1 DEF UserInv
  <2>3. ~SignInQueued
    <3>1. SUFFICES ASSUME SignInQueued PROVE FALSE
        OBVIOUS
    <3>2. phase = "guest" /\ ~Clearing(epoch)
        BY <3>1 DEF SignInQueued, UserInv, Known2, PhaseParts, SigningIn, SignInOfEpoch
    <3> QED
        BY <2>1, <3>2 DEF UserInv, AwaitsClear
  <2>4. ~SignInQueued'
      BY <1>1, <2>3 DEF SignInQueued, Leaves
  <2> QED
      BY <1>2, <2>1, <2>2, <2>4 DEF UserInv, TokensAreOfTheUser, SignInQueued
<1>8. CASE FinishClear
  <2>1. /\ stored' = NoToken /\ access' = NoToken
        /\ UNCHANGED <<epoch, phase, user, restoring>>
      BY <1>8 DEF FinishClear
  <2> QED
      BY <1>2, <1>3, <2>1 DEF UserInv, TokensAreOfTheUser
<1> QED
    BY <1>4, <1>5, <1>6, <1>7, <1>8 DEF FinishWrite

LEMMA NextUser ==
    ASSUME ~SignInDuringRestore, Inv, UserInv, [Next]_vars
    PROVE  UserInv'
<1>1. Known2
    BY KnownHere
<1>2. CASE Server \/ UNCHANGED vars
    BY <1>2
    DEF Server, vars, authVars, UserInv, TokensAreOfTheUser, RunsFirst, AwaitsClear,
        Clearing, SignInQueued
<1>3. CASE RestoreStep
  <2>1. /\ UNCHANGED <<epoch, refresh, writes, ending, fresh>>
        /\ AwaitsClear' <=> AwaitsClear
        /\ SignInQueued' <=> SignInQueued
        /\ \A op : RunsFirst(op)' <=> RunsFirst(op)
      BY <1>3
      DEF RestoreStep, RestoreSignedIn, RestoreGuest, RestoreLook, RestoreClear,
          AwaitsClear, Clearing, SignInQueued, RunsFirst
  <2>2. CASE RestoreSignedIn
      BY <2>1, <2>2 DEF RestoreSignedIn, UserInv, TokensAreOfTheUser
  <2>3. CASE RestoreGuest
    <3>1. ~RunsFirst("save") /\ ~RunsFirst("signin") /\ ~RunsFirst("expire")
      <4>1. refresh[epoch].pc = "idle" /\ phase = "loading" /\ epoch = 0
          BY <2>3 DEF RestoreGuest, UserInv
      <4>2. ~SignInQueued
          BY <4>1, <1>1 DEF Known2, PhaseParts, SigningIn, SignInQueued
      <4>3. \A i \in DOMAIN writes : writes[i].epoch = epoch
          BY <4>1, <1>1, WritesAreWrites DEF Known2, NothingFromTheFuture
      <4> QED
          BY <4>1, <4>2, <4>3, <1>1 DEF Known2, OneOutcome, Outcome, RunsFirst, SignInQueued
    <3> QED
        BY <2>1, <2>3, <3>1 DEF RestoreGuest, UserInv, TokensAreOfTheUser
  <2>4. CASE RestoreLook
    <3>1. stored = NoToken /\ phase = "guest" /\ restoring # "none"
        BY <1>1, <2>4 DEF RestoreLook, Known2, PhaseParts
    <3> QED
        BY <2>1, <2>4, <3>1 DEF RestoreLook, UserInv, TokensAreOfTheUser
  <2>5. CASE RestoreClear
    <3>1. phase = "guest" /\ ~SignInQueued /\ ~RunsFirst("signin")
        BY <1>1, <2>5
        DEF RestoreClear, Known2, PhaseParts, SigningIn, SignInQueued, RunsFirst
    <3> QED
        BY <2>1, <2>5, <3>1 DEF RestoreClear, UserInv, TokensAreOfTheUser
  <2> QED
      BY <1>3, <2>2, <2>3, <2>4, <2>5 DEF RestoreStep
<1>4. CASE RefreshStep
    BY <1>1, <1>4, RefreshStepUser
<1>5. CASE Restart
    BY <1>5 DEF Restart, UserInv, TokensAreOfTheUser, RunsFirst
<1>6. CASE BeginWrite
    BY <1>1, <1>6, BeginWriteUser
<1>7. CASE FinishWrite
    BY <1>1, <1>7, FinishWriteUser
<1>8. CASE HandleSignInSuccess
  <2>1. /\ epoch' = epoch + 1 /\ fresh # NoFresh /\ phase = "guest" /\ restoring = "none"
        /\ ~Clearing(fresh.awaits) /\ ~SignInQueued
        /\ UNCHANGED <<phase, user, stored, access, ending, restoring>>
      BY <1>1, <1>8
      DEF HandleSignInSuccess, Known2, PhaseParts, SigningIn, OneSignIn, InQueue, SignInQueued
  <2>2. ~AwaitsClear
      BY <2>1 DEF AwaitsClear
  <2>3. PICK w \in Write :
          Joins(w) /\ w.op = "signin" /\ w.st = "queued" /\ w.epoch = epoch + 1
      BY <1>1, <1>8, SignInShape DEF Known2
  <2>4. /\ SignInQueued'
        /\ \A i \in DOMAIN writes' : writes'[i].op = "signin" => writes'[i].epoch = epoch'
      BY <2>1, <2>3 DEF Joins, SignInQueued
  <2>5. \A op \in {"save", "signin", "expire"} : ~RunsFirst(op)'
    <3>1. \A op \in {"save", "signin", "expire"} : RunsFirst(op)' => RunsFirst(op)
        BY <1>1, <2>3, JoinedWaits
    <3>2. ~RunsFirst("signin")
        BY <2>1 DEF RunsFirst, SignInQueued
    <3>3. ~RunsFirst("save") /\ ~RunsFirst("expire")
        BY <2>1, <2>2 DEF UserInv
    <3> QED
        BY <3>1, <3>2, <3>3
  <2> QED
      BY <2>1, <2>2, <2>4, <2>5 DEF UserInv, TokensAreOfTheUser
<1>9. CASE SignOut
  <2>1. /\ epoch' = epoch + 1 /\ phase = "signedIn" /\ phase' = "guest"
        /\ ending' = ending \cup {WriteOf("clear", epoch + 1, stored)}
        /\ UNCHANGED <<stored, access, writes, fresh, restoring>>
      BY <1>9 DEF SignOut, EndSession
  <2>2. fresh = NoFresh /\ ~SignInQueued /\ restoring = "none"
      BY <1>1, <2>1 DEF Known2, PhaseParts, SigningIn, SignInQueued
  <2>3. AwaitsClear'
    <3>1. \E w \in ending' : w.epoch = epoch'
      <4>1. WriteOf("clear", epoch + 1, stored).epoch = epoch + 1
          BY DEF WriteOf
      <4> QED
          BY <2>1, <4>1
    <3> QED
        BY <2>1, <2>2, <3>1 DEF AwaitsClear, Clearing
  <2> QED
      BY <2>1, <2>2, <2>3 DEF UserInv, TokensAreOfTheUser, RunsFirst, SignInQueued
<1>10. ASSUME NEW s \in Sessions, SignIn(s)
       PROVE  UserInv'
  <2>1. /\ UNCHANGED <<epoch, phase, user, stored, access, writes, ending, restoring>>
        /\ fresh'.awaits = epoch
      BY <1>10 DEF SignIn
  <2> QED
      BY <2>1, UserKept DEF UserInv, RunsFirst, AwaitsClear, Clearing, SignInQueued
<1>11. ASSUME NEW w \in ending, ClearPersistedSession(w)
       PROVE  UserInv'
  <2>1. /\ UNCHANGED <<epoch, phase, user, stored, access, fresh, restoring>>
        /\ ending' = ending \ {w} /\ Joins(w) /\ w \in Write
        /\ w.op = "clear" /\ w.st = "queued"
      BY <1>1, <1>11, ClearShape
      DEF ClearPersistedSession, Known2, TypeInv, EndingsAreClears
  <2>2. \A i \in DOMAIN writes' : writes'[i].op = "signin" => writes'[i].epoch = epoch
      BY <2>1 DEF Joins, UserInv
  <2>3. AwaitsClear => AwaitsClear'
      BY <2>1 DEF AwaitsClear, Clearing, Joins
  <2> QED
      BY <1>1, <2>1, <2>2, <2>3, JoinedWaits, UserKept
<1> QED
    BY <1>2, <1>3, <1>4, <1>5, <1>6, <1>7, <1>8, <1>9, <1>10, <1>11, StepKinds

UserSafe == Inv /\ UserInv

LEMMA UserSafeInductive ==
    ASSUME ~SignInDuringRestore
    PROVE  (Init => UserSafe) /\ (UserSafe /\ [Next]_vars => UserSafe')
<1>1. Init => UserSafe
    BY InitTypeInv, InitRecoverable, InitUser DEF Inv, UserSafe
<1>2. UserSafe /\ [Next]_vars => UserSafe'
    BY NextInv, NextUser DEF UserSafe
<1> QED
    BY <1>1, <1>2

(* However sign-outs, sign-ins, refreshes and restarts interleave, the     *)
(* tokens in secure storage are those of the session shown as signed in    *)
(* (writeForEpoch), provided no sign-in overtakes a restore that clears.   *)
THEOREM TokensMatchUser ==
    ASSUME ~SignInDuringRestore
    PROVE  Spec => []TokensAreOfTheUser
<1>1. UserSafe => TokensAreOfTheUser
    BY DEF UserSafe, UserInv
<1> QED
    BY <1>1, UserSafeInductive, PTL DEF Spec

(* Once the latest sign-out or expiry has cleared, no write of an earlier  *)
(* session puts a token back (signOut, clearPersistedSession).             *)
THEOREM GuestIsClean ==
    ASSUME ~SignInDuringRestore
    PROVE  Spec => []GuestKeepsNothing
<1>1. UserSafe => GuestKeepsNothing
  <2> SUFFICES ASSUME UserSafe, Settled PROVE stored = NoToken /\ access = NoToken
      BY DEF GuestKeepsNothing
  <2>1. Known2 /\ UserInv
      BY KnownHere DEF UserSafe
  <2>2. ~AwaitsClear /\ epoch # 0 /\ ~SignInQueued /\ phase = "guest"
      BY <2>1 DEF Settled, AwaitsClear, Known2, InQueue, SignInQueued
  <2> QED
      BY <2>1, <2>2 DEF UserInv
<1> QED
    BY <1>1, UserSafeInductive, PTL DEF Spec

-----------------------------------------------------------------------------
(* What is forgotten was dead                                              *)

(* The session was created and can never be used again. *)
Ended(s) == sessions[s].state # "unborn" /\ ~Live(s)

(* What the server has judged: a rejected call's session has ended. *)
Judged(q) ==
    /\ req[q].st \notin {"free", "sent"} => req[q].kind = "refresh"
    /\ req[q].st = "missed" => req[q].at <= now
    /\ req[q].st = "rejected" => Ended(req[q].tok.sid)
CallsJudged == \A q \in Requests : Judged(q)

(* An expiry of the current epoch is queued, or one has begun. *)
Expiring ==
    \/ \E i \in DOMAIN writes : writes[i].op = "expire" /\ writes[i].epoch = epoch
    \/ RunsFirst("expire")
ExpiresTheDead == stored # NoToken /\ Expiring => Ended(stored.sid)

LEMMA InitDead == Init => CallsJudged /\ ExpiresTheDead
    BY DEF Init, ServerInit, CallsJudged, Judged, FreeCall, ExpiresTheDead

LEMMA EndedStays ==
    ASSUME TypeInv, [Next]_vars
    PROVE  \A s \in Sessions : Ended(s) => Ended(s)'
    BY SessionsStep DEF SessionSteps, Ended

(* A call that is not judged by the step. *)
Unjudged(q) ==
    \/ req'[q].st \in {"free", "sent"}
    \/ /\ req'[q].st = req[q].st /\ req'[q].kind = req[q].kind
       /\ req'[q].tok = req[q].tok /\ req'[q].at = req[q].at

LEMMA UnjudgedKept ==
    ASSUME TypeInv, [Next]_vars, now' \in Nat, now <= now',
           NEW q \in Requests, Judged(q), Unjudged(q)
    PROVE  Judged(q)'
<1>1. CASE req'[q].st \in {"free", "sent"}
    BY <1>1 DEF Judged
<1>2. CASE req'[q].st \notin {"free", "sent"}
  <2>1. /\ req'[q].st = req[q].st /\ req'[q].kind = req[q].kind
        /\ req'[q].tok = req[q].tok /\ req'[q].at = req[q].at
      BY <1>2 DEF Unjudged
  <2>2. req[q].tok.sid \in Sessions
      BY <1>2, <2>1 DEF TypeInv, CallsCarryTokens, Token
  <2>3. req[q].at \in Nat /\ now \in Nat
      BY DEF TypeInv, TypeOK, ServerTypeOK, Call
  <2>4. PICK s \in Sessions : s = req[q].tok.sid
      BY <2>2
  <2>5. req[q].st = "rejected" => Ended(s)'
      BY <2>4, EndedStays DEF Judged
  <2>6. req[q].st = "missed" => req[q].at <= now'
      BY <2>3 DEF Judged
  <2> QED
      BY <2>1, <2>4, <2>5, <2>6 DEF Judged, Ended, Live
<1> QED
    BY <1>1, <1>2

(* The device only sends calls and lets go of them. *)
LEMMA DeviceJudges ==
    ASSUME TypeInv, [Next]_vars, ~Server
    PROVE  now' = now /\ \A q \in Requests : Unjudged(q)
<1>1. req \in [Requests -> Call]
    BY ReqIsFunction
<1>2. ASSUME NEW r, req' = [req EXCEPT ![r] = FreeCall]
      PROVE  \A q \in Requests : Unjudged(q)
    BY <1>1, <1>2 DEF Unjudged, FreeCall
<1>3. ASSUME NEW r \in Requests, NEW kind, NEW tok, NEW waited, Send(r, kind, tok, waited)
      PROVE  \A q \in Requests : Unjudged(q)
    BY <1>1, <1>3 DEF Unjudged, Send
<1>4. ASSUME NEW q \in Requests, req'[q] = Abandon(q)
      PROVE  Unjudged(q)
    BY <1>1, <1>4 DEF Unjudged, Abandon, FreeCall, Call
<1>5. ASSUME NEW tok, RevokeAtServer(tok)
      PROVE  \A q \in Requests : Unjudged(q)
    BY <1>3, <1>5 DEF RevokeAtServer, Unjudged
<1>6. CASE UNCHANGED <<now, req>>
    BY <1>6 DEF Unjudged
<1>7. CASE RefreshStep
  <2>1. ASSUME NEW q \in Requests, StartRefresh(q)
        PROVE  now' = now /\ \A r \in Requests : Unjudged(r)
      BY <1>3, <2>1 DEF StartRefresh
  <2>2. ASSUME NEW e \in Epochs, ReceiveGranted(e) \/ ReceiveRejected(e) \/ ReceiveThrottled(e)
        PROVE  now' = now /\ \A r \in Requests : Unjudged(r)
      BY <1>2, <2>2 DEF ReceiveGranted, ReceiveRejected, ReceiveThrottled
  <2>3. ASSUME NEW e \in Epochs, GiveUp(e)
        PROVE  now' = now /\ \A r \in Requests : Unjudged(r)
    <3>1. /\ now' = now
          /\ \A r \in Requests : req'[r] = req[r] \/ req'[r] = Abandon(r)
        BY <1>1, <2>3 DEF GiveUp
    <3> QED
        BY <1>4, <3>1 DEF Unjudged
  <2>4. ASSUME NEW e \in Epochs, NEW q \in Requests, Retry(e, q)
        PROVE  now' = now /\ \A r \in Requests : Unjudged(r)
      BY <1>3, <2>4 DEF Retry
  <2> QED
      BY <1>7, <2>1, <2>2, <2>3, <2>4 DEF RefreshStep
<1>8. CASE DropWrite \/ FinishClear
    BY <1>5, <1>6, <1>8 DEF DropWrite, FinishClear, Unjudged
<1>9. CASE Restart
    BY <1>4, <1>9 DEF Restart
<1> QED
    BY <1>6, <1>7, <1>8, <1>9
    DEF Next, SessionStep, SignIn, HandleSignInSuccess, SignOut, ClearPersistedSession,
        WriteStep, BeginWrite, FinishSave, FinishSignIn, FinishExpire, RestoreStep,
        RestoreSignedIn, RestoreGuest, RestoreLook, RestoreClear, vars, serverVars

(* The server refuses only a call whose session has ended. *)
LEMMA ServerJudges ==
    ASSUME TypeInv, TokensKnown, CallsJudged, [Next]_vars, Server
    PROVE  CallsJudged'
<1>1. /\ now \in Nat /\ sessions \in [Sessions -> SessionDoc]
      /\ req \in [Requests -> Call]
    BY DEF TypeInv, TypeOK, ServerTypeOK
<1>2. now' \in Nat /\ now <= now'
  <2>1. now' = now \/ now' = now + 1
      BY DEF Server, ServerStep, Tick, CompareAndRotate, FindSession, RevokeForReuse,
             Logout, Throttle, LoseCall, RemoveSession
  <2> QED
      BY <1>1, <2>1
<1>3. ASSUME NEW q \in Requests, Unjudged(q)
      PROVE  Judged(q)'
    BY <1>2, <1>3, UnjudgedKept DEF CallsJudged
<1>4. ASSUME NEW q \in Requests, NEW outcome \in {"granted", "rejected", "throttled"},
             req' = Answer(q, outcome) \/ req' = [req EXCEPT ![q] = FreeCall]
      PROVE  /\ \A r \in Requests \ {q} : Unjudged(r)
             /\ \/ req'[q].st = "free"
                \/ /\ req'[q].st = outcome /\ req'[q].kind = req[q].kind
                   /\ req'[q].tok = req[q].tok
    BY <1>1, <1>4 DEF Answer, FreeCall, Unjudged, Call
<1>5. ASSUME NEW q \in Requests, NEW st \in {"missed", "reuse"},
             \/ req' = [req EXCEPT ![q].st = st]
             \/ req' = [req EXCEPT ![q].st = st, ![q].at = now]
      PROVE  /\ \A r \in Requests \ {q} : Unjudged(r)
             /\ req'[q].st = st /\ req'[q].kind = req[q].kind
             /\ req'[q].tok = req[q].tok
    BY <1>1, <1>5 DEF Unjudged, Call
<1>6. ASSUME NEW q \in Requests, CompareAndRotate(q)
      PROVE  CallsJudged'
  <2>1. req[q].st = "sent" /\ req[q].kind = "refresh" /\ now' = now
      BY <1>6 DEF CompareAndRotate
  <2>2. CASE req' = Answer(q, "granted")
      BY <1>3, <1>4, <2>1, <2>2 DEF CallsJudged, Judged
  <2>3. CASE req' = [req EXCEPT ![q].st = "missed", ![q].at = now]
    <3>1. req'[q].at <= now'
        BY <1>1, <2>1, <2>3 DEF Call
    <3>2. /\ \A r \in Requests \ {q} : Unjudged(r)
          /\ req'[q].st = "missed" /\ req'[q].kind = "refresh"
        BY <1>5, <2>1, <2>3
    <3>3. Judged(q)'
        BY <3>1, <3>2 DEF Judged
    <3> QED
        BY <1>3, <3>2, <3>3 DEF CallsJudged
  <2> QED
      BY <1>6, <2>2, <2>3 DEF CompareAndRotate
<1>7. ASSUME NEW q \in Requests, req[q].st \in {"missed", "reuse"}
      PROVE  /\ req[q].kind = "refresh" /\ req[q].tok.sid \in Sessions
             /\ sessions[req[q].tok.sid].state # "unborn"
    BY <1>7 DEF CallsJudged, Judged, TokensKnown, Known, TypeInv, CallsCarryTokens, Token
<1>8. ASSUME NEW q \in Requests, FindSession(q)
      PROVE  CallsJudged'
  <2>1. req[q].st = "missed" /\ now' = now /\ sessions' = sessions
      BY <1>8 DEF FindSession
  <2>2. CASE DeadAt(req[q].tok.sid, req[q].at)
    <3>1. req' = Answer(q, "rejected")
        BY <1>8, <2>2 DEF FindSession
    <3>2. req[q].at <= now /\ req[q].at \in Nat
        BY <1>1, <2>1 DEF CallsJudged, Judged, Call
    <3>3. ~Live(req[q].tok.sid)
      <4>1. sessions[req[q].tok.sid].expiresAt \in Int
          BY <1>1, <1>7, <2>1 DEF SessionDoc
      <4> QED
          BY <1>1, <2>2, <3>2, <4>1 DEF DeadAt, Live
    <3>4. /\ \A r \in Requests \ {q} : Unjudged(r)
          /\ \/ req'[q].st = "free"
             \/ /\ req'[q].st = "rejected" /\ req'[q].kind = "refresh"
                /\ req'[q].tok = req[q].tok
        BY <1>4, <1>7, <2>1, <3>1
    <3>5. Judged(q)'
        BY <1>7, <2>1, <3>3, <3>4 DEF Judged, Ended, Live
    <3> QED
        BY <1>3, <3>4, <3>5 DEF CallsJudged
  <2>3. CASE req' = Answer(q, "granted")
      BY <1>3, <1>4, <1>7, <2>1, <2>3 DEF CallsJudged, Judged
  <2>4. CASE req' = [req EXCEPT ![q].st = "reuse"]
    <3>1. /\ \A r \in Requests \ {q} : Unjudged(r)
          /\ req'[q].st = "reuse" /\ req'[q].kind = "refresh"
        BY <1>5, <1>7, <2>1, <2>4
    <3>2. Judged(q)'
        BY <3>1 DEF Judged
    <3> QED
        BY <1>3, <3>1, <3>2 DEF CallsJudged
  <2> QED
      BY <1>8, <2>2, <2>3, <2>4 DEF FindSession
<1>9. ASSUME NEW q \in Requests, RevokeForReuse(q)
      PROVE  CallsJudged'
  <2>1. /\ req[q].st = "reuse" /\ now' = now /\ sessions' = Revoked(req[q].tok.sid)
        /\ req' = Answer(q, "rejected")
      BY <1>9 DEF RevokeForReuse
  <2>2. PICK s \in Sessions : s = req[q].tok.sid /\ sessions[s].state # "unborn"
      BY <1>7, <2>1
  <2>3. Ended(s)'
      BY <1>1, <2>1, <2>2 DEF Revoked, Ended, Live, SessionDoc
  <2>4. /\ \A r \in Requests \ {q} : Unjudged(r)
        /\ \/ req'[q].st = "free"
           \/ /\ req'[q].st = "rejected" /\ req'[q].kind = "refresh"
              /\ req'[q].tok = req[q].tok
      BY <1>4, <1>7, <2>1
  <2>5. Judged(q)'
      BY <2>2, <2>3, <2>4 DEF Judged, Ended, Live
  <2> QED
      BY <1>3, <2>4, <2>5 DEF CallsJudged
<1>10. ASSUME NEW q \in Requests, Throttle(q)
       PROVE  CallsJudged'
  <2>1. req[q].kind = "refresh" /\ req' = Answer(q, "throttled")
      BY <1>10 DEF Throttle
  <2> QED
      BY <1>3, <1>4, <2>1 DEF CallsJudged, Judged
<1>11. ASSUME NEW q \in Requests, Logout(q) \/ LoseCall(q)
       PROVE  CallsJudged'
  <2>1. \A r \in Requests : Unjudged(r)
      BY <1>1, <1>11 DEF Logout, LoseCall, Unjudged, FreeCall
  <2> QED
      BY <1>3, <2>1 DEF CallsJudged
<1>12. CASE UNCHANGED req
  <2>1. \A r \in Requests : Unjudged(r)
      BY <1>12 DEF Unjudged
  <2> QED
      BY <1>3, <2>1 DEF CallsJudged
<1> QED
    BY <1>6, <1>8, <1>9, <1>10, <1>11, <1>12
    DEF Server, ServerStep, Tick, RemoveSession

LEMMA NextJudged ==
    ASSUME TypeInv, TokensKnown, CallsJudged, [Next]_vars
    PROVE  CallsJudged'
<1>1. CASE ~Server
  <2>1. now' = now /\ \A q \in Requests : Unjudged(q)
      BY <1>1, DeviceJudges
  <2>2. now' \in Nat /\ now <= now'
      BY <2>1 DEF TypeInv, TypeOK, ServerTypeOK
  <2> QED
      BY <2>1, <2>2, UnjudgedKept DEF CallsJudged
<1> QED
    BY <1>1, ServerJudges

(* A step that stores nothing new and starts no expiry. *)
LEMMA ExpiresKept ==
    ASSUME TypeInv, [Next]_vars, ExpiresTheDead, Expiring' => Expiring,
           stored' = stored \/ stored' = NoToken
    PROVE  ExpiresTheDead'
<1>1. SUFFICES ASSUME stored' # NoToken, Expiring'
               PROVE  Ended(stored.sid)'
    BY DEF ExpiresTheDead
<1>2. PICK s \in Sessions : stored' = stored /\ s = stored.sid /\ Ended(s)
    BY <1>1 DEF ExpiresTheDead, TypeInv, TypeOK, Token
<1>3. Ended(s)'
    BY <1>2, EndedStays
<1> QED
    BY <1>2, <1>3 DEF Ended, Live

(* A write that joins the queue expires nothing new unless it says so. *)
LEMMA JoinedExpires ==
    ASSUME Known2, NEW w \in Write, Joins(w), w.st = "queued", w.op # "expire",
           epoch' = epoch \/ epoch' = epoch + 1
    PROVE  Expiring' => Expiring
<1>1. \A i \in DOMAIN writes' : writes'[i].op = "expire" => writes'[i] = writes[i]
                                                     /\ i \in DOMAIN writes
    BY DEF Joins
<1>2. \A i \in DOMAIN writes : writes[i].epoch # epoch + 1
    BY WritesAreWrites DEF Known2, NothingFromTheFuture
<1> QED
    BY <1>1, <1>2 DEF Expiring, RunsFirst

LEMMA NextExpires ==
    ASSUME Inv, CallsJudged, ExpiresTheDead, [Next]_vars
    PROVE  ExpiresTheDead'
<1>1. /\ Known2 /\ TypeInv /\ CallsOfRefreshes
    BY KnownHere DEF Inv, RecoverableInv
<1>2. CASE Server \/ UNCHANGED vars
    BY <1>1, <1>2, ExpiresKept DEF Server, vars, authVars, Expiring, RunsFirst
<1>3. CASE RestoreStep
  <2>1. UNCHANGED <<epoch, writes>> /\ (stored' = stored \/ stored' = NoToken)
      BY <1>3 DEF RestoreStep, RestoreSignedIn, RestoreGuest, RestoreLook, RestoreClear
  <2> QED
      BY <1>1, <2>1, ExpiresKept DEF Expiring, RunsFirst
<1>4. CASE RefreshStep
  <2>1. UNCHANGED <<epoch, stored>>
      BY <1>1, <1>4, RefreshStepShape DEF RefreshShape
  <2>2. CASE UNCHANGED writes
      BY <1>1, <2>1, <2>2, ExpiresKept DEF Expiring, RunsFirst
  <2>3. ASSUME NEW e \in Epochs, ReceiveGranted(e)
        PROVE  ExpiresTheDead'
    <3>1. WriteOf("save", e, Successor(refresh[e].tok)) \in Write
        BY <1>1, <2>3, SuccessorType, WriteOfType
        DEF ReceiveGranted, Waiting, TypeInv, RefreshesCarryTokens
    <3>2. PICK w \in Write : Joins(w) /\ w.st = "queued" /\ w.op = "save"
        BY <1>1, <2>3, <3>1, QueuedJoins DEF ReceiveGranted, WriteOf
    <3> QED
        BY <1>1, <2>1, <3>2, JoinedExpires, ExpiresKept
  <2>4. ASSUME NEW e \in Epochs, ReceiveRejected(e), e = epoch
        PROVE  ExpiresTheDead'
    <3>1. Waiting(e) /\ req[refresh[e].req].st = "rejected"
          /\ now' = now /\ sessions' = sessions
        BY <2>4 DEF ReceiveRejected
    <3>2. stored = refresh[e].tok /\ req[refresh[e].req].tok = refresh[e].tok
        BY <1>1, <2>4, <3>1 DEF Known2, RefreshesStored, CallsOfRefreshes, Waiting
    <3>3. refresh[e].req \in Requests
        BY <1>1, <3>1 DEF TypeInv, RefreshesCarryTokens
    <3>4. Ended(stored.sid)
        BY <3>1, <3>2, <3>3 DEF CallsJudged, Judged
    <3> QED
        BY <2>1, <3>1, <3>4 DEF ExpiresTheDead, Ended, Live
  <2> QED
      BY <1>4, <2>2, <2>3, <2>4
      DEF RefreshStep, StartRefresh, ReceiveRejected, ReceiveThrottled, GiveUp, Retry
<1>5. CASE Restart
    BY <1>5 DEF Restart, ExpiresTheDead, Expiring, RunsFirst
<1>6. CASE BeginWrite
  <2>1. StartsToRun /\ writes[1].epoch = epoch /\ epoch' = epoch
        /\ (stored' = stored \/ stored' = NoToken \/ writes[1].op \in {"signin", "save"})
      BY <1>1, <1>6, BeginWriteStartsToRun DEF BeginWrite, StartsToRun
  <2>2. Expiring' => Expiring
      BY <2>1 DEF StartsToRun, Expiring, RunsFirst
  <2>3. CASE writes[1].op \in {"signin", "save"}
    <3>1. \A i \in DOMAIN writes : ~(writes[i].op = "expire" /\ writes[i].epoch = epoch)
      <4>1. CASE writes[1].op = "save"
          BY <1>1, <2>1, <4>1 DEF Known2, OneOutcome, Outcome, StartsToRun
      <4>2. CASE writes[1].op = "signin"
        <5>1. refresh[epoch].pc = "idle"
            BY <1>1, <2>1, <4>2 DEF Known2, PhaseParts, SigningIn, StartsToRun
        <5> QED
            BY <1>1, <5>1 DEF Known2, OneOutcome, Outcome
      <4> QED
          BY <2>3, <4>1, <4>2
    <3>2. ~Expiring'
        BY <2>1, <2>3, <3>1 DEF Expiring, RunsFirst, StartsToRun
    <3> QED
        BY <3>2 DEF ExpiresTheDead
  <2> QED
      BY <1>1, <2>1, <2>2, <2>3, ExpiresKept
<1>7. CASE FinishWrite
  <2>1. Leaves /\ (epoch' = epoch \/ epoch' = epoch + 1)
        /\ (stored' = stored \/ stored' = NoToken)
      BY <1>1, <1>7, FinishShape
      DEF FinishWrite, DropWrite, FinishSave, FinishSignIn, FinishExpire, FinishClear,
          EndSession
  <2>2. ~RunsFirst("expire")'
      BY <1>1, <2>1, WritesAreWrites DEF Leaves, RunsFirst, OnlyTheFirstRuns, Known2
  <2>3. \A i \in DOMAIN writes : writes[i].epoch # epoch + 1
      BY <1>1, WritesAreWrites DEF Known2, NothingFromTheFuture
  <2>4. Expiring' => Expiring
      BY <2>1, <2>2, <2>3 DEF Leaves, Expiring
  <2> QED
      BY <1>1, <2>1, <2>4, ExpiresKept
<1>8. CASE HandleSignInSuccess
  <2>1. epoch' = epoch + 1 /\ stored' = stored
      BY <1>8 DEF HandleSignInSuccess
  <2>2. PICK w \in Write : Joins(w) /\ w.st = "queued" /\ w.op = "signin"
      BY <1>1, <1>8, SignInShape
  <2> QED
      BY <1>1, <2>1, <2>2, JoinedExpires, ExpiresKept
<1>9. CASE SignOut
  <2>1. epoch' = epoch + 1 /\ stored' = stored /\ writes' = writes
      BY <1>9 DEF SignOut, EndSession
  <2>2. \A i \in DOMAIN writes : writes[i].epoch # epoch + 1
      BY <1>1, WritesAreWrites DEF Known2, NothingFromTheFuture
  <2>3. Expiring' => Expiring
      BY <2>1, <2>2 DEF Expiring, RunsFirst
  <2> QED
      BY <1>1, <2>1, <2>3, ExpiresKept
<1>10. ASSUME NEW s \in Sessions, SignIn(s)
       PROVE  ExpiresTheDead'
    BY <1>1, <1>10, ExpiresKept DEF SignIn, Expiring, RunsFirst
<1>11. ASSUME NEW w \in ending, ClearPersistedSession(w)
       PROVE  ExpiresTheDead'
  <2>1. Joins(w) /\ w \in Write /\ w.st = "queued" /\ w.op = "clear"
        /\ epoch' = epoch /\ stored' = stored
      BY <1>1, <1>11, ClearShape DEF ClearPersistedSession, TypeInv, EndingsAreClears
  <2> QED
      BY <1>1, <2>1, JoinedExpires, ExpiresKept
<1> QED
    BY <1>2, <1>3, <1>4, <1>5, <1>6, <1>7, <1>8, <1>9, <1>10, <1>11, StepKinds

DeadInv == UserSafe /\ CallsJudged /\ ExpiresTheDead

(* One step forgets the stored token only as the theorem says. *)
Forgets == /\ stored # NoToken /\ stored' = NoToken
           /\ ~(writes # <<>> /\ Head(writes).op = "clear")

LEMMA ForgetsTheDead ==
    ASSUME DeadInv, [Next]_vars, Forgets
    PROVE  ~Live(stored.sid)
<1>1. Known2 /\ UserInv /\ TypeInv
    BY KnownHere DEF DeadInv, UserSafe, Inv
<1>2. CASE RestoreStep
  <2>1. \/ ~Live(access.sid) /\ access # NoToken
        \/ RestoreClear
      BY <1>2
      DEF Forgets, RestoreStep, RestoreSignedIn, RestoreGuest, RestoreLook
  <2>2. ~RestoreClear
      BY <1>1 DEF RestoreClear, Known2, PhaseParts, Forgets
  <2> QED
      BY <1>1, <2>1, <2>2 DEF UserInv, Forgets
<1>3. ~BeginWrite
  <2>1. SUFFICES ASSUME BeginWrite PROVE FALSE
      OBVIOUS
  <2>2. stored' = writes[1].tok /\ writes[1].op \in {"signin", "save"} /\ 1 \in DOMAIN writes
      BY <1>1, <2>1, BeginWriteStartsToRun DEF BeginWrite, Forgets, StartsToRun
  <2> QED
      BY <1>1, <2>2, NoTokenIsNoToken DEF TypeInv, SavesCarryTokens, Forgets
<1>4. CASE FinishWrite
  <2>1. FinishExpire
      BY <1>4
      DEF FinishWrite, DropWrite, FinishSave, FinishSignIn, FinishClear, Running, Forgets
  <2>2. RunsFirst("expire")
      BY <1>1, <1>4, <2>1, FinishShape DEF FinishExpire, Running, RunsFirst, Leaves
  <2> QED
      BY <2>2 DEF DeadInv, ExpiresTheDead, Expiring, Ended, Forgets
<1>5. ~Server /\ ~RefreshStep /\ ~(UNCHANGED vars)
  <2>1. ~RefreshStep
      BY <1>1, RefreshStepShape DEF RefreshShape, Forgets
  <2> QED
      BY <2>1 DEF Server, authVars, vars, Forgets
<1> QED
    BY <1>2, <1>3, <1>4, <1>5, StepKinds
    DEF Restart, HandleSignInSuccess, SignOut, SignIn, ClearPersistedSession, Forgets

(* Apart from a sign-out's clear, the device forgets its refresh token     *)
(* only when the session can never be used again: no lost answer, timeout  *)
(* or throttled call costs a session (performRefresh, clearTokens),        *)
(* provided no sign-in overtakes a restore that clears.                    *)
THEOREM ForgetsOnlyTheDead ==
    ASSUME ~SignInDuringRestore
    PROVE  Spec => ForgetsOnlyDeadSessions
<1>1. Init => DeadInv
    BY InitDead, UserSafeInductive DEF DeadInv
<1>2. DeadInv /\ [Next]_vars => DeadInv'
  <2>1. SUFFICES ASSUME DeadInv, [Next]_vars PROVE DeadInv'
      OBVIOUS
  <2>2. Inv /\ TypeInv /\ TokensKnown
      BY <2>1 DEF DeadInv, UserSafe, Inv, RecoverableInv
  <2> QED
      BY <2>1, <2>2, NextJudged, NextExpires, UserSafeInductive DEF DeadInv
<1>3. DeadInv /\ [Next]_vars => [Forgets => ~Live(stored.sid)]_vars
    BY ForgetsTheDead
<1> QED
    BY <1>1, <1>2, <1>3, PTL DEF Spec, ForgetsOnlyDeadSessions, Forgets

-----------------------------------------------------------------------------
(* A live session is revoked for reuse only for a token replaced longer    *)
(* ago than the grace                                                      *)

InFlight(e) == refresh[e].pc # "idle"

(* Every call of a refresh is waited for by the refresh that sent it.      *)
Awaited(q) ==
    req[q].waited /\ \E e \in Epochs : Waiting(e) /\ refresh[e].req = q
CallsAwaited == \A q \in Requests : RefreshCall(q) => Awaited(q)

(* The outcome to write is of a refresh that waits for this write only.    *)
IsOutcome(w) == w.op \in {"save", "expire"}
OutcomesSaved ==
    /\ \A i \in DOMAIN writes :
         IsOutcome(writes[i]) => refresh[writes[i].epoch].pc = "saving"
    /\ \A i, j \in DOMAIN writes :
         /\ IsOutcome(writes[i]) /\ IsOutcome(writes[j])
         /\ writes[i].epoch = writes[j].epoch
         => i = j

(* No two refreshes are of one session: those of earlier epochs are of     *)
(* other sessions than the one that is stored or about to be.              *)
OneRefreshOfSession ==
    /\ \A d, e \in Epochs :
         InFlight(d) /\ InFlight(e) /\ refresh[d].tok.sid = refresh[e].tok.sid => d = e
    /\ phase # "guest" /\ stored # NoToken =>
         \A e \in Epochs : InFlight(e) /\ refresh[e].tok.sid = stored.sid => e = epoch
    /\ \A i \in DOMAIN writes : writes[i].op = "signin" =>
         \A e \in Epochs : InFlight(e) => refresh[e].tok.sid # writes[i].tok.sid

(* What a document says, at time t, of its last rotation. *)
Rotations(doc, t) ==
    \/ doc.cur = 0 /\ doc.prev = -1 /\ doc.rotatedAt = -1
    \/ doc.cur = doc.prev + 1 /\ doc.rotatedAt \in 0 .. t
DocsRotate == \A s \in Sessions : sessions[s].state = "stored" => Rotations(sessions[s], now)

(* The server is at a refresh's token or one past it: the refresh is the   *)
(* only one that could have moved it.                                      *)
RefreshesNearby ==
    \A e \in Epochs : InFlight(e) /\ Live(refresh[e].tok.sid) =>
        sessions[refresh[e].tok.sid].cur \in {refresh[e].tok.gen, refresh[e].tok.gen + 1}

(* A call that missed came after the rotation it missed. *)
MissedAfterRotation ==
    \A q \in Requests :
        req[q].st = "missed" /\ Live(req[q].tok.sid) =>
            /\ sessions[req[q].tok.sid].cur = req[q].tok.gen + 1
            /\ sessions[req[q].tok.sid].rotatedAt <= req[q].at

GraceInv == /\ CallsAwaited /\ OutcomesSaved /\ OneRefreshOfSession
            /\ DocsRotate /\ RefreshesNearby /\ MissedAfterRotation
            /\ ReuseOnlyAfterGrace

LEMMA InitGrace == Init => GraceInv
    BY DEF Init, ServerInit, GraceInv, CallsAwaited, RefreshCall, FreeCall, OutcomesSaved,
           OneRefreshOfSession, InFlight, Idle, DocsRotate, Unborn, RefreshesNearby,
           MissedAfterRotation, ReuseOnlyAfterGrace

LEMMA OutcomesStep ==
    ASSUME Known2, OutcomesSaved, [Next]_vars
    PROVE  OutcomesSaved'
<1> USE DEF OutcomesSaved
<1>1. /\ TypeInv /\ epoch \in Nat /\ refresh \in [Epochs -> Refresh]
      /\ \A i \in DOMAIN writes : /\ i \in Nat /\ writes[i] \in Write
                                  /\ writes[i].epoch \in Epochs
    BY WritesAreWrites DEF Known2, TypeInv, TypeOK
<1>2. ASSUME refresh' = refresh, writes' = writes
      PROVE  OutcomesSaved'
    BY <1>2
<1>3. ASSUME refresh' = refresh, NEW w, Joins(w), ~IsOutcome(w)
      PROVE  OutcomesSaved'
    BY <1>3 DEF Joins
<1>4. CASE Server \/ RestoreStep \/ UNCHANGED vars
    BY <1>2, <1>4, QuietSteps DEF Quiet
<1>5. CASE RefreshStep
  <2>1. PICK e \in Epochs :
          /\ \A d \in Epochs \ {e} : refresh'[d] = refresh[d]
          /\ \/ Starts(e) /\ UNCHANGED writes
             \/ GoesOn(e) /\ UNCHANGED writes
             \/ Finishes(e)
      BY <1>1, <1>5, RefreshStepShape DEF RefreshShape
  <2>2. refresh[e].pc # "saving"
      BY <2>1 DEF Starts, GoesOn, Finishes
  <2>3. \A i \in DOMAIN writes : IsOutcome(writes[i]) => writes[i].epoch # e
      BY <2>2
  <2>4. CASE UNCHANGED writes
      BY <1>1, <2>1, <2>3, <2>4
  <2>5. CASE Finishes(e)
    <3>1. PICK w \in Write : Joins(w) /\ w.epoch = e
        BY <2>5 DEF Finishes
    <3>2. refresh'[e].pc = "saving"
        BY <2>5 DEF Finishes
    <3> QED
        BY <1>1, <2>1, <2>3, <3>1, <3>2 DEF Joins
  <2> QED
      BY <2>1, <2>4, <2>5
<1>6. CASE Restart
    BY <1>6 DEF Restart
<1>7. CASE BeginWrite
  <2>1. StartsToRun /\ refresh' = refresh
      BY <1>1, <1>7, BeginWriteStartsToRun DEF BeginWrite
  <2> QED
      BY <2>1 DEF StartsToRun, IsOutcome
<1>8. CASE FinishWrite
  <2>1. Leaves
      BY <1>1, <1>8, FinishShape
  <2>2. \A e \in Epochs : refresh'[e] # refresh[e] =>
            e = writes[1].epoch /\ IsOutcome(writes[1])
      BY <1>1, <1>8, <2>1, FinishWriteShape DEF Leaves, IsOutcome
  <2>3. ASSUME NEW i \in DOMAIN writes', IsOutcome(writes'[i])
        PROVE  refresh'[writes'[i].epoch].pc = "saving"
    <3>1. PICK k \in DOMAIN writes : k # 1 /\ writes'[i] = writes[k]
      <4>1. i \in Nat \ {0} /\ i + 1 \in DOMAIN writes /\ writes'[i] = writes[i + 1]
          BY <2>1 DEF Leaves
      <4> QED
          BY <4>1
    <3>2. IsOutcome(writes[k]) /\ refresh[writes[k].epoch].pc = "saving"
        BY <2>3, <3>1
    <3>3. refresh'[writes[k].epoch] = refresh[writes[k].epoch]
        BY <1>1, <2>1, <2>2, <3>1, <3>2 DEF Leaves
    <3> QED
        BY <3>1, <3>2, <3>3
  <2> QED
      BY <1>1, <2>1, <2>3 DEF Leaves
<1>9. CASE HandleSignInSuccess
  <2>1. PICK w \in Write : Joins(w) /\ w.op = "signin"
      BY <1>1, <1>9, SignInShape
  <2>2. refresh' = refresh
      BY <1>9 DEF HandleSignInSuccess
  <2> QED
      BY <1>3, <2>1, <2>2 DEF IsOutcome
<1>10. ASSUME NEW w \in ending, ClearPersistedSession(w)
       PROVE  OutcomesSaved'
    BY <1>1, <1>3, <1>10, ClearShape DEF ClearPersistedSession, IsOutcome
<1>11. ASSUME (SignOut \/ \E s \in Sessions : SignIn(s))
       PROVE  OutcomesSaved'
    BY <1>2, <1>11 DEF SignOut, SignIn
<1> QED
    BY <1>4, <1>5, <1>6, <1>7, <1>8, <1>9, <1>10, <1>11, StepKinds

(* The server neither makes a call nor says who waits for it. *)
LEMMA ServerKeepsAwaited ==
    ASSUME TypeInv, ServerStep, NEW q \in Requests, RefreshCall(q)'
    PROVE  RefreshCall(q) /\ req'[q].waited = req[q].waited
<1> USE ReqIsFunction DEF RefreshCall
<1>1. ASSUME NEW r \in Requests, NEW outcome \in {"granted", "rejected", "throttled"},
             req[r].st # "free", req' = Answer(r, outcome)
      PROVE  RefreshCall(q) /\ req'[q].waited = req[q].waited
    BY <1>1 DEF Answer, Call, FreeCall
<1>2. ASSUME NEW r \in Requests, CompareAndRotate(r)
      PROVE  RefreshCall(q) /\ req'[q].waited = req[q].waited
    BY <1>1, <1>2 DEF CompareAndRotate, Call
<1>3. ASSUME NEW r \in Requests, FindSession(r)
      PROVE  RefreshCall(q) /\ req'[q].waited = req[q].waited
    BY <1>1, <1>3 DEF FindSession, Call
<1>4. ASSUME NEW r \in Requests, RevokeForReuse(r) \/ Throttle(r)
      PROVE  RefreshCall(q) /\ req'[q].waited = req[q].waited
    BY <1>1, <1>4 DEF RevokeForReuse, Throttle
<1>5. ASSUME NEW r \in Requests, Logout(r) \/ LoseCall(r)
      PROVE  RefreshCall(q) /\ req'[q].waited = req[q].waited
    BY <1>5 DEF Logout, LoseCall, FreeCall
<1> QED
    BY <1>2, <1>3, <1>4, <1>5 DEF ServerStep, Tick, RemoveSession

LEMMA AwaitedStep ==
    ASSUME ~LateDelivery, Known2, CallsOfRefreshes, OutcomesSaved, CallsAwaited,
           [Next]_vars
    PROVE  CallsAwaited'
<1>1. /\ TypeInv /\ refresh \in [Epochs -> Refresh] /\ req \in [Requests -> Call]
      /\ epoch \in Epochs
      /\ \A e \in Epochs : Waiting(e) => refresh[e].req \in Requests
    BY ReqIsFunction DEF Known2, TypeInv, TypeOK, RefreshesCarryTokens
(* A call stays awaited while its refresh is left alone. *)
<1>2. ASSUME NEW q \in Requests, RefreshCall(q), req'[q] = req[q],
             \A e \in Epochs : Waiting(e) /\ refresh[e].req = q => refresh'[e] = refresh[e]
      PROVE  Awaited(q)'
    BY <1>2 DEF CallsAwaited, Awaited, Waiting
(* A call that was freed is no call. *)
<1>3. ASSUME NEW q \in Requests, NEW e \in Epochs, Waiting(e), refresh[e].req = q,
             req' = [req EXCEPT ![q] = FreeCall],
             \A d \in Epochs \ {e} : refresh'[d] = refresh[d]
      PROVE  CallsAwaited'
  <2>1. ASSUME NEW r \in Requests, RefreshCall(r)'
        PROVE  Awaited(r)'
    <3>1. r # q /\ req'[r] = req[r] /\ RefreshCall(r)
        BY <1>1, <1>3, <2>1 DEF RefreshCall, FreeCall
    <3> QED
        BY <1>2, <1>3, <3>1
  <2> QED
      BY <2>1 DEF CallsAwaited
(* A call that was sent is awaited. *)
<1>4. ASSUME NEW q \in Requests, NEW e \in Epochs, NEW tok, Send(q, "refresh", tok, TRUE),
             ~Waiting(e), refresh'[e].pc \in {"first", "second"}, refresh'[e].req = q,
             \A d \in Epochs \ {e} : refresh'[d] = refresh[d]
      PROVE  CallsAwaited'
  <2>1. Awaited(q)'
      BY <1>1, <1>4 DEF Send, Awaited, Waiting
  <2>2. ASSUME NEW r \in Requests \ {q}, RefreshCall(r)'
        PROVE  Awaited(r)'
    <3>1. req'[r] = req[r] /\ RefreshCall(r)
        BY <1>1, <1>4, <2>2 DEF Send, RefreshCall
    <3> QED
        BY <1>2, <1>4, <3>1
  <2> QED
      BY <2>1, <2>2 DEF CallsAwaited
<1>5. CASE Server
  <2>1. refresh' = refresh /\ ServerStep
      BY <1>5 DEF Server, authVars
  <2> QED
      BY <1>1, <2>1, ServerKeepsAwaited DEF CallsAwaited, Awaited, Waiting
<1>6. ASSUME NEW q \in Requests, StartRefresh(q)
      PROVE  CallsAwaited'
  <2>1. /\ Send(q, "refresh", stored, TRUE) /\ ~Waiting(epoch)
        /\ refresh'[epoch].pc = "first" /\ refresh'[epoch].req = q
        /\ \A d \in Epochs \ {epoch} : refresh'[d] = refresh[d]
      BY <1>1, <1>6 DEF StartRefresh, Waiting
  <2> QED
      BY <1>1, <1>4, <2>1
<1>7. ASSUME NEW e \in Epochs, NEW q \in Requests, Retry(e, q)
      PROVE  CallsAwaited'
  <2>1. /\ Send(q, "refresh", refresh[e].tok, TRUE) /\ ~Waiting(e)
        /\ refresh'[e].pc = "second" /\ refresh'[e].req = q
        /\ \A d \in Epochs \ {e} : refresh'[d] = refresh[d]
      BY <1>1, <1>7 DEF Retry, Waiting, Refresh
  <2> QED
      BY <1>1, <1>4, <2>1
<1>8. ASSUME NEW e \in Epochs, ReceiveGranted(e) \/ ReceiveRejected(e) \/ ReceiveThrottled(e)
      PROVE  CallsAwaited'
  <2>1. /\ Waiting(e) /\ req' = [req EXCEPT ![refresh[e].req] = FreeCall]
        /\ \A d \in Epochs \ {e} : refresh'[d] = refresh[d]
      BY <1>1, <1>8 DEF ReceiveGranted, ReceiveRejected, ReceiveThrottled
  <2> QED
      BY <1>1, <1>3, <2>1
<1>9. ASSUME NEW e \in Epochs, GiveUp(e)
      PROVE  CallsAwaited'
  <2>1. /\ Waiting(e) /\ req' = [req EXCEPT ![refresh[e].req] = Abandon(refresh[e].req)]
        /\ \A d \in Epochs \ {e} : refresh'[d] = refresh[d]
        /\ req[refresh[e].req].st \notin {"missed", "reuse"}
      BY <1>1, <1>9 DEF GiveUp
  <2>2. Abandon(refresh[e].req) = FreeCall
      BY <1>1, <2>1 DEF Abandon, Call
  <2> QED
      BY <1>1, <1>3, <2>1, <2>2
<1>10. CASE Restart
  <2>1. \A q \in Requests : Abandon(q) = FreeCall
      BY <1>1, <1>10 DEF Restart, Abandon, Call
  <2> QED
      BY <1>10, <2>1 DEF Restart, CallsAwaited, RefreshCall, FreeCall
<1>11. CASE FinishWrite
  <2>1. \A e \in Epochs : refresh'[e] # refresh[e] => ~Waiting(e)
    <3>1. Leaves
        BY <1>1, <1>11, FinishShape
    <3> QED
        BY <1>1, <1>11, <3>1, FinishWriteShape DEF OutcomesSaved, IsOutcome, Leaves, Waiting
  <2>2. ASSUME NEW r \in Requests, RefreshCall(r)'
        PROVE  RefreshCall(r) /\ req'[r] = req[r]
    <3>1. req' = req \/ \E w \in {Head(writes)} : RevokeAtServer(w.tok)
        BY <1>11
        DEF FinishWrite, DropWrite, FinishSave, FinishSignIn, FinishExpire, FinishClear,
            serverVars
    <3> QED
        BY <1>1, <2>2, <3>1 DEF RevokeAtServer, Send, RefreshCall
  <2> QED
      BY <1>2, <2>1, <2>2 DEF CallsAwaited
<1>12. CASE UNCHANGED <<req, refresh>>
    BY <1>12 DEF CallsAwaited, RefreshCall, Awaited, Waiting
<1> QED
    BY <1>5, <1>6, <1>7, <1>8, <1>9, <1>10, <1>11, <1>12, StepKinds
    DEF RefreshStep, RestoreStep, RestoreSignedIn, RestoreGuest, RestoreLook, RestoreClear,
        vars, serverVars, authVars, BeginWrite, HandleSignInSuccess, SignOut, SignIn,
        ClearPersistedSession

LEMMA OneRefreshStep ==
    ASSUME Known2, UserInv, NewSessionUnused, OneRefreshOfSession, [Next]_vars
    PROVE  OneRefreshOfSession'
<1> USE DEF OneRefreshOfSession
<1>1. /\ TypeInv /\ PhaseParts /\ epoch \in Epochs /\ epoch \in Nat
      /\ refresh \in [Epochs -> Refresh]
    BY DEF Known2, TypeInv, TypeOK
(* A step that starts no refresh, stores no token and begins no session. *)
<1>2. ASSUME \A e \in Epochs : InFlight(e)' => InFlight(e) /\ refresh'[e].tok = refresh[e].tok,
             \A i \in DOMAIN writes' : writes'[i].op = "signin" =>
               \E j \in DOMAIN writes :
                 writes[j].op = "signin" /\ writes[j].tok = writes'[i].tok,
             \/ phase' = "guest" \/ stored' = NoToken
             \/ epoch' = epoch /\ phase # "guest" /\ stored # NoToken /\ stored'.sid = stored.sid
      PROVE  OneRefreshOfSession'
    BY <1>2
<1>3. ASSUME NEW w, Joins(w), w.op # "signin"
      PROVE  \A i \in DOMAIN writes' : writes'[i].op = "signin" =>
               \E j \in DOMAIN writes :
                 writes[j].op = "signin" /\ writes[j].tok = writes'[i].tok
    BY <1>3 DEF Joins
<1>4. CASE Server \/ UNCHANGED vars
    BY <1>4 DEF Server, vars, authVars, InFlight
<1>5. CASE RestoreStep
  <2>1. Quiet /\ epoch' = epoch
      BY <1>5, QuietSteps
  <2>2. \/ phase' = "guest" \/ stored' = NoToken
        \/ phase # "guest" /\ stored' = stored
      BY <1>1, <1>5
      DEF RestoreStep, RestoreSignedIn, RestoreGuest, RestoreLook, RestoreClear, PhaseParts
  <2> QED
      BY <1>2, <2>1, <2>2 DEF Quiet, InFlight
<1>6. CASE RefreshStep
  <2>1. UNCHANGED <<epoch, phase, stored, fresh>>
      BY <1>1, <1>6, RefreshStepShape DEF RefreshShape
  <2>2. PICK e \in Epochs :
          /\ \A d \in Epochs \ {e} : refresh'[d] = refresh[d]
          /\ \/ Starts(e) /\ UNCHANGED writes
             \/ GoesOn(e) /\ UNCHANGED writes
             \/ Finishes(e)
      BY <1>1, <1>6, RefreshStepShape DEF RefreshShape
  <2>3. CASE Starts(e) /\ UNCHANGED writes
    <3>1. /\ e = epoch /\ phase # "guest" /\ stored # NoToken
          /\ refresh'[e].tok = stored /\ ~InFlight(e)
        BY <2>3 DEF Starts, InFlight
    <3>2. \A d \in Epochs \ {e} : InFlight(d)' => InFlight(d) /\ refresh'[d].tok = refresh[d].tok
        BY <2>2 DEF InFlight
    <3>3. \A d \in Epochs \ {e} : InFlight(d)' => refresh'[d].tok.sid # stored.sid
        BY <3>1, <3>2
    <3>4. \A i \in DOMAIN writes : writes[i].op # "signin"
        BY <1>1, <3>1 DEF PhaseParts, SigningIn
    <3> QED
        BY <2>1, <2>3, <3>1, <3>2, <3>3, <3>4
  <2>4. CASE (GoesOn(e) /\ UNCHANGED writes) \/ Finishes(e)
    <3>1. \A d \in Epochs : InFlight(d)' => InFlight(d) /\ refresh'[d].tok = refresh[d].tok
        BY <2>2, <2>4 DEF GoesOn, Finishes, InFlight
    <3>2. writes' = writes \/ \E w \in Write : Joins(w) /\ w.op # "signin"
        BY <2>4 DEF Finishes
    <3>3. \A i \in DOMAIN writes' : writes'[i].op = "signin" =>
            \E j \in DOMAIN writes :
              writes[j].op = "signin" /\ writes[j].tok = writes'[i].tok
        BY <1>3, <3>2
    <3> QED
        BY <1>2, <2>1, <3>1, <3>3
  <2> QED
      BY <2>2, <2>3, <2>4
<1>7. CASE Restart
    BY <1>7 DEF Restart, InFlight, Idle
<1>8. CASE BeginWrite
  <2>1. /\ StartsToRun /\ writes[1].epoch = epoch /\ writes[1].st = "queued"
        /\ UNCHANGED <<epoch, phase, refresh>>
      BY <1>1, <1>8, BeginWriteStartsToRun DEF BeginWrite, StartsToRun
  <2>2. \A i \in DOMAIN writes' : writes'[i].op = "signin" =>
          \E j \in DOMAIN writes :
            writes[j].op = "signin" /\ writes[j].tok = writes'[i].tok
      BY <2>1 DEF StartsToRun
  <2>3. \/ phase' = "guest" \/ stored' = NoToken
        \/ phase # "guest" /\ stored' = stored
        \/ phase # "guest" /\ stored # NoToken /\ stored'.sid = stored.sid
    <3>1. CASE writes[1].op = "signin"
        BY <1>1, <2>1, <3>1 DEF PhaseParts, SigningIn, StartsToRun
    <3>2. CASE writes[1].op = "save"
      <4>1. /\ stored' = writes[1].tok /\ stored # NoToken /\ stored \in Token
            /\ writes[1].tok = Successor(stored)
          BY <1>8, <2>1, <3>2 DEF BeginWrite, StartsToRun, Known2, RefreshesStored, TypeInv, TypeOK
      <4>2. stored'.sid = stored.sid
          BY <4>1, SuccessorType
      <4> QED
          BY <2>1, <4>1, <4>2
    <3>3. CASE writes[1].op \in {"expire", "clear"}
        BY <1>8, <2>1, <3>3 DEF BeginWrite, StartsToRun
    <3> QED
        BY <1>1, <2>1, <3>1, <3>2, <3>3, WritesAreWrites DEF StartsToRun, Write
  <2> QED
      BY <1>2, <2>1, <2>2, <2>3 DEF InFlight
<1>9. CASE FinishWrite
  <2>1. /\ Leaves
        /\ \A e \in Epochs : InFlight(e)' => InFlight(e) /\ refresh'[e].tok = refresh[e].tok
      BY <1>1, <1>9, FinishShape, FinishWriteShape DEF InFlight
  <2>2. \A i \in DOMAIN writes' : writes'[i].op = "signin" =>
          \E j \in DOMAIN writes :
            writes[j].op = "signin" /\ writes[j].tok = writes'[i].tok
      BY <2>1 DEF Leaves
  <2>3. CASE DropWrite \/ FinishSave
    <3>1. UNCHANGED <<epoch, phase, stored>>
        BY <2>3 DEF DropWrite, FinishSave
    <3> QED
        BY <1>2, <2>1, <2>2, <3>1
  <2>4. CASE FinishSignIn
    <3>1. /\ Head(writes) = writes[1] /\ 1 \in DOMAIN writes /\ RunsFirst("signin")
          /\ UNCHANGED <<epoch, stored, refresh>>
        BY <2>1, <2>4 DEF FinishSignIn, Leaves, Running, RunsFirst
    <3>2. stored = writes[1].tok /\ writes[1].op = "signin"
        BY <3>1 DEF UserInv, RunsFirst
    <3>3. \A e \in Epochs : InFlight(e) => refresh[e].tok.sid # stored.sid
        BY <3>1, <3>2
    <3> QED
        BY <2>1, <2>2, <3>1, <3>3
  <2>5. CASE FinishExpire \/ FinishClear
    <3>1. stored' = NoToken
        BY <2>5 DEF FinishExpire, FinishClear
    <3> QED
        BY <1>2, <2>1, <2>2, <3>1
  <2> QED
      BY <1>9, <2>3, <2>4, <2>5 DEF FinishWrite
<1>10. CASE HandleSignInSuccess
  <2>1. PICK w \in Write : Joins(w) /\ w.op = "signin" /\ w.tok = fresh.tok
      BY <1>1, <1>10, SignInShape
  <2>2. /\ fresh # NoFresh /\ UNCHANGED <<phase, stored, refresh>>
      BY <1>10 DEF HandleSignInSuccess
  <2>3. phase' = "guest"
      BY <1>1, <2>2 DEF PhaseParts, SigningIn
  <2>4. \A e \in Epochs : InFlight(e) => refresh[e].tok.sid # fresh.tok.sid
      BY <2>2 DEF NewSessionUnused, Unused, InFlight
  <2>5. \A i \in DOMAIN writes' : \/ writes'[i].tok = fresh.tok
                                  \/ i \in DOMAIN writes /\ writes'[i] = writes[i]
      BY <2>1 DEF Joins
  <2> QED
      BY <2>2, <2>3, <2>4, <2>5 DEF InFlight
<1>11. CASE SignOut
  <2>1. phase' = "guest" /\ UNCHANGED <<refresh, writes>>
      BY <1>11 DEF SignOut, EndSession
  <2> QED
      BY <1>2, <2>1 DEF InFlight
<1>12. ASSUME NEW s \in Sessions, SignIn(s)
       PROVE  OneRefreshOfSession'
    BY <1>12 DEF SignIn, InFlight
<1>13. ASSUME NEW w \in ending, ClearPersistedSession(w)
       PROVE  OneRefreshOfSession'
  <2>1. Joins(w) /\ w.op = "clear" /\ UNCHANGED <<epoch, phase, stored, refresh>>
      BY <1>1, <1>13, ClearShape DEF ClearPersistedSession
  <2> QED
      BY <1>2, <1>3, <2>1 DEF InFlight
<1> QED
    BY <1>4, <1>5, <1>6, <1>7, <1>8, <1>9, <1>10, <1>11, <1>12, <1>13, StepKinds

LEMMA DocsStep ==
    ASSUME TypeInv, DocsRotate, [Next]_vars
    PROVE  DocsRotate'
<1>1. /\ sessions \in [Sessions -> SessionDoc] /\ now \in Nat /\ ServerTypeOK
      /\ CallsCarryTokens
    BY DEF TypeInv, TypeOK, ServerTypeOK
<1>2. SUFFICES ASSUME NEW s \in Sessions, sessions'[s].state = "stored"
               PROVE  Rotations(sessions'[s], now')
    BY DEF DocsRotate, Rotations
<1>3. CASE UNCHANGED <<now, sessions>>
    BY <1>2, <1>3 DEF DocsRotate, Rotations
<1>4. CASE Tick
    BY <1>1, <1>2, <1>4 DEF Tick, DocsRotate, Rotations
<1>5. ASSUME NEW r \in Sessions, now' = now, CreateSession(r)
      PROVE  Rotations(sessions'[s], now')
    BY <1>1, <1>2, <1>5 DEF CreateSession, NewSession, Unborn, DocsRotate, Rotations
<1>6. ASSUME NEW r \in Sessions, now' = now, sessions' = Revoked(r)
      PROVE  Rotations(sessions'[s], now')
  <2>1. /\ sessions'[s].state = sessions[s].state /\ sessions'[s].cur = sessions[s].cur
        /\ sessions'[s].prev = sessions[s].prev
        /\ sessions'[s].rotatedAt = sessions[s].rotatedAt
      BY <1>1, <1>6 DEF Revoked, SessionDoc
  <2> QED
      BY <1>2, <1>6, <2>1 DEF DocsRotate, Rotations
<1>7. ASSUME NEW r \in Sessions, now' = now, RemoveSession(r)
      PROVE  Rotations(sessions'[s], now')
  <2>1. s # r /\ sessions'[s] = sessions[s]
      BY <1>1, <1>2, <1>7 DEF RemoveSession, Removed, Unborn
  <2> QED
      BY <1>2, <1>7, <2>1 DEF DocsRotate, Rotations
<1>8. ASSUME NEW q \in Requests, CompareAndRotate(q)
      PROVE  Rotations(sessions'[s], now')
  <2>1. req[q].tok \in Token /\ req[q].tok.sid \in Sessions /\ req[q].tok.gen \in Nat /\ now' = now
      BY <1>1, <1>8 DEF CompareAndRotate, CallsCarryTokens, Token
  <2>2. CASE sessions'[s] = sessions[s]
      BY <1>2, <2>1, <2>2 DEF DocsRotate, Rotations
  <2>3. CASE sessions'[s] # sessions[s]
    <3>1. sessions'[s] = Rotated(req[q].tok) /\ s = req[q].tok.sid
        BY <1>1, <1>8, <2>3 DEF CompareAndRotate
    <3>2. /\ Rotated(req[q].tok).cur = req[q].tok.gen + 1
          /\ Rotated(req[q].tok).prev = req[q].tok.gen
          /\ Rotated(req[q].tok).rotatedAt = now
        BY <1>1, <2>1, SuccessorType DEF Rotated, SessionDoc
    <3> QED
        BY <1>1, <2>1, <3>1, <3>2 DEF Rotations
  <2> QED
      BY <2>2, <2>3
<1> QED
    BY <1>3, <1>4, <1>5, <1>6, <1>7, <1>8, StepChangesSessions DEF SessionChange

(* The calls in flight of one session are one call. *)
LEMMA OneCallOfSession ==
    ASSUME CallsAwaited, CallsOfRefreshes, OneRefreshOfSession,
           NEW q \in Requests, NEW r \in Requests, RefreshCall(q), RefreshCall(r),
           req[q].tok.sid = req[r].tok.sid
    PROVE  q = r
<1>1. PICK e \in Epochs : Waiting(e) /\ refresh[e].req = q
    BY DEF CallsAwaited, Awaited
<1>2. PICK d \in Epochs : Waiting(d) /\ refresh[d].req = r
    BY DEF CallsAwaited, Awaited
<1>3. refresh[e].tok = req[q].tok /\ refresh[d].tok = req[r].tok
    BY <1>1, <1>2 DEF CallsOfRefreshes
<1>4. InFlight(e) /\ InFlight(d)
    BY <1>1, <1>2 DEF Waiting, InFlight
<1> QED
    BY <1>1, <1>2, <1>3, <1>4 DEF OneRefreshOfSession

LEMMA NearbyStep ==
    ASSUME Inv, CallsAwaited, OneRefreshOfSession, RefreshesNearby, [Next]_vars
    PROVE  RefreshesNearby'
<1>1. /\ TypeInv /\ TokensKnown /\ CallsOfRefreshes /\ StoredRecoverable
      /\ SessionSteps /\ refresh \in [Epochs -> Refresh]
    BY SessionsStep DEF Inv, RecoverableInv, TypeInv, TypeOK
<1>2. SUFFICES ASSUME NEW e \in Epochs, InFlight(e)', Live(refresh[e].tok.sid)'
               PROVE  sessions'[refresh'[e].tok.sid].cur
                        \in {refresh'[e].tok.gen, refresh'[e].tok.gen + 1}
    BY DEF RefreshesNearby
<1>3. CASE InFlight(e) /\ refresh'[e].tok = refresh[e].tok
  <2>1. PICK t \in Token : t = refresh[e].tok
      BY <1>1, <1>3 DEF TypeInv, RefreshesCarryTokens, InFlight
  <2>2. t.sid \in Sessions /\ t.gen \in Nat /\ sessions[t.sid].cur \in Nat
      BY <1>1, <2>1 DEF Token, TypeInv, TypeOK, ServerTypeOK, SessionDoc
  <2>3. Live(t.sid)'
      BY <1>2, <1>3, <2>1 DEF Live
  <2>4. Live(t.sid)
      BY <1>1, <1>3, <2>1, <2>2, <2>3 DEF SessionSteps, TokensKnown, Known, InFlight
  <2>5. sessions[t.sid].cur \in {t.gen, t.gen + 1}
      BY <1>3, <2>1, <2>4 DEF RefreshesNearby
  <2>6. sessions'[t.sid].cur \in {t.gen, t.gen + 1}
    <3>1. CASE sessions'[t.sid].cur = sessions[t.sid].cur
        BY <2>5, <3>1
    <3>2. CASE sessions'[t.sid].cur # sessions[t.sid].cur
      <4>1. /\ sessions'[t.sid].cur = sessions[t.sid].cur + 1
            /\ \E q \in Requests :
                 /\ RefreshCall(q) /\ req[q].tok.sid = t.sid
                 /\ req[q].tok.gen = sessions[t.sid].cur
          BY <1>1, <2>2, <2>4, <3>2 DEF SessionSteps, Live
      <4>2. PICK q \in Requests : /\ RefreshCall(q) /\ req[q].tok.sid = t.sid
                                  /\ req[q].tok.gen = sessions[t.sid].cur
          BY <4>1
      <4>3. PICK d \in Epochs : Waiting(d) /\ refresh[d].req = q
          BY <4>2 DEF CallsAwaited, Awaited
      <4>4. refresh[d].tok = req[q].tok /\ InFlight(d)
          BY <1>1, <4>3 DEF CallsOfRefreshes, Waiting, InFlight
      <4>5. d = e
          BY <1>3, <2>1, <4>2, <4>4 DEF OneRefreshOfSession
      <4> QED
          BY <2>1, <4>1, <4>2, <4>4, <4>5
    <3> QED
        BY <3>1, <3>2
  <2> QED
      BY <1>3, <2>1, <2>6
<1>4. CASE ~(InFlight(e) /\ refresh'[e].tok = refresh[e].tok)
  <2>1. RefreshStep
      BY <1>1, <1>2, <1>4, FinishWriteShape, StepKinds
      DEF Server, RestoreStep, RestoreSignedIn, RestoreGuest, RestoreLook, RestoreClear,
          vars, authVars, Restart, Idle, BeginWrite, HandleSignInSuccess, SignOut, SignIn,
          ClearPersistedSession, InFlight
  <2>2. Starts(e) /\ sessions' = sessions
      BY <1>1, <1>2, <1>4, <2>1, RefreshStepShape
      DEF RefreshShape, GoesOn, Finishes, InFlight
  <2>3. stored # NoToken /\ refresh'[e].tok = stored /\ stored \in Token
      BY <1>1, <2>2 DEF Starts, TypeInv, TypeOK
  <2>4. now' = now
      BY <2>1 DEF RefreshStep, StartRefresh, ReceiveGranted, ReceiveRejected,
                  ReceiveThrottled, GiveUp, Retry
  <2>5. Live(stored.sid)
      BY <1>2, <2>2, <2>3, <2>4 DEF Live
  <2> QED
      BY <1>1, <2>2, <2>3, <2>5 DEF StoredRecoverable
<1> QED
    BY <1>3, <1>4

(* Where a call that missed, or is judged reuse, comes from. *)
MissedSource(q) ==
    \/ req'[q].st = req[q].st /\ req'[q].tok = req[q].tok /\ req'[q].at = req[q].at
    \/ CompareAndRotate(q) /\ sessions' = sessions /\ req'[q].st = "missed"
         /\ req'[q].tok = req[q].tok /\ req'[q].at = now
         /\ ~(Live(req[q].tok.sid) /\ sessions[req[q].tok.sid].cur = req[q].tok.gen)
    \/ FindSession(q) /\ req'[q].st = "reuse" /\ req'[q].tok = req[q].tok
         /\ ~IsRetryOfLastRotation(q)

LEMMA MissedStep ==
    ASSUME TypeInv, [Next]_vars, NEW q \in Requests, req'[q].st \in {"missed", "reuse"}
    PROVE  MissedSource(q)
<1>1. req \in [Requests -> Call]
    BY ReqIsFunction
<1>2. CASE ~Server
    BY <1>2, DeviceJudges DEF Unjudged, MissedSource
<1>3. ASSUME NEW r \in Requests, NEW outcome \in {"granted", "rejected", "throttled"},
             req' = Answer(r, outcome) \/ req' = [req EXCEPT ![r] = FreeCall]
      PROVE  req'[q] = req[q]
    BY <1>1, <1>3 DEF Answer, FreeCall, Call
<1>4. ASSUME NEW r \in Requests, CompareAndRotate(r)
      PROVE  MissedSource(q)
  <2>1. CASE req' = Answer(r, "granted")
      BY <1>3, <2>1 DEF MissedSource
  <2>2. CASE req' # Answer(r, "granted")
    <3>1. /\ req' = [req EXCEPT ![r].st = "missed", ![r].at = now] /\ sessions' = sessions
          /\ ~(Live(req[r].tok.sid) /\ sessions[req[r].tok.sid].cur = req[r].tok.gen)
        BY <1>4, <2>2 DEF CompareAndRotate
    <3> QED
        BY <1>1, <1>4, <3>1 DEF MissedSource, Call
  <2> QED
      BY <2>1, <2>2
<1>5. ASSUME NEW r \in Requests, FindSession(r)
      PROVE  MissedSource(q)
  <2>1. CASE req' = Answer(r, "granted") \/ req' = Answer(r, "rejected")
      BY <1>3, <2>1 DEF MissedSource
  <2>2. CASE ~(req' = Answer(r, "granted") \/ req' = Answer(r, "rejected"))
    <3>1. req' = [req EXCEPT ![r].st = "reuse"] /\ ~IsRetryOfLastRotation(r)
        BY <1>5, <2>2 DEF FindSession
    <3> QED
        BY <1>1, <1>5, <3>1 DEF MissedSource, Call
  <2> QED
      BY <2>1, <2>2
<1>6. ASSUME NEW r \in Requests, \/ RevokeForReuse(r) \/ Throttle(r) \/ Logout(r) \/ LoseCall(r)
      PROVE  MissedSource(q)
    BY <1>3, <1>6 DEF RevokeForReuse, Throttle, Logout, LoseCall, MissedSource
<1>7. CASE req' = req
    BY <1>7 DEF MissedSource
<1> QED
    BY <1>2, <1>4, <1>5, <1>6, <1>7 DEF Server, ServerStep, Tick, RemoveSession

(* The document that a call past its first operation is judged by stays as *)
(* it is, unless its session ends.                                         *)
LEMMA JudgedDocStays ==
    ASSUME TypeInv, TokensKnown, CallsAwaited, CallsOfRefreshes, OneRefreshOfSession,
           [Next]_vars, NEW q \in Requests, RefreshCall(q), req[q].st # "sent",
           NEW s \in Sessions, s = req[q].tok.sid, Live(s)'
    PROVE  /\ Live(s)
           /\ sessions'[s].cur = sessions[s].cur
           /\ sessions'[s].rotatedAt = sessions[s].rotatedAt
<1>1. /\ sessions \in [Sessions -> SessionDoc] /\ sessions[s].state # "unborn"
      /\ CallsCarryTokens
    BY DEF TypeInv, TypeOK, ServerTypeOK, TokensKnown, Known, RefreshCall
<1>2. Live(s)
    BY <1>1, SessionsStep DEF SessionSteps
<1>3. CASE sessions' = sessions
    BY <1>2, <1>3
<1>4. ASSUME NEW r \in Sessions, \/ CreateSession(r) \/ sessions' = Revoked(r)
                                \/ RemoveSession(r)
      PROVE  /\ sessions'[s].cur = sessions[s].cur
             /\ sessions'[s].rotatedAt = sessions[s].rotatedAt
  <2>1. CASE CreateSession(r)
      BY <1>1, <2>1 DEF CreateSession
  <2>2. CASE sessions' = Revoked(r)
      BY <1>1, <2>2 DEF Revoked, SessionDoc
  <2>3. CASE RemoveSession(r)
    <3>1. sessions'[s].state = "stored" /\ Removed(r).state = "removed"
        BY DEF Live, Removed, Unborn
    <3>2. sessions' = [sessions EXCEPT ![r] = Removed(r)]
        BY <2>3 DEF RemoveSession
    <3> QED
        BY <1>1, <3>1, <3>2
  <2> QED
      BY <1>4, <2>1, <2>2, <2>3
<1>5. ASSUME NEW r \in Requests, CompareAndRotate(r)
      PROVE  sessions'[s] = sessions[s]
  <2>1. RefreshCall(r) /\ req[r].st = "sent"
      BY <1>5 DEF CompareAndRotate, RefreshCall
  <2>2. req[r].tok.sid # s
      BY <2>1, OneCallOfSession
  <2> QED
      BY <1>1, <1>5, <2>2 DEF CompareAndRotate
<1> QED
    BY <1>2, <1>3, <1>4, <1>5, StepChangesSessions DEF SessionChange, Tick

LEMMA ReuseStep ==
    ASSUME Inv, CallsJudged, GraceInv, [Next]_vars
    PROVE  MissedAfterRotation' /\ ReuseOnlyAfterGrace'
<1>1. /\ TypeInv /\ TokensKnown /\ CallsOfRefreshes
      /\ CallsAwaited /\ OneRefreshOfSession /\ DocsRotate /\ RefreshesNearby
      /\ MissedAfterRotation /\ ReuseOnlyAfterGrace
      /\ sessions \in [Sessions -> SessionDoc] /\ req \in [Requests -> Call] /\ now \in Nat
      /\ Grace \in Nat
    BY RotationAssumption DEF Inv, RecoverableInv, GraceInv, TypeInv, TypeOK, ServerTypeOK
<1>2. now' \in Nat /\ now <= now'
  <2>1. now' = now \/ now' = now + 1
      BY <1>1, StepChangesSessions DEF SessionChange, Tick, CompareAndRotate
  <2> QED
      BY <1>1, <2>1
<1>3. SUFFICES ASSUME NEW q \in Requests, req'[q].st \in {"missed", "reuse"},
                      NEW s \in Sessions, s = req'[q].tok.sid, Live(s)'
               PROVE  /\ req'[q].st = "missed" =>
                           /\ sessions'[s].cur = req'[q].tok.gen + 1
                           /\ sessions'[s].rotatedAt <= req'[q].at
                      /\ req'[q].st = "reuse" => now' - sessions'[s].rotatedAt > Grace
  <2>1. ASSUME NEW q \in Requests, req'[q].st \in {"missed", "reuse"}
        PROVE  req'[q].tok.sid \in Sessions
      BY <1>1, <2>1, NextTypeInv DEF TypeInv, CallsCarryTokens, Token
  <2>2. ASSUME NEW q \in Requests, req'[q].st \in {"missed", "reuse"},
               Live(req[q].tok.sid)'
        PROVE  \E s \in Sessions : s = req'[q].tok.sid /\ Live(s)'
      BY <2>1, <2>2 DEF Live
  <2> QED
      BY <2>2 DEF MissedAfterRotation, ReuseOnlyAfterGrace
<1>4. MissedSource(q)
    BY <1>1, <1>3, MissedStep
<1>5. CASE req'[q].st = req[q].st /\ req'[q].tok = req[q].tok /\ req'[q].at = req[q].at
  <2>1. RefreshCall(q)
      BY <1>3, <1>5 DEF CallsJudged, Judged, RefreshCall
  <2>2. /\ Live(s) /\ sessions'[s].cur = sessions[s].cur
        /\ sessions'[s].rotatedAt = sessions[s].rotatedAt
      BY <1>1, <1>3, <1>5, <2>1, JudgedDocStays
  <2>3. sessions[s].rotatedAt \in Int
      BY <1>1 DEF SessionDoc
  <2>4. req[q].st = "reuse" => now - sessions[s].rotatedAt > Grace
      BY <1>1, <1>3, <1>5, <2>2 DEF ReuseOnlyAfterGrace
  <2>5. req[q].st = "missed" => /\ sessions[s].cur = req[q].tok.gen + 1
                                /\ sessions[s].rotatedAt <= req[q].at
      BY <1>1, <1>3, <1>5, <2>2 DEF MissedAfterRotation
  <2> QED
      BY <1>1, <1>2, <1>5, <2>2, <2>3, <2>4, <2>5
<1>6. CASE CompareAndRotate(q) /\ sessions' = sessions /\ req'[q].st = "missed"
         /\ req'[q].tok = req[q].tok /\ req'[q].at = now
         /\ ~(Live(req[q].tok.sid) /\ sessions[req[q].tok.sid].cur = req[q].tok.gen)
  <2>1. Live(s)
      BY <1>3, <1>6 DEF CompareAndRotate, Live
  <2>2. RefreshCall(q) /\ s = req[q].tok.sid
      BY <1>3, <1>6 DEF CompareAndRotate, RefreshCall
  <2>3. PICK e \in Epochs : Waiting(e) /\ refresh[e].req = q
      BY <1>1, <2>2 DEF CallsAwaited, Awaited
  <2>4. refresh[e].tok = req[q].tok /\ InFlight(e)
      BY <1>1, <2>3 DEF CallsOfRefreshes, Waiting, InFlight
  <2>5. sessions[s].cur \in {req[q].tok.gen, req[q].tok.gen + 1}
      BY <1>1, <2>1, <2>2, <2>4 DEF RefreshesNearby
  <2>6. sessions[s].cur = req[q].tok.gen + 1
      BY <1>6, <2>1, <2>2, <2>5
  <2>7. sessions[s].rotatedAt <= now
      BY <1>1, <2>1 DEF DocsRotate, Rotations, Live
  <2> QED
      BY <1>6, <2>6, <2>7
<1>7. CASE FindSession(q) /\ req'[q].st = "reuse" /\ req'[q].tok = req[q].tok
             /\ ~IsRetryOfLastRotation(q)
  <2>1. /\ req[q].st = "missed" /\ sessions' = sessions /\ now' = now /\ s = req[q].tok.sid
        /\ req[q].tok \in Token
      BY <1>1, <1>3, <1>7 DEF FindSession, TypeInv, CallsCarryTokens
  <2>2. Live(s)
      BY <1>3, <2>1 DEF Live
  <2>3. /\ sessions[s].cur = req[q].tok.gen + 1 /\ sessions[s].rotatedAt <= req[q].at
        /\ req[q].at <= now /\ req[q].at \in Nat
      BY <1>1, <2>1, <2>2 DEF MissedAfterRotation, CallsJudged, Judged, Call
  <2>4. /\ Successor(req[q].tok).gen = req[q].tok.gen + 1 /\ req[q].tok.gen \in Nat
        /\ sessions[s].prev \in Int
      BY <1>1, <2>1, SuccessorType DEF Token, SessionDoc
  <2>5. sessions[s].prev = req[q].tok.gen /\ sessions[s].rotatedAt \in Nat
      BY <1>1, <2>2, <2>3, <2>4 DEF DocsRotate, Rotations, Live
  <2>6. req[q].at - sessions[s].rotatedAt > Grace
      BY <1>1, <1>7, <2>1, <2>3, <2>4, <2>5 DEF IsRetryOfLastRotation
  <2> QED
      BY <1>1, <1>7, <2>1, <2>3, <2>5, <2>6
<1> QED
    BY <1>4, <1>5, <1>6, <1>7 DEF MissedSource

(* A live session is revoked for reuse only when the token presented was   *)
(* replaced longer ago than the grace (isRetryOfLastRotation): with calls  *)
(* that end before the client gives up on them, no retry is taken for one. *)
THEOREM ReuseIsOld ==
    ASSUME ~LateDelivery, ~SignInDuringRestore
    PROVE  Spec => []ReuseOnlyAfterGrace
<1> DEFINE I == UserSafe /\ CallsJudged /\ GraceInv
<1>1. Init => I
    BY InitDead, InitGrace, UserSafeInductive
<1>2. I /\ [Next]_vars => I'
  <2>1. SUFFICES ASSUME I, [Next]_vars PROVE I'
      OBVIOUS
  <2>2. /\ Inv /\ TypeInv /\ TokensKnown /\ CallsOfRefreshes /\ NewSessionUnused
        /\ UserInv /\ Known2
      BY <2>1, KnownHere DEF UserSafe, Inv, RecoverableInv
  <2>3. UserSafe' /\ CallsJudged'
      BY <2>1, <2>2, UserSafeInductive, NextJudged
  <2>4. /\ CallsAwaited' /\ OutcomesSaved' /\ OneRefreshOfSession' /\ DocsRotate'
        /\ RefreshesNearby'
      BY <2>1, <2>2, AwaitedStep, OutcomesStep, OneRefreshStep, DocsStep, NearbyStep DEF GraceInv
  <2>5. MissedAfterRotation' /\ ReuseOnlyAfterGrace'
      BY <2>1, <2>2, ReuseStep
  <2> QED
      BY <2>3, <2>4, <2>5 DEF GraceInv
<1>3. I => ReuseOnlyAfterGrace
    BY DEF GraceInv
<1> QED
    BY <1>1, <1>2, <1>3, PTL DEF Spec
=============================================================================

-------------------------- MODULE AuthSessionProofs --------------------------
(***************************************************************************)
(* Theorems about AuthSession and their proofs.                            *)
(***************************************************************************)
EXTENDS AuthSession, TLAPS

-----------------------------------------------------------------------------
(* The queue of writes                                                     *)

(* Marking the first write as running leaves a queue of writes.            *)
LEMMA RunningType ==
    ASSUME NEW q \in Seq(Write), q # <<>>
    PROVE  [q EXCEPT ![1].st = "running"] \in Seq(Write)
<1>1. q \in [1 .. Len(q) -> Write] /\ 1 \in 1 .. Len(q)
    OBVIOUS
<1>2. [q[1] EXCEPT !.st = "running"] \in Write
    BY <1>1 DEF Write
<1>3. [q EXCEPT ![1].st = "running"] \in [1 .. Len(q) -> Write]
    BY <1>1, <1>2
<1> QED
    BY <1>3

LEMMA HeadTail ==
    ASSUME NEW q \in Seq(Write), q # <<>>
    PROVE  Head(q) \in Write /\ Tail(q) \in Seq(Write)
    OBVIOUS

(* What every write that is queued looks like.                             *)
LEMMA WriteOfType ==
    ASSUME NEW op \in {"signin", "save", "expire", "clear"},
           NEW e \in Epochs, NEW tok \in Token \cup {NoToken}
    PROVE  WriteOf(op, e, tok) \in Write
    BY DEF WriteOf, Write

-----------------------------------------------------------------------------
(* Type correctness                                                        *)

LEMMA SuccessorType ==
    ASSUME NEW t \in Token
    PROVE  Successor(t) \in Token /\ Successor(t).gen = t.gen + 1
                /\ Successor(t).sid = t.sid
    BY DEF Token, Successor

(* Tokens are where the operations need one: only real calls leave the     *)
(* device, and only tokens are saved.                                      *)
CallsCarryTokens == \A q \in Requests : req[q].st # "free" => req[q].tok \in Token
RefreshesCarryTokens ==
    \A e \in Epochs :
        /\ refresh[e].pc # "idle" => refresh[e].tok \in Token
        /\ Waiting(e) => refresh[e].req \in Requests
SavesCarryTokens ==
    \A i \in DOMAIN writes :
        writes[i].op \in {"signin", "save"} => writes[i].tok \in Token
EndingsAreClears == \A w \in ending : w.op = "clear" /\ w.st = "queued"
FreshCarriesToken == fresh # NoFresh => fresh.tok \in Token

TypeInv == /\ TypeOK
           /\ CallsCarryTokens
           /\ RefreshesCarryTokens
           /\ SavesCarryTokens
           /\ FreshCarriesToken
           /\ EndingsAreClears

LEMMA InitTypeInv == Init => TypeInv
<1> SUFFICES ASSUME Init PROVE TypeInv
    OBVIOUS
<1> USE RotationAssumption, AuthAssumption, NoTokenIsNoToken
<1>1. ServerTypeOK
    BY DEF Init, ServerInit, ServerTypeOK, Unborn, SessionDoc, FreeCall, Call
<1>2. TypeOK
    BY <1>1 DEF Init, TypeOK, Epochs, Refresh, Idle, Fresh, NoFresh
<1>3. CallsCarryTokens /\ RefreshesCarryTokens /\ SavesCarryTokens
        /\ FreshCarriesToken
    BY DEF Init, ServerInit, CallsCarryTokens, RefreshesCarryTokens,
           SavesCarryTokens, FreshCarriesToken, FreeCall, Waiting, Idle, NoFresh
<1> QED
    BY <1>2, <1>3 DEF TypeInv, Init, EndingsAreClears

(* The server's steps keep the type of its state, and every call in flight *)
(* still carries a token.                                                  *)
LEMMA AnswerType ==
    ASSUME ServerTypeOK, NEW q \in Requests, CallsCarryTokens,
           req[q].st # "free",
           NEW outcome \in {"granted", "rejected", "throttled"}
    PROVE  /\ Answer(q, outcome) \in [Requests -> Call]
           /\ \A r \in Requests : Answer(q, outcome)[r].st # "free"
                                    => Answer(q, outcome)[r].tok \in Token
    BY DEF ServerTypeOK, Answer, FreeCall, Call, CallsCarryTokens

LEMMA ServerStepType ==
    ASSUME ServerTypeOK, CallsCarryTokens, ServerStep
    PROVE  ServerTypeOK' /\ CallsCarryTokens'
<1> USE RotationAssumption DEF ServerTypeOK
<1>1. CASE Tick
    BY <1>1 DEF Tick, CallsCarryTokens
<1>2. ASSUME NEW q \in Requests, CompareAndRotate(q)
      PROVE  ServerTypeOK' /\ CallsCarryTokens'
  <2> DEFINE t == req[q].tok
  <2>1. t \in Token /\ req[q].st = "sent"
      BY <1>2 DEF CompareAndRotate, CallsCarryTokens
  <2>2. CASE Live(t.sid) /\ sessions[t.sid].cur = t.gen
    <3>1. sessions[t.sid] \in SessionDoc /\ t.sid \in Sessions
        BY <2>1 DEF Token
    <3>2. Rotated(t) \in SessionDoc
      <4>1. /\ Successor(t).gen \in Nat /\ t.gen \in Nat
            /\ now \in Nat /\ now + RefreshTTL \in Nat
          BY <2>1, SuccessorType DEF Token
      <4> QED
          BY <3>1, <4>1 DEF Rotated, SessionDoc
    <3> QED
        BY <1>2, <2>1, <2>2, <3>1, <3>2, AnswerType
        DEF CompareAndRotate, CallsCarryTokens
  <2>3. CASE ~(Live(t.sid) /\ sessions[t.sid].cur = t.gen)
      BY <1>2, <2>1, <2>3 DEF CompareAndRotate, CallsCarryTokens, Call
  <2> QED
      BY <2>2, <2>3
<1>3. ASSUME NEW q \in Requests, FindSession(q)
      PROVE  ServerTypeOK' /\ CallsCarryTokens'
  <2>1. req[q].st # "free" /\ req[q] \in Call /\ req[q].tok \in Token
      BY <1>3 DEF FindSession, CallsCarryTokens
  <2>2. [req EXCEPT ![q].st = "reuse"] \in [Requests -> Call]
      BY <2>1 DEF Call
  <2>3. \/ req' = Answer(q, "rejected")
        \/ req' = Answer(q, "granted")
        \/ req' = [req EXCEPT ![q].st = "reuse"]
      BY <1>3 DEF FindSession
  <2> QED
      BY <1>3, <2>1, <2>2, <2>3, AnswerType DEF FindSession, CallsCarryTokens
<1>4. ASSUME NEW s \in Sessions
      PROVE  Revoked(s) \in [Sessions -> SessionDoc]
    BY ZenonT(60) DEF Revoked, SessionDoc
<1>5. ASSUME NEW q \in Requests, RevokeForReuse(q)
      PROVE  ServerTypeOK' /\ CallsCarryTokens'
  <2>1. req[q].st # "free" /\ req[q].tok.sid \in Sessions
      BY <1>5 DEF RevokeForReuse, CallsCarryTokens, Token
  <2> QED
      BY <1>4, <1>5, <2>1, AnswerType DEF RevokeForReuse, CallsCarryTokens
<1>6. ASSUME NEW q \in Requests, Logout(q)
      PROVE  ServerTypeOK' /\ CallsCarryTokens'
  <2>1. req[q].st # "free" /\ req[q].tok.sid \in Sessions
      BY <1>6 DEF Logout, CallsCarryTokens, Token
  <2> QED
      BY <1>4, <1>6, <2>1 DEF Logout, CallsCarryTokens, FreeCall, Call
<1>7. ASSUME NEW q \in Requests, Throttle(q)
      PROVE  ServerTypeOK' /\ CallsCarryTokens'
    BY <1>7, AnswerType DEF Throttle, CallsCarryTokens
<1>8. ASSUME NEW q \in Requests, LoseCall(q)
      PROVE  ServerTypeOK' /\ CallsCarryTokens'
    BY <1>8 DEF LoseCall, CallsCarryTokens, FreeCall, Call
<1>9. ASSUME NEW s \in Sessions, RemoveSession(s)
      PROVE  ServerTypeOK' /\ CallsCarryTokens'
  <2>1. Removed(s) \in SessionDoc
      BY DEF Removed, Unborn, SessionDoc
  <2> QED
      BY <1>9, <2>1 DEF RemoveSession, CallsCarryTokens
<1> QED
    BY <1>1, <1>2, <1>3, <1>5, <1>6, <1>7, <1>8, <1>9 DEF ServerStep

-----------------------------------------------------------------------------
(* Every step of the device                                                *)

LEMMA SendType ==
    ASSUME ServerTypeOK, CallsCarryTokens, NEW q \in Requests,
           NEW kind \in {"refresh", "logout"}, NEW tok \in Token,
           NEW waited \in BOOLEAN, Send(q, kind, tok, waited)
    PROVE  req' \in [Requests -> Call] /\ CallsCarryTokens'
    BY DEF Send, ServerTypeOK, CallsCarryTokens, Call

LEMMA FreedType ==
    ASSUME ServerTypeOK, CallsCarryTokens, NEW q \in Requests,
           req' = [req EXCEPT ![q] = FreeCall]
    PROVE  req' \in [Requests -> Call] /\ CallsCarryTokens'
    BY DEF FreeCall, ServerTypeOK, CallsCarryTokens, Call

LEMMA AbandonType ==
    ASSUME ServerTypeOK, CallsCarryTokens, NEW q \in Requests
    PROVE  /\ Abandon(q) \in Call
           /\ Abandon(q).st # "free" => Abandon(q).tok \in Token
    BY DEF Abandon, FreeCall, ServerTypeOK, CallsCarryTokens, Call

LEMMA QueuedType ==
    ASSUME writes \in Seq(Write), SavesCarryTokens, NEW w \in Write,
           w.op \in {"signin", "save"} => w.tok \in Token, writes' = Queued(w)
    PROVE  writes' \in Seq(Write) /\ SavesCarryTokens'
    BY DEF Queued, SavesCarryTokens

LEMMA DequeuedType ==
    ASSUME writes \in Seq(Write), SavesCarryTokens, writes # <<>>,
           writes' = Tail(writes)
    PROVE  writes' \in Seq(Write) /\ SavesCarryTokens'
    BY DEF SavesCarryTokens

LEMMA RefreshStepType ==
    ASSUME TypeInv, RefreshStep
    PROVE  TypeInv'
<1> USE DEF TypeInv, TypeOK
<1>1. ASSUME NEW q \in Requests, StartRefresh(q)
      PROVE  TypeInv'
  <2>1. stored \in Token
      BY <1>1 DEF StartRefresh
  <2>2. req' \in [Requests -> Call] /\ CallsCarryTokens'
      BY <1>1, <2>1, SendType DEF StartRefresh
  <2>3. refresh' \in [Epochs -> Refresh] /\ RefreshesCarryTokens'
      BY <1>1, <2>1 DEF StartRefresh, Refresh, RefreshesCarryTokens, Waiting
  <2> QED
      BY <1>1, <2>2, <2>3
      DEF StartRefresh, SavesCarryTokens, FreshCarriesToken, EndingsAreClears,
          ServerTypeOK
<1>2. ASSUME NEW e \in Epochs, ReceiveGranted(e)
      PROVE  TypeInv'
  <2>1. refresh[e].tok \in Token /\ refresh[e].req \in Requests
      BY <1>2 DEF ReceiveGranted, RefreshesCarryTokens, Waiting
  <2>2. req' \in [Requests -> Call] /\ CallsCarryTokens'
      BY <1>2, <2>1, FreedType DEF ReceiveGranted
  <2>3. writes' \in Seq(Write) /\ SavesCarryTokens'
    <3> DEFINE w == WriteOf("save", e, Successor(refresh[e].tok))
    <3>1. w \in Write /\ w.tok \in Token
        BY <2>1, SuccessorType, WriteOfType DEF WriteOf
    <3> QED
        BY <1>2, <3>1, QueuedType DEF ReceiveGranted
  <2>4. refresh' \in [Epochs -> Refresh] /\ RefreshesCarryTokens'
      BY <1>2, <2>1 DEF ReceiveGranted, Refresh, RefreshesCarryTokens, Waiting
  <2> QED
      BY <1>2, <2>2, <2>3, <2>4 DEF ReceiveGranted, FreshCarriesToken, EndingsAreClears,
          ServerTypeOK
<1>3. ASSUME NEW e \in Epochs, ReceiveRejected(e)
      PROVE  TypeInv'
  <2>1. refresh[e].tok \in Token /\ refresh[e].req \in Requests
      BY <1>3 DEF ReceiveRejected, RefreshesCarryTokens, Waiting
  <2>2. req' \in [Requests -> Call] /\ CallsCarryTokens'
      BY <1>3, <2>1, FreedType DEF ReceiveRejected
  <2>3. writes' \in Seq(Write) /\ SavesCarryTokens'
    <3> DEFINE w == WriteOf("expire", e, refresh[e].tok)
    <3>1. w \in Write /\ w.op = "expire"
        BY <2>1, WriteOfType DEF WriteOf
    <3> QED
        BY <1>3, <3>1, QueuedType DEF ReceiveRejected, SavesCarryTokens
  <2>4. refresh' \in [Epochs -> Refresh] /\ RefreshesCarryTokens'
      BY <1>3, <2>1
      DEF ReceiveRejected, Refresh, Idle, RefreshesCarryTokens, Waiting
  <2> QED
      BY <1>3, <2>2, <2>3, <2>4 DEF ReceiveRejected, FreshCarriesToken, EndingsAreClears,
          ServerTypeOK
<1>4. ASSUME NEW e \in Epochs, ReceiveThrottled(e)
      PROVE  TypeInv'
  <2>1. refresh[e].tok \in Token /\ refresh[e].req \in Requests
      BY <1>4 DEF ReceiveThrottled, RefreshesCarryTokens, Waiting
  <2>2. req' \in [Requests -> Call] /\ CallsCarryTokens'
      BY <1>4, <2>1, FreedType DEF ReceiveThrottled
  <2>3. refresh' \in [Epochs -> Refresh] /\ RefreshesCarryTokens'
      BY <1>4 DEF ReceiveThrottled, Refresh, Idle, RefreshesCarryTokens, Waiting
  <2> QED
      BY <1>4, <2>2, <2>3
      DEF ReceiveThrottled, SavesCarryTokens, FreshCarriesToken, EndingsAreClears,
          ServerTypeOK
<1>5. ASSUME NEW e \in Epochs, GiveUp(e)
      PROVE  TypeInv'
  <2>1. refresh[e].tok \in Token /\ refresh[e].req \in Requests
      BY <1>5 DEF GiveUp, RefreshesCarryTokens, Waiting
  <2>2. req' \in [Requests -> Call] /\ CallsCarryTokens'
      BY <1>5, <2>1, AbandonType DEF GiveUp, ServerTypeOK, CallsCarryTokens
  <2>3. refresh' \in [Epochs -> Refresh] /\ RefreshesCarryTokens'
    <3> DEFINE r == IF refresh[e].pc = "first"
                      THEN [refresh[e] EXCEPT !.pc = "pause", !.req = NoRequest]
                      ELSE Idle
    <3>1. r \in Refresh /\ r.pc \in {"pause", "idle"}
        BY DEF Refresh, Idle
    <3>2. r.pc = "pause" => r.tok = refresh[e].tok
        BY DEF Refresh, Idle
    <3>3. refresh' = [refresh EXCEPT ![e] = r]
        BY <1>5 DEF GiveUp
    <3> HIDE DEF r
    <3> QED
        BY <2>1, <3>1, <3>2, <3>3 DEF RefreshesCarryTokens, Waiting
  <2> QED
      BY <1>5, <2>2, <2>3
      DEF GiveUp, SavesCarryTokens, FreshCarriesToken, EndingsAreClears,
          ServerTypeOK
<1>6. ASSUME NEW e \in Epochs, NEW q \in Requests, Retry(e, q)
      PROVE  TypeInv'
  <2>1. refresh[e].tok \in Token
      BY <1>6 DEF Retry, RefreshesCarryTokens
  <2>2. req' \in [Requests -> Call] /\ CallsCarryTokens'
      BY <1>6, <2>1, SendType DEF Retry
  <2>3. refresh' \in [Epochs -> Refresh] /\ RefreshesCarryTokens'
      BY <1>6, <2>1 DEF Retry, Refresh, RefreshesCarryTokens, Waiting
  <2> QED
      BY <1>6, <2>2, <2>3
      DEF Retry, SavesCarryTokens, FreshCarriesToken, EndingsAreClears,
          ServerTypeOK
<1> QED
    BY <1>1, <1>2, <1>3, <1>4, <1>5, <1>6 DEF RefreshStep

LEMMA EndSessionType ==
    ASSUME TypeInv, NEW tok \in Token \cup {NoToken}, EndSession(tok)
    PROVE  epoch' \in Epochs /\ ending' \in SUBSET Write /\ EndingsAreClears'
<1>1. epoch + 1 \in Epochs /\ epoch' = epoch + 1
    BY AuthAssumption DEF TypeInv, TypeOK, EndSession, Epochs
<1>2. PICK w \in Write : w = WriteOf("clear", epoch + 1, tok)
    BY <1>1, WriteOfType
<1>3. w.op = "clear" /\ w.st = "queued"
    BY <1>2 DEF WriteOf
<1>4. ending' = ending \cup {w}
    BY <1>2 DEF EndSession
<1> QED
    BY <1>1, <1>3, <1>4 DEF TypeInv, TypeOK, EndingsAreClears

LEMMA SessionStepType ==
    ASSUME TypeInv, SessionStep
    PROVE  TypeInv'
<1> USE AuthAssumption, RotationAssumption DEF TypeInv, TypeOK, Epochs
<1>1. ASSUME NEW s \in Sessions, SignIn(s)
      PROVE  TypeInv'
  <2>1. NewSession \in SessionDoc
    <3>1. now + RefreshTTL \in Nat
        BY DEF ServerTypeOK
    <3> QED
        BY <3>1 DEF NewSession, Unborn, SessionDoc
  <2>2. fresh' \in Fresh /\ fresh'.tok \in Token
      BY <1>1 DEF SignIn, Fresh, Token
  <2> QED
      BY <1>1, <2>1, <2>2
      DEF SignIn, CreateSession, ServerTypeOK, CallsCarryTokens, RefreshesCarryTokens, Waiting,
          SavesCarryTokens, FreshCarriesToken, EndingsAreClears
<1>2. CASE HandleSignInSuccess
  <2>1. epoch + 1 \in Epochs /\ fresh.tok \in Token
      BY <1>2 DEF HandleSignInSuccess, FreshCarriesToken
  <2>2. writes' \in Seq(Write) /\ SavesCarryTokens'
    <3> DEFINE w == WriteOf("signin", epoch + 1, fresh.tok)
    <3>1. w \in Write /\ w.tok \in Token
        BY <2>1, WriteOfType DEF WriteOf
    <3> QED
        BY <1>2, <3>1, QueuedType DEF HandleSignInSuccess
  <2>3. fresh' \in Fresh
      BY <1>2 DEF HandleSignInSuccess, NoFresh, Fresh
  <2> QED
      BY <1>2, <2>1, <2>2, <2>3
      DEF HandleSignInSuccess, serverVars, ServerTypeOK, CallsCarryTokens,
          RefreshesCarryTokens, Waiting, FreshCarriesToken, EndingsAreClears
<1>3. CASE SignOut
  <2>1. epoch' \in Epochs /\ ending' \in SUBSET Write /\ EndingsAreClears'
      BY <1>3, EndSessionType DEF SignOut
  <2> QED
      BY <1>3, <2>1
      DEF SignOut, EndSession, serverVars, ServerTypeOK, CallsCarryTokens,
          RefreshesCarryTokens, Waiting, SavesCarryTokens, FreshCarriesToken, EndingsAreClears
<1>4. ASSUME NEW w \in ending, ClearPersistedSession(w)
      PROVE  TypeInv'
  <2>1. w \in Write /\ w.op = "clear" /\ EndingsAreClears'
      BY <1>4 DEF ClearPersistedSession, EndingsAreClears
  <2>2. writes' \in Seq(Write) /\ SavesCarryTokens'
      BY <1>4, <2>1, QueuedType DEF ClearPersistedSession
  <2> QED
      BY <1>4, <2>2
      DEF ClearPersistedSession, serverVars, ServerTypeOK, CallsCarryTokens,
          RefreshesCarryTokens, Waiting, FreshCarriesToken, EndingsAreClears
<1> QED
    BY <1>1, <1>2, <1>3, <1>4 DEF SessionStep

(* A dequeued write leaves the refreshes and the calls well typed.         *)
LEMMA RefreshDoneType ==
    ASSUME TypeInv, NEW e \in Epochs, RefreshDone(e)
    PROVE  refresh' \in [Epochs -> Refresh] /\ RefreshesCarryTokens'
    BY DEF TypeInv, TypeOK, RefreshDone, Refresh, Idle, RefreshesCarryTokens, Waiting

LEMMA RevokeAtServerType ==
    ASSUME TypeInv, NEW tok \in Token \cup {NoToken}, RevokeAtServer(tok)
    PROVE  req' \in [Requests -> Call] /\ CallsCarryTokens'
<1>1. CASE UNCHANGED req
    BY <1>1 DEF TypeInv, TypeOK, ServerTypeOK, CallsCarryTokens
<1>2. CASE tok # NoToken /\ \E q \in Requests : Send(q, "logout", tok, FALSE)
    BY <1>2, SendType DEF TypeInv, TypeOK
<1> QED
    BY <1>1, <1>2 DEF RevokeAtServer

LEMMA WriteStepType ==
    ASSUME TypeInv, WriteStep
    PROVE  TypeInv'
<1> USE AuthAssumption DEF TypeInv, TypeOK
<1> DEFINE w == Head(writes)
<1>1. writes # <<>>
    BY DEF WriteStep, BeginWrite, DropWrite, FinishSave, FinishSignIn,
           FinishExpire, FinishClear, Running
<1>2. w \in Write /\ (w.op \in {"signin", "save"} => w.tok \in Token)
    BY <1>1, HeadTail DEF SavesCarryTokens
<1>3. w.epoch \in Epochs /\ w.tok \in Token \cup {NoToken}
    BY <1>2 DEF Write
<1>4. CASE BeginWrite
  <2>1. writes' \in Seq(Write)
      BY <1>1, <1>4, RunningType DEF BeginWrite
  <2>2. SavesCarryTokens'
      BY <1>1, <1>4 DEF BeginWrite, SavesCarryTokens, Write
  <2>3. stored' \in Token \cup {NoToken} /\ access' \in Token \cup {NoToken}
      BY <1>3, <1>4 DEF BeginWrite
  <2> QED
      BY <1>4, <2>1, <2>2, <2>3
      DEF BeginWrite, serverVars, ServerTypeOK, CallsCarryTokens,
          RefreshesCarryTokens, Waiting, FreshCarriesToken, EndingsAreClears
<1>5. CASE DropWrite
  <2>1. writes' \in Seq(Write) /\ SavesCarryTokens'
      BY <1>1, <1>5, DequeuedType DEF DropWrite
  <2>2. refresh' \in [Epochs -> Refresh] /\ RefreshesCarryTokens'
      BY <1>3, <1>5, RefreshDoneType DEF DropWrite, RefreshesCarryTokens, Waiting
  <2>3. req' \in [Requests -> Call] /\ CallsCarryTokens'
      BY <1>3, <1>5, RevokeAtServerType
      DEF DropWrite, CallsCarryTokens, ServerTypeOK
  <2> QED
      BY <1>5, <2>1, <2>2, <2>3 DEF DropWrite, ServerTypeOK, FreshCarriesToken, EndingsAreClears
<1>6. CASE FinishSave
  <2>1. writes' \in Seq(Write) /\ SavesCarryTokens'
      BY <1>1, <1>6, DequeuedType DEF FinishSave
  <2>2. refresh' \in [Epochs -> Refresh] /\ RefreshesCarryTokens'
      BY <1>3, <1>6, RefreshDoneType DEF FinishSave
  <2> QED
      BY <1>3, <1>6, <2>1, <2>2
      DEF FinishSave, serverVars, ServerTypeOK, CallsCarryTokens, FreshCarriesToken, EndingsAreClears
<1>7. CASE FinishSignIn
  <2>1. writes' \in Seq(Write) /\ SavesCarryTokens'
      BY <1>1, <1>7, DequeuedType DEF FinishSignIn
  <2>2. user' \in Sessions \cup {NoUser}
      BY <1>2, <1>7 DEF FinishSignIn, Token
  <2> QED
      BY <1>3, <1>7, <2>1, <2>2
      DEF FinishSignIn, serverVars, ServerTypeOK, CallsCarryTokens,
          RefreshesCarryTokens, Waiting, FreshCarriesToken, EndingsAreClears
<1>8. CASE FinishExpire
  <2>1. writes' \in Seq(Write) /\ SavesCarryTokens'
      BY <1>1, <1>8, DequeuedType DEF FinishExpire
  <2>2. refresh' \in [Epochs -> Refresh] /\ RefreshesCarryTokens'
      BY <1>3, <1>8, RefreshDoneType DEF FinishExpire
  <2>3. epoch' \in Epochs /\ ending' \in SUBSET Write /\ EndingsAreClears'
      BY <1>8, EndSessionType DEF FinishExpire
  <2> QED
      BY <1>8, <2>1, <2>2, <2>3
      DEF FinishExpire, EndSession, serverVars, ServerTypeOK, CallsCarryTokens,
          FreshCarriesToken, EndingsAreClears
<1>9. CASE FinishClear
  <2>1. writes' \in Seq(Write) /\ SavesCarryTokens'
      BY <1>1, <1>9, DequeuedType DEF FinishClear
  <2>2. req' \in [Requests -> Call] /\ CallsCarryTokens'
      BY <1>3, <1>9, RevokeAtServerType DEF FinishClear
  <2> QED
      BY <1>9, <2>1, <2>2
      DEF FinishClear, ServerTypeOK, RefreshesCarryTokens, Waiting,
          FreshCarriesToken, EndingsAreClears
<1> QED
    BY <1>4, <1>5, <1>6, <1>7, <1>8, <1>9 DEF WriteStep

LEMMA RestoreStepType ==
    ASSUME TypeInv, RestoreStep
    PROVE  TypeInv'
<1> USE AuthAssumption
    DEF TypeInv, TypeOK, serverVars, ServerTypeOK, CallsCarryTokens,
        RefreshesCarryTokens, Waiting, SavesCarryTokens, FreshCarriesToken, EndingsAreClears
<1>1. CASE RestoreSignedIn
    BY <1>1 DEF RestoreSignedIn, Token
<1>2. CASE RestoreGuest
    BY <1>2 DEF RestoreGuest
<1>3. CASE RestoreLook
    BY <1>3 DEF RestoreLook, Token
<1>4. CASE RestoreClear
    BY <1>4 DEF RestoreClear
<1> QED
    BY <1>1, <1>2, <1>3, <1>4 DEF RestoreStep

LEMMA RestartType ==
    ASSUME TypeInv, Restart
    PROVE  TypeInv'
<1> USE AuthAssumption DEF TypeInv, TypeOK
<1>1. req' \in [Requests -> Call] /\ CallsCarryTokens'
    BY AbandonType DEF Restart, CallsCarryTokens
<1>2. refresh' \in [Epochs -> Refresh] /\ RefreshesCarryTokens'
    BY DEF Restart, Refresh, Idle, RefreshesCarryTokens, Waiting
<1>3. epoch' \in Epochs /\ fresh' \in Fresh /\ FreshCarriesToken'
    BY DEF Restart, Epochs, Fresh, NoFresh, FreshCarriesToken, EndingsAreClears
<1>4. writes' \in Seq(Write) /\ SavesCarryTokens'
    BY DEF Restart, SavesCarryTokens
<1>5. ending' \in SUBSET Write /\ EndingsAreClears'
    BY DEF Restart, EndingsAreClears
<1>6. phase' \in {"loading", "guest", "signedIn"} /\ user' \in Sessions \cup {NoUser}
    BY DEF Restart
<1>7. restoring' \in {"none", "looking", "clearing"}
    BY DEF Restart
<1>8. UNCHANGED <<now, sessions, stored, access>>
    BY DEF Restart
<1>9. ServerTypeOK'
    BY <1>1, <1>8 DEF ServerTypeOK
<1> QED
    BY <1>1, <1>2, <1>3, <1>4, <1>5, <1>6, <1>7, <1>8, <1>9

LEMMA NextTypeInv == TypeInv /\ [Next]_vars => TypeInv'
<1> SUFFICES ASSUME TypeInv, [Next]_vars PROVE TypeInv'
    OBVIOUS
<1>1. CASE Server
    BY <1>1, ServerStepType
    DEF Server, TypeInv, TypeOK, authVars, RefreshesCarryTokens, Waiting,
        SavesCarryTokens, FreshCarriesToken, EndingsAreClears
<1>2. CASE UNCHANGED vars
    BY <1>2
    DEF vars, serverVars, authVars, TypeInv, TypeOK, ServerTypeOK,
        CallsCarryTokens, RefreshesCarryTokens, Waiting, SavesCarryTokens,
        FreshCarriesToken, EndingsAreClears
<1> QED
    BY <1>1, <1>2, RefreshStepType, SessionStepType, WriteStepType,
       RestoreStepType, RestartType DEF Next

(* Every variable always has its type, and only tokens are presented,      *)
(* saved or taken from a sign-in, whatever is lost, delayed or killed.     *)
THEOREM TypeCorrect == Spec => []TypeOK
<1>1. TypeInv => TypeOK
    BY DEF TypeInv
<1> QED
    BY <1>1, InitTypeInv, NextTypeInv, PTL DEF Spec

-----------------------------------------------------------------------------
(* The sessions implement SessionLineage                                   *)

(* The only ways a step touches the sessions or the clock.                 *)
SessionChange ==
    \/ UNCHANGED <<now, sessions>>
    \/ Tick
    \/ \E s \in Sessions :
         /\ UNCHANGED now
         /\ CreateSession(s) \/ sessions' = Revoked(s) \/ RemoveSession(s)
    \/ \E q \in Requests : CompareAndRotate(q)

LEMMA StepChangesSessions ==
    ASSUME TypeInv, [Next]_vars
    PROVE  SessionChange
<1>1. CallsCarryTokens
    BY DEF TypeInv
<1>2. ASSUME NEW q \in Requests, RevokeForReuse(q) \/ Logout(q)
      PROVE  SessionChange
    BY <1>1, <1>2
    DEF RevokeForReuse, Logout, CallsCarryTokens, Token, SessionChange
<1>3. CASE Server
    BY <1>2, <1>3
    DEF Server, ServerStep, FindSession, Throttle, LoseCall, RemoveSession,
        SessionChange
<1>4. CASE SessionStep
    BY <1>4
    DEF SessionStep, SignIn, HandleSignInSuccess, SignOut,
        ClearPersistedSession, serverVars, SessionChange
<1>5. CASE RefreshStep \/ WriteStep \/ RestoreStep \/ Restart \/ UNCHANGED vars
    BY <1>5
    DEF RefreshStep, StartRefresh, ReceiveGranted, ReceiveRejected,
        ReceiveThrottled, GiveUp, Retry, WriteStep, BeginWrite, DropWrite,
        FinishSave, FinishSignIn, FinishExpire, FinishClear, RestoreStep,
        RestoreSignedIn, RestoreGuest, RestoreLook, RestoreClear, Restart,
        vars, serverVars, SessionChange
<1> QED
    BY <1>3, <1>4, <1>5 DEF Next

(* A session nobody has signed in to has never been touched.               *)
UnbornUntouched ==
    \A s \in Sessions : sessions[s].state = "unborn" => sessions[s] = Unborn

LEMMA RotatedDoc ==
    ASSUME ServerTypeOK, NEW t \in Token
    PROVE  /\ Rotated(t).state = sessions[t.sid].state
           /\ Rotated(t).revoked = sessions[t.sid].revoked
           /\ Rotated(t).cur = t.gen + 1
           /\ Rotated(t).expiresAt = now + RefreshTTL
    BY SuccessorType DEF ServerTypeOK, Rotated, SessionDoc, Token

LEMMA NextUnbornUntouched ==
    TypeInv /\ UnbornUntouched /\ [Next]_vars => UnbornUntouched'
<1> SUFFICES ASSUME TypeInv, UnbornUntouched, [Next]_vars
             PROVE  UnbornUntouched'
    OBVIOUS
<1> USE DEF UnbornUntouched
<1>1. sessions \in [Sessions -> SessionDoc] /\ CallsCarryTokens /\ ServerTypeOK
    BY DEF TypeInv, TypeOK, ServerTypeOK
<1>2. CASE UNCHANGED <<now, sessions>> \/ Tick
    BY <1>2 DEF Tick
<1>3. ASSUME NEW s \in Sessions,
             CreateSession(s) \/ sessions' = Revoked(s) \/ RemoveSession(s)
      PROVE  UnbornUntouched'
  <2>1. ASSUME NEW doc, doc.state # "unborn",
               sessions' = [sessions EXCEPT ![s] = doc]
        PROVE  UnbornUntouched'
      BY <1>1, <2>1
  <2>2. CASE CreateSession(s)
      BY <2>1, <2>2 DEF CreateSession, NewSession, Unborn
  <2>3. CASE sessions' = Revoked(s) /\ sessions[s].state = "stored"
    <3> DEFINE doc == [sessions[s] EXCEPT !.revoked = TRUE]
    <3>1. doc.state # "unborn" /\ sessions' = [sessions EXCEPT ![s] = doc]
        BY <1>1, <2>3 DEF Revoked, SessionDoc
    <3> QED
        BY <2>1, <3>1
  <2>4. CASE sessions' = Revoked(s) /\ sessions[s].state # "stored"
      BY <2>4 DEF Revoked
  <2>5. CASE RemoveSession(s)
      BY <2>1, <2>5 DEF RemoveSession, Removed, Unborn
  <2> QED
      BY <1>3, <2>2, <2>3, <2>4, <2>5
<1>4. ASSUME NEW q \in Requests, CompareAndRotate(q)
      PROVE  UnbornUntouched'
  <2>1. req[q].tok \in Token
      BY <1>1, <1>4 DEF CompareAndRotate, CallsCarryTokens
  <2> QED
      BY <1>1, <1>4, <2>1, RotatedDoc DEF CompareAndRotate, Live
<1> QED
    BY <1>2, <1>3, <1>4, StepChangesSessions DEF SessionChange

(* Each change of the sessions or the clock is a step of the lineage, or   *)
(* leaves it alone.                                                        *)
LEMMA StepRefines ==
    ASSUME TypeInv, UnbornUntouched, [Next]_vars
    PROVE  [Lineage!LineageNext]_(Lineage!lineage)
<1> DEFINE gen(s) == sessions[s].cur
<1>1. /\ sessions \in [Sessions -> SessionDoc] /\ CallsCarryTokens
      /\ ServerTypeOK /\ now \in Nat /\ RefreshTTL \in Nat \ {0}
    BY RotationAssumption DEF TypeInv, TypeOK, ServerTypeOK
<1> USE <1>1 DEF Lineage!lineage
<1>2. CASE UNCHANGED <<now, sessions>>
    BY <1>2 DEF Life, Live
<1>3. CASE Tick
  <2> DEFINE S == {s \in Sessions : Live(s) /\ ~Live(s)'}
  <2>1. \A s \in Sessions : Life(s)' = IF s \in S THEN "ended" ELSE Life(s)
      BY <1>3 DEF Tick, Life, Live, SessionDoc
  <2>2. \A s \in S : Life(s) = "alive"
      BY DEF Life, Live
  <2>3. Lineage!End(S)
      BY <1>3, <2>1, <2>2 DEF Lineage!End, Tick
  <2> QED
      BY <2>3 DEF Lineage!LineageNext
<1>4. ASSUME NEW s \in Sessions, UNCHANGED now, CreateSession(s)
      PROVE  Lineage!LineageNext
  <2>1. Life(s) = "none" /\ Life(s)' = "alive"
      BY <1>4 DEF CreateSession, NewSession, Unborn, Life, Live
  <2>2. \A r \in Sessions \ {s} : Life(r)' = Life(r) /\ gen(r)' = gen(r)
      BY <1>4 DEF CreateSession, Life, Live
  <2>3. gen(s)' = gen(s)
      BY <1>4 DEF CreateSession, NewSession, Unborn, UnbornUntouched
  <2>4. Lineage!Open(s)
      BY <2>1, <2>2, <2>3 DEF Lineage!Open
  <2> QED
      BY <2>4 DEF Lineage!LineageNext
<1>5. ASSUME NEW s \in Sessions, UNCHANGED now,
             sessions' = Revoked(s) \/ RemoveSession(s)
      PROVE  [Lineage!LineageNext]_(Lineage!lineage)
  <2>1. \A r \in Sessions \ {s} : Life(r)' = Life(r) /\ gen(r)' = gen(r)
      BY <1>5 DEF Revoked, RemoveSession, Life, Live
  <2>2. gen(s)' = gen(s)
      BY <1>5 DEF Revoked, RemoveSession, Removed, Unborn, SessionDoc
  <2>3. CASE Live(s)
    <3>1. Life(s) = "alive" /\ Life(s)' = "ended"
        BY <1>5, <2>3
        DEF Revoked, RemoveSession, Removed, Unborn, Life, Live, SessionDoc
    <3>2. Lineage!End({s})
        BY <2>1, <2>2, <3>1 DEF Lineage!End
    <3> QED
        BY <3>2 DEF Lineage!LineageNext
  <2>4. CASE ~Live(s)
    <3>1. Life(s)' = Life(s)
        BY <1>5, <2>4
        DEF Revoked, RemoveSession, Removed, Unborn, Life, Live, SessionDoc
    <3> QED
        BY <2>1, <2>2, <3>1
  <2> QED
      BY <2>3, <2>4
<1>6. ASSUME NEW q \in Requests, CompareAndRotate(q)
      PROVE  [Lineage!LineageNext]_(Lineage!lineage)
  <2>1. PICK t \in Token : t = req[q].tok
      BY <1>6 DEF CompareAndRotate, CallsCarryTokens
  <2>2. PICK s \in Sessions : s = t.sid
      BY DEF Token
  <2>3. CASE Live(s) /\ sessions[s].cur = t.gen
    <3>1. sessions' = [sessions EXCEPT ![s] = Rotated(t)] /\ now' = now
        BY <1>6, <2>1, <2>2, <2>3 DEF CompareAndRotate
    <3>2. sessions'[s] = Rotated(t) /\ now + RefreshTTL > now
        BY <3>1
    <3>3. Live(s)' /\ gen(s)' = gen(s) + 1
        BY <2>2, <2>3, <3>1, <3>2, RotatedDoc DEF Live
    <3>4. Life(s) = "alive" /\ Life(s)' = "alive"
        BY <2>3, <3>3 DEF Life, Live
    <3>5. \A r \in Sessions \ {s} : Life(r)' = Life(r) /\ gen(r)' = gen(r)
        BY <3>1 DEF Life, Live
    <3>6. Lineage!Advance(s)
        BY <3>3, <3>4, <3>5 DEF Lineage!Advance
    <3> QED
        BY <3>6 DEF Lineage!LineageNext
  <2>4. CASE ~(Live(s) /\ sessions[s].cur = t.gen)
      BY <1>6, <2>1, <2>2, <2>4 DEF CompareAndRotate, Life, Live
  <2> QED
      BY <2>3, <2>4
<1> QED
    BY <1>2, <1>3, <1>4, <1>5, <1>6, StepChangesSessions DEF SessionChange

(* For any number of sessions, calls in flight, clock bounds and losses,   *)
(* the refresh-token rotation implements its promise: every session's      *)
(* chain advances one step at a time while it lives, and death is final.   *)
THEOREM SessionsImplementLineage == Spec => ImplementsLineage
<1>1. Init => UnbornUntouched /\ Lineage!LineageInit
    BY DEF Init, ServerInit, UnbornUntouched, Unborn, Lineage!LineageInit, Life
<1> QED
    BY <1>1, InitTypeInv, NextTypeInv, NextUnbornUntouched, StepRefines, PTL
    DEF Spec, ImplementsLineage, Lineage!LineageSpec

-----------------------------------------------------------------------------
(***************************************************************************)
(* The proof that a device never loses touch with a live session           *)
(* (StoredRecoverable), along the invariant RecoverableInv of AuthSession. *)
(* Each lemma shows that a step keeps one part of it.                      *)
(***************************************************************************)

Inv == TypeInv /\ RecoverableInv

LEMMA InitRecoverable == Init => RecoverableInv
    BY AuthAssumption
    DEF Init, ServerInit, RecoverableInv, TokensKnown, NothingFromTheFuture,
        CallsOfRefreshes, Waiting, OnlyTheFirstRuns, OneOutcome, OneSignIn, PhaseInv,
        RefreshesStored, CallsBehindStored, NewSessionUnused,
        StoredRecoverable, FreeCall, Idle, InQueue, Clearing, Running, Epochs

LEMMA EpochsAreNumbers == \A e \in Epochs : e \in Nat
    BY AuthAssumption DEF Epochs

-----------------------------------------------------------------------------
(* How a step changes the queue of writes                                  *)

(* w joined the queue, at its end.                                         *)
Joins(w) ==
    \E n \in Nat :
        /\ n \notin DOMAIN writes
        /\ DOMAIN writes' = DOMAIN writes \cup {n}
        /\ writes'[n] = w
        /\ \A i \in DOMAIN writes : writes'[i] = writes[i]

(* The first write left the queue.                                         *)
Leaves ==
    /\ writes # <<>>
    /\ 1 \in DOMAIN writes
    /\ Head(writes) = writes[1]
    /\ \A i \in DOMAIN writes' :
         i \in Nat \ {0} /\ i + 1 \in DOMAIN writes /\ writes'[i] = writes[i + 1]

(* The first write starts to run.                                          *)
StartsToRun ==
    /\ 1 \in DOMAIN writes
    /\ Head(writes) = writes[1]
    /\ DOMAIN writes' = DOMAIN writes
    /\ \A i \in DOMAIN writes :
         /\ writes'[i].op = writes[i].op
         /\ writes'[i].epoch = writes[i].epoch
         /\ writes'[i].tok = writes[i].tok
         /\ i # 1 => writes'[i] = writes[i]
    /\ writes'[1].st = "running"

LEMMA QueuedJoins ==
    ASSUME TypeInv, NEW w \in Write, writes' = Queued(w)
    PROVE  Joins(w)
<1>1. writes \in Seq(Write)
    BY DEF TypeInv, TypeOK
<1>2. Len(writes) + 1 \in Nat /\ Len(writes) + 1 \notin DOMAIN writes
    BY <1>1
<1>3. /\ DOMAIN Append(writes, w) = DOMAIN writes \cup {Len(writes) + 1}
      /\ Append(writes, w)[Len(writes) + 1] = w
      /\ \A i \in DOMAIN writes : Append(writes, w)[i] = writes[i]
    BY <1>1
<1> QED
    BY <1>2, <1>3 DEF Joins, Queued

LEMMA TailLeaves ==
    ASSUME TypeInv, writes # <<>>, writes' = Tail(writes)
    PROVE  Leaves
<1>1. writes \in Seq(Write)
    BY DEF TypeInv, TypeOK
<1> QED
    BY <1>1 DEF Leaves

LEMMA BeginWriteStartsToRun ==
    ASSUME TypeInv, BeginWrite
    PROVE  StartsToRun
<1>1. writes \in Seq(Write) /\ writes # <<>>
    BY DEF TypeInv, TypeOK, BeginWrite
<1>2. 1 \in DOMAIN writes /\ Head(writes) = writes[1]
    BY <1>1
<1>3. \A i \in DOMAIN writes : writes[i] \in Write
    BY <1>1
<1>4. writes' = [writes EXCEPT ![1].st = "running"]
    BY DEF BeginWrite
<1> QED
    BY <1>2, <1>3, <1>4 DEF StartsToRun, Write

LEMMA WritesAreWrites ==
    ASSUME TypeInv
    PROVE  /\ \A i \in DOMAIN writes :
                /\ i \in Nat /\ writes[i] \in Write
                /\ writes[i].epoch \in Nat /\ writes[i].epoch \in Epochs
           /\ \A w \in ending :
                w \in Write /\ w.epoch \in Nat /\ w.epoch \in Epochs
<1>1. writes \in Seq(Write) /\ ending \in SUBSET Write
    BY DEF TypeInv, TypeOK
<1>2. \A w \in Write : w.epoch \in Epochs
    BY DEF Write
<1> QED
    BY <1>1, <1>2, EpochsAreNumbers

-----------------------------------------------------------------------------
(* The steps of a refresh                                                  *)

(* It starts for the current epoch and the stored token.                   *)
Starts(e) ==
    /\ e = epoch /\ phase # "guest" /\ stored # NoToken
    /\ refresh[e].pc = "idle"
    /\ refresh'[e].pc = "first" /\ refresh'[e].tok = stored

(* It goes on with the same token, or ends with nothing to write.          *)
GoesOn(e) ==
    /\ refresh[e].pc \in {"first", "pause", "second"}
    /\ \/ refresh'[e].pc = "idle"
       \/ /\ refresh'[e].pc \in {"pause", "second"}
          /\ refresh'[e].tok = refresh[e].tok

(* Its outcome joins the queue.                                            *)
Finishes(e) ==
    /\ refresh[e].pc \in {"first", "second"} /\ refresh[e].tok \in Token
    /\ refresh'[e].pc = "saving" /\ refresh'[e].tok = refresh[e].tok
    /\ \E w \in Write :
         /\ Joins(w) /\ w.epoch = e /\ w.st = "queued"
         /\ \/ w.op = "expire"
            \/ /\ w.op = "save" /\ w.tok = Successor(refresh[e].tok)
               /\ req[refresh[e].req].st = "granted"

RefreshShape ==
    /\ refresh' \in [Epochs -> Refresh]
    /\ UNCHANGED <<sessions, epoch, phase, user, stored, access, ending, fresh,
                   restoring>>
    /\ \E e \in Epochs :
         /\ \A d \in Epochs \ {e} : refresh'[d] = refresh[d]
         /\ \/ Starts(e) /\ UNCHANGED writes
            \/ GoesOn(e) /\ UNCHANGED writes
            \/ Finishes(e)

LEMMA RefreshStepShape ==
    ASSUME TypeInv, RefreshStep
    PROVE  RefreshShape
<1> USE DEF TypeInv, TypeOK
<1>1. ASSUME NEW q \in Requests, StartRefresh(q)
      PROVE  RefreshShape
    BY <1>1 DEF StartRefresh, RefreshShape, Starts, Refresh
<1>2. ASSUME NEW e \in Epochs, ReceiveGranted(e) \/ ReceiveRejected(e)
      PROVE  RefreshShape
  <2>1. refresh[e].tok \in Token /\ Successor(refresh[e].tok) \in Token
      BY <1>2, SuccessorType
      DEF ReceiveGranted, ReceiveRejected, RefreshesCarryTokens, Waiting
  <2> DEFINE save == WriteOf("save", e, Successor(refresh[e].tok))
             expire == WriteOf("expire", e, refresh[e].tok)
  <2>2. /\ save \in Write /\ save.op = "save" /\ save.epoch = e /\ save.st = "queued"
        /\ save.tok = Successor(refresh[e].tok)
        /\ expire \in Write /\ expire.op = "expire" /\ expire.epoch = e
        /\ expire.st = "queued"
      BY <2>1, WriteOfType DEF WriteOf
  <2> HIDE DEF save, expire
  <2>3. CASE ReceiveGranted(e)
    <3>1. Joins(save)
        BY <2>2, <2>3, QueuedJoins DEF ReceiveGranted, save
    <3>2. Finishes(e)
        BY <2>1, <2>2, <2>3, <3>1 DEF ReceiveGranted, Finishes, Waiting, Refresh
    <3> QED
        BY <2>3, <3>2, ZenonT(60) DEF ReceiveGranted, RefreshShape, Refresh
  <2>4. CASE ReceiveRejected(e) /\ e = epoch
    <3>1. Joins(expire)
        BY <2>2, <2>4, QueuedJoins DEF ReceiveRejected, expire
    <3>2. Finishes(e)
        BY <2>1, <2>2, <2>4, <3>1 DEF ReceiveRejected, Finishes, Waiting, Refresh
    <3> QED
        BY <2>4, <3>2 DEF ReceiveRejected, RefreshShape, Refresh
  <2>5. CASE ReceiveRejected(e) /\ e # epoch
      BY <2>5 DEF ReceiveRejected, RefreshShape, GoesOn, Waiting, Refresh, Idle
  <2> QED
      BY <1>2, <2>3, <2>4, <2>5
<1>3. ASSUME NEW e \in Epochs, ReceiveThrottled(e)
      PROVE  RefreshShape
    BY <1>3 DEF ReceiveThrottled, RefreshShape, GoesOn, Waiting, Refresh, Idle
<1>4. ASSUME NEW e \in Epochs, GiveUp(e)
      PROVE  RefreshShape
  <2>1. refresh[e].pc \in {"first", "second"}
      BY <1>4 DEF GiveUp, Waiting
  <2>2. CASE refresh[e].pc = "second"
    <3>1. Idle \in Refresh /\ refresh' = [refresh EXCEPT ![e] = Idle]
        BY <1>4, <2>2 DEF GiveUp, Idle, Refresh
    <3> QED
        BY <1>4, <2>2, <3>1 DEF GiveUp, RefreshShape, GoesOn, Idle
  <2>3. CASE refresh[e].pc = "first"
    <3> DEFINE r == [refresh[e] EXCEPT !.pc = "pause", !.req = NoRequest]
    <3>1. r \in Refresh /\ r.pc = "pause" /\ r.tok = refresh[e].tok
        BY DEF Refresh
    <3>2. refresh' = [refresh EXCEPT ![e] = r]
        BY <1>4, <2>3 DEF GiveUp
    <3> HIDE DEF r
    <3> QED
        BY <1>4, <2>3, <3>1, <3>2 DEF GiveUp, RefreshShape, GoesOn
  <2> QED
      BY <2>1, <2>2, <2>3
<1>5. ASSUME NEW e \in Epochs, NEW q \in Requests, Retry(e, q)
      PROVE  RefreshShape
    BY <1>5 DEF Retry, RefreshShape, GoesOn, Refresh
<1> QED
    BY <1>1, <1>2, <1>3, <1>4, <1>5 DEF RefreshStep

-----------------------------------------------------------------------------
(* NothingFromTheFuture, OnlyTheFirstRuns, OneOutcome, OneSignIn           *)

(* The queue and the epoch across the remaining steps of the device.       *)
LEMMA SignInShape ==
    ASSUME TypeInv, HandleSignInSuccess
    PROVE  \E w \in Write :
             /\ Joins(w) /\ w.op = "signin" /\ w.st = "queued"
             /\ w.epoch = epoch + 1 /\ w.tok = fresh.tok
<1> DEFINE w == WriteOf("signin", epoch + 1, fresh.tok)
<1>1. epoch + 1 \in Epochs /\ fresh.tok \in Token
    BY AuthAssumption
    DEF TypeInv, TypeOK, HandleSignInSuccess, Epochs, FreshCarriesToken
<1>2. w \in Write
    BY <1>1, WriteOfType
<1>3. Joins(w)
    BY <1>2, QueuedJoins DEF HandleSignInSuccess
<1> QED
    BY <1>2, <1>3 DEF WriteOf

LEMMA ClearShape ==
    ASSUME TypeInv, NEW w \in ending, ClearPersistedSession(w)
    PROVE  Joins(w) /\ w \in Write /\ w.op = "clear"
<1>1. w \in Write /\ w.op = "clear"
    BY DEF TypeInv, TypeOK, EndingsAreClears
<1> QED
    BY <1>1, QueuedJoins DEF ClearPersistedSession

(* The steps that take the first write off the queue.                      *)
FinishWrite == DropWrite \/ FinishSave \/ FinishSignIn \/ FinishExpire \/ FinishClear

LEMMA FinishShape ==
    ASSUME TypeInv, FinishWrite
    PROVE  Leaves
    BY TailLeaves
    DEF FinishWrite, DropWrite, FinishSave, FinishSignIn, FinishExpire,
        FinishClear, Running

LEMMA FinishWriteShape ==
    ASSUME TypeInv, FinishWrite
    PROVE  /\ refresh' \in [Epochs -> Refresh]
           /\ \A e \in Epochs : refresh'[e] = refresh[e] \/ refresh'[e].pc = "idle"
           /\ \A e \in Epochs :
                refresh'[e] # refresh[e] =>
                  e = Head(writes).epoch /\ Head(writes).op \in {"save", "expire"}
<1> USE DEF TypeInv, TypeOK
<1>1. refresh \in [Epochs -> Refresh] /\ Idle \in Refresh /\ Idle.pc = "idle"
    BY DEF Idle, Refresh
<1> HIDE DEF TypeInv, TypeOK
<1> USE <1>1
<1>2. CASE DropWrite
    BY <1>2 DEF DropWrite, RefreshDone
<1>3. CASE FinishSave
    BY <1>3 DEF FinishSave, RefreshDone
<1>4. CASE FinishSignIn
    BY <1>4 DEF FinishSignIn
<1>5. CASE FinishExpire
    BY <1>5 DEF FinishExpire, RefreshDone
<1>6. CASE FinishClear
    BY <1>6 DEF FinishClear
<1> QED
    BY <1>2, <1>3, <1>4, <1>5, <1>6 DEF FinishWrite

(* A step that leaves the queue and the refreshes alone.                   *)
Quiet == UNCHANGED <<refresh, writes>>

LEMMA QuietSteps ==
    ASSUME Server \/ RestoreStep \/ UNCHANGED vars
    PROVE  Quiet /\ UNCHANGED <<epoch, ending, fresh>>
    BY DEF Server, RestoreStep, RestoreSignedIn, RestoreGuest, RestoreLook,
           RestoreClear, vars, authVars, Quiet

LEMMA StepKinds ==
    ASSUME [Next]_vars
    PROVE  \/ Server \/ RestoreStep \/ UNCHANGED vars
           \/ RefreshStep \/ Restart \/ BeginWrite \/ FinishWrite
           \/ HandleSignInSuccess \/ SignOut
           \/ \E s \in Sessions : SignIn(s)
           \/ \E w \in ending : ClearPersistedSession(w)
    BY DEF Next, SessionStep, WriteStep, FinishWrite

LEMMA FutureStep ==
    ASSUME Inv, [Next]_vars
    PROVE  NothingFromTheFuture'
<1>1. /\ TypeInv /\ NothingFromTheFuture /\ epoch \in Nat
      /\ \A e \in Epochs : e \in Nat
    BY EpochsAreNumbers DEF Inv, RecoverableInv, TypeInv, TypeOK
<1>2. /\ \A i \in DOMAIN writes : writes[i].epoch \in Nat
      /\ \A w \in ending : w.epoch \in Nat
    BY <1>1, WritesAreWrites
<1> USE <1>1, <1>2 DEF NothingFromTheFuture
<1>3. ASSUME NEW w, Joins(w), w.epoch <= epoch', epoch' \in {epoch, epoch + 1}
      PROVE  \A i \in DOMAIN writes' : writes'[i].epoch <= epoch'
    BY <1>3 DEF Joins
<1>4. CASE Server \/ RestoreStep \/ UNCHANGED vars
    BY <1>4, QuietSteps DEF Quiet
<1>5. CASE RefreshStep
  <2>1. UNCHANGED <<epoch, ending>>
      BY <1>5, RefreshStepShape DEF RefreshShape
  <2>2. PICK e \in Epochs :
          /\ \A d \in Epochs \ {e} : refresh'[d] = refresh[d]
          /\ \/ Starts(e) /\ UNCHANGED writes
             \/ GoesOn(e) /\ UNCHANGED writes
             \/ Finishes(e)
      BY <1>5, RefreshStepShape DEF RefreshShape
  <2>3. e <= epoch
      BY <2>2 DEF Starts, GoesOn, Finishes
  <2>4. \A i \in DOMAIN writes' : writes'[i].epoch <= epoch'
      BY <1>3, <2>1, <2>2, <2>3 DEF Starts, GoesOn, Finishes
  <2> QED
      BY <2>1, <2>2, <2>3, <2>4
<1>6. CASE Restart
    BY <1>6 DEF Restart, Idle
<1>7. CASE BeginWrite
    BY <1>7, BeginWriteStartsToRun DEF BeginWrite, StartsToRun
<1>8. CASE FinishWrite
  <2>1. epoch' \in {epoch, epoch + 1}
      BY <1>8
      DEF FinishWrite, DropWrite, FinishSave, FinishSignIn, FinishExpire,
          EndSession, FinishClear, serverVars
  <2>2. \A w \in ending' : w \in ending \/ w.epoch = epoch'
      BY <1>8
      DEF FinishWrite, DropWrite, FinishSave, FinishSignIn, FinishExpire,
          EndSession, WriteOf, FinishClear
  <2>3. \A i \in DOMAIN writes' : writes'[i].epoch <= epoch'
      BY <1>8, <2>1, FinishShape DEF Leaves
  <2>4. \A e \in Epochs : refresh'[e].pc # "idle" => e <= epoch'
      BY <1>8, <2>1, FinishWriteShape
  <2>5. \A w \in ending' : w.epoch <= epoch'
      BY <2>1, <2>2
  <2> QED
      BY <2>3, <2>4, <2>5
<1>9. CASE HandleSignInSuccess
  <2>1. epoch' = epoch + 1 /\ UNCHANGED <<refresh, ending>>
      BY <1>9 DEF HandleSignInSuccess
  <2>2. \A i \in DOMAIN writes' : writes'[i].epoch <= epoch'
      BY <1>3, <1>9, <2>1, SignInShape
  <2> QED
      BY <2>1, <2>2
<1>10. CASE SignOut
  <2>1. epoch' = epoch + 1 /\ UNCHANGED <<refresh, writes>>
      BY <1>10 DEF SignOut, EndSession
  <2>2. \A w \in ending' : w \in ending \/ w.epoch = epoch'
      BY <1>10 DEF SignOut, EndSession, WriteOf
  <2> QED
      BY <2>1, <2>2
<1>11. ASSUME NEW s \in Sessions, SignIn(s)
       PROVE  NothingFromTheFuture'
    BY <1>11 DEF SignIn
<1>12. ASSUME NEW w \in ending, ClearPersistedSession(w)
       PROVE  NothingFromTheFuture'
  <2>1. /\ UNCHANGED <<epoch, refresh>>
        /\ \A v \in ending' : v \in ending
      BY <1>12 DEF ClearPersistedSession
  <2>2. \A i \in DOMAIN writes' : writes'[i].epoch <= epoch'
      BY <1>3, <1>12, <2>1, ClearShape
  <2> QED
      BY <2>1, <2>2
<1> QED
    BY <1>4, <1>5, <1>6, <1>7, <1>8, <1>9, <1>10, <1>11, <1>12, StepKinds

LEMMA OnlyTheFirstRunsStep ==
    ASSUME Inv, [Next]_vars
    PROVE  OnlyTheFirstRuns'
<1>1. TypeInv /\ OnlyTheFirstRuns
    BY DEF Inv, RecoverableInv
<1> USE <1>1 DEF OnlyTheFirstRuns
<1>2. ASSUME NEW w, Joins(w), w.st = "queued"
      PROVE  OnlyTheFirstRuns'
    BY <1>2 DEF Joins
<1>3. CASE Server \/ RestoreStep \/ UNCHANGED vars
    BY <1>3, QuietSteps DEF Quiet
<1>4. CASE RefreshStep
  <2>1. UNCHANGED writes
          \/ \E w \in Write : Joins(w) /\ w.st = "queued"
      BY <1>4, RefreshStepShape DEF RefreshShape, Finishes
  <2> QED
      BY <1>2, <2>1
<1>5. CASE Restart
    BY <1>5 DEF Restart
<1>6. CASE BeginWrite
    BY <1>6, BeginWriteStartsToRun DEF StartsToRun
<1>7. CASE FinishWrite
  <2>1. \A i \in DOMAIN writes : i \in Nat
      BY WritesAreWrites
  <2> QED
      BY <1>7, <2>1, FinishShape DEF Leaves
<1>8. CASE HandleSignInSuccess
    BY <1>2, <1>8, SignInShape
<1>9. CASE SignOut
    BY <1>9 DEF SignOut
<1>10. ASSUME NEW s \in Sessions, SignIn(s)
       PROVE  OnlyTheFirstRuns'
    BY <1>10 DEF SignIn
<1>11. ASSUME NEW w \in ending, ClearPersistedSession(w)
       PROVE  OnlyTheFirstRuns'
  <2>1. w.st = "queued"
      BY <1>11 DEF TypeInv, EndingsAreClears
  <2> QED
      BY <1>2, <1>11, <2>1, ClearShape
<1> QED
    BY <1>3, <1>4, <1>5, <1>6, <1>7, <1>8, <1>9, <1>10, <1>11, StepKinds

LEMMA OneSignInStep ==
    ASSUME Inv, [Next]_vars
    PROVE  OneSignIn'
<1>1. TypeInv /\ OneSignIn
    BY DEF Inv, RecoverableInv
<1> USE <1>1 DEF OneSignIn, InQueue
<1>2. ASSUME NEW w, Joins(w), w.op # "signin", fresh' = fresh
      PROVE  OneSignIn'
    BY <1>2 DEF Joins
<1>3. CASE Server \/ RestoreStep \/ UNCHANGED vars
    BY <1>3, QuietSteps DEF Quiet
<1>4. CASE RefreshStep
  <2>1. /\ fresh' = fresh
        /\ \/ UNCHANGED writes
           \/ \E w \in Write : Joins(w) /\ w.op \in {"save", "expire"}
      BY <1>4, RefreshStepShape DEF RefreshShape, Finishes
  <2> QED
      BY <1>2, <2>1
<1>5. CASE Restart
    BY <1>5 DEF Restart
<1>6. CASE BeginWrite
    BY <1>6, BeginWriteStartsToRun DEF BeginWrite, StartsToRun
<1>7. CASE FinishWrite
  <2>1. fresh' = fresh
      BY <1>7
      DEF FinishWrite, DropWrite, FinishSave, FinishSignIn, FinishExpire,
          FinishClear
  <2> QED
      BY <1>7, <2>1, FinishShape DEF Leaves
<1>8. CASE HandleSignInSuccess
  <2>1. fresh # NoFresh /\ fresh' = NoFresh
      BY <1>8 DEF HandleSignInSuccess
  <2>2. \A i \in DOMAIN writes : writes[i].op # "signin"
      BY <2>1
  <2> QED
      BY <1>8, <2>1, <2>2, SignInShape DEF Joins
<1>9. CASE SignOut
    BY <1>9 DEF SignOut
<1>10. ASSUME NEW s \in Sessions, SignIn(s)
       PROVE  OneSignIn'
    BY <1>10 DEF SignIn
<1>11. ASSUME NEW w \in ending, ClearPersistedSession(w)
       PROVE  OneSignIn'
  <2>1. fresh' = fresh
      BY <1>11 DEF ClearPersistedSession
  <2> QED
      BY <1>2, <1>11, <2>1, ClearShape
<1> QED
    BY <1>3, <1>4, <1>5, <1>6, <1>7, <1>8, <1>9, <1>10, <1>11, StepKinds

-----------------------------------------------------------------------------
(* Where calls and sessions come from                                      *)

RefreshCall(q) == req[q].st # "free" /\ req[q].kind = "refresh"

(* Known(t), after the step. *)
KnownAfter(t) == sessions'[t.sid].state # "unborn" /\ t.gen <= sessions'[t.sid].cur

(* A call that was there before, granted before or by this very step;      *)
(* a refresh's first call; a refresh's retry.                              *)
CallSource(q) ==
    \/ /\ RefreshCall(q) /\ req'[q].tok = req[q].tok
       /\ req'[q].st = "granted" =>
            req[q].st = "granted" \/ KnownAfter(Successor(req[q].tok))
    \/ req'[q].st = "sent" /\ req'[q].tok = stored /\ stored # NoToken /\ phase # "guest"
    \/ req'[q].st = "sent"
         /\ \E e \in Epochs : refresh[e].pc = "pause" /\ req'[q].tok = refresh[e].tok

CallsSourced == \A q \in Requests : RefreshCall(q)' => CallSource(q)

LEMMA ReqIsFunction == TypeInv => req \in [Requests -> Call]
    BY DEF TypeInv, TypeOK, ServerTypeOK

LEMMA FreedSourced ==
    ASSUME TypeInv, NEW q, req' = [req EXCEPT ![q] = FreeCall]
    PROVE  CallsSourced
    BY ReqIsFunction DEF CallsSourced, RefreshCall, CallSource, FreeCall

LEMMA AbandonedSourced ==
    ASSUME TypeInv, NEW q \in Requests, RefreshCall(q)', req'[q] = Abandon(q)
    PROVE  CallSource(q)
    BY ReqIsFunction DEF RefreshCall, CallSource, FreeCall, Abandon, Call

LEMMA AnswerSourced ==
    ASSUME TypeInv, NEW q \in Requests, req[q].st # "free",
           NEW outcome, outcome = "granted" => KnownAfter(Successor(req[q].tok)),
           req' = Answer(q, outcome)
    PROVE  CallsSourced
    BY ReqIsFunction DEF CallsSourced, RefreshCall, CallSource, FreeCall, Answer, Call

LEMMA LogoutSourced ==
    ASSUME TypeInv, NEW tok, RevokeAtServer(tok)
    PROVE  CallsSourced
    BY ReqIsFunction DEF RevokeAtServer, Send, CallsSourced, RefreshCall, CallSource

(* The sessions across a server's step. *)
SessionSteps ==
    \A s \in Sessions :
        /\ sessions[s].state # "unborn" =>
             sessions'[s].state # "unborn" /\ sessions[s].cur <= sessions'[s].cur
        /\ \/ sessions'[s].cur = sessions[s].cur
           \/ sessions[s].state = "unborn" /\ sessions'[s].cur = 0
           \/ /\ Live(s) /\ sessions'[s].cur = sessions[s].cur + 1
              /\ \E q \in Requests :
                   /\ RefreshCall(q) /\ req[q].tok.sid = s
                   /\ req[q].tok.gen = sessions[s].cur
        /\ Live(s)' => Live(s) \/ sessions[s].state = "unborn"

LEMMA RevokedSteps ==
    ASSUME TypeInv, NEW r \in Sessions, sessions' = Revoked(r), now' = now
    PROVE  SessionSteps
<1>1. sessions \in [Sessions -> SessionDoc]
    BY DEF TypeInv, TypeOK, ServerTypeOK
<1>2. \A s \in Sessions :
        /\ sessions'[s].state = sessions[s].state
        /\ sessions'[s].cur = sessions[s].cur /\ sessions[s].cur \in Nat
        /\ sessions'[s].expiresAt = sessions[s].expiresAt
        /\ sessions[s].revoked => sessions'[s].revoked
    BY <1>1 DEF Revoked, SessionDoc
<1> QED
    BY <1>2 DEF SessionSteps, Live

LEMMA SameSessions ==
    ASSUME TypeInv, sessions' = sessions, now' = now
    PROVE  SessionSteps
<1>1. \A s \in Sessions : sessions[s].cur \in Nat
    BY DEF TypeInv, TypeOK, ServerTypeOK, SessionDoc
<1> QED
    BY <1>1 DEF SessionSteps, Live

LEMMA RotationSteps ==
    ASSUME TypeInv, NEW q \in Requests, CompareAndRotate(q)
    PROVE  SessionSteps /\ CallsSourced
<1> DEFINE t == req[q].tok
<1>1. /\ RefreshCall(q) /\ t \in Token /\ t.sid \in Sessions /\ t.gen \in Nat
      /\ now' = now /\ now \in Nat
    BY DEF CompareAndRotate, RefreshCall, TypeInv, TypeOK, ServerTypeOK,
           CallsCarryTokens, Token
<1>2. sessions \in [Sessions -> SessionDoc]
    BY DEF TypeInv, TypeOK, ServerTypeOK
<1>3. CASE Live(t.sid) /\ sessions[t.sid].cur = t.gen
  <2>1. Successor(t).gen = t.gen + 1 /\ Successor(t).sid = t.sid
      BY <1>1, SuccessorType
  <2>2. Rotated(t).cur = t.gen + 1 /\ Rotated(t).state = "stored"
      BY <1>2, <1>1, <1>3, <2>1 DEF Rotated, SessionDoc, Live
  <2>3. \A s \in Sessions : sessions'[s] = IF s = t.sid THEN Rotated(t) ELSE sessions[s]
      BY <1>2, <1>3 DEF CompareAndRotate
  <2>4. \A s \in Sessions : sessions[s].cur \in Nat
      BY <1>2 DEF SessionDoc
  <2>5. SessionSteps
      BY <1>1, <1>3, <2>2, <2>3, <2>4 DEF SessionSteps, Live
  <2>6. KnownAfter(Successor(t))
      BY <1>1, <2>1, <2>2, <2>3 DEF KnownAfter
  <2>7. CallsSourced
      BY <1>1, <1>3, <2>6, AnswerSourced DEF CompareAndRotate
  <2> QED
      BY <2>5, <2>7
<1>4. CASE ~(Live(t.sid) /\ sessions[t.sid].cur = t.gen)
  <2>1. sessions' = sessions /\ req' = [req EXCEPT ![q].st = "missed", ![q].at = now]
      BY <1>4 DEF CompareAndRotate
  <2>2. CallsSourced
      BY <1>1, <2>1, ReqIsFunction DEF CallsSourced, CallSource, RefreshCall, Call
  <2> QED
      BY <1>1, <2>1, <2>2, SameSessions
<1> QED
    BY <1>3, <1>4

LEMMA FindSteps ==
    ASSUME TypeInv, NEW q \in Requests, FindSession(q)
    PROVE  SessionSteps /\ CallsSourced
<1> DEFINE t == req[q].tok
<1>1. t \in Token /\ sessions' = sessions /\ now' = now /\ req[q].st = "missed"
    BY DEF FindSession, TypeInv, CallsCarryTokens
<1>2. CASE req' = Answer(q, "rejected")
    BY <1>1, <1>2, SameSessions, AnswerSourced
<1>3. CASE req' = Answer(q, "granted") /\ IsRetryOfLastRotation(q) /\ ~DeadAt(t.sid, req[q].at)
  <2> DEFINE n == Successor(t)
  <2>1. Known(n)
    <3>1. n \in Token /\ n.sid = t.sid /\ n.gen \in Nat
        BY <1>1, SuccessorType DEF Token
    <3>2. sessions[t.sid].cur = n.gen /\ sessions[t.sid].state = "stored"
        BY <1>3 DEF IsRetryOfLastRotation, DeadAt
    <3> QED
        BY <3>1, <3>2 DEF Known
  <2>2. KnownAfter(Successor(t))
      BY <1>1, <2>1 DEF Known, KnownAfter
  <2> QED
      BY <1>1, <1>3, <2>2, SameSessions, AnswerSourced
<1>4. CASE req' = [req EXCEPT ![q].st = "reuse"]
  <2>1. CallsSourced
      BY <1>1, <1>4, ReqIsFunction DEF CallsSourced, CallSource, RefreshCall, Call
  <2> QED
      BY <1>1, <2>1, SameSessions
<1> QED
    BY <1>2, <1>3, <1>4 DEF FindSession

LEMMA ServerSteps ==
    ASSUME TypeInv, ServerStep
    PROVE  SessionSteps /\ CallsSourced
<1>1. sessions \in [Sessions -> SessionDoc] /\ now \in Nat
    BY DEF TypeInv, TypeOK, ServerTypeOK
<1>2. CASE Tick
  <2>1. sessions' = sessions /\ now' = now + 1 /\ req' = req
      BY <1>2 DEF Tick
  <2>2. \A s \in Sessions : sessions[s].cur \in Nat /\ sessions[s].expiresAt \in Nat
      BY <1>1 DEF SessionDoc
  <2>3. SessionSteps
      BY <1>1, <2>1, <2>2 DEF SessionSteps, Live
  <2> QED
      BY <2>1, <2>3 DEF CallsSourced, CallSource, RefreshCall
<1>3. ASSUME NEW q \in Requests, CompareAndRotate(q)
      PROVE  SessionSteps /\ CallsSourced
    BY <1>3, RotationSteps
<1>4. ASSUME NEW q \in Requests, FindSession(q)
      PROVE  SessionSteps /\ CallsSourced
    BY <1>4, FindSteps
<1>5. ASSUME NEW q \in Requests, RevokeForReuse(q) \/ Logout(q)
      PROVE  SessionSteps /\ CallsSourced
  <2>1. /\ req[q].st # "free" /\ req[q].tok.sid \in Sessions
        /\ sessions' = Revoked(req[q].tok.sid) /\ now' = now
      BY <1>5 DEF RevokeForReuse, Logout, TypeInv, CallsCarryTokens, Token
  <2>2. SessionSteps
      BY <2>1, RevokedSteps
  <2>3. CallsSourced
      BY <1>5, <2>1, AnswerSourced, FreedSourced DEF RevokeForReuse, Logout
  <2> QED
      BY <2>2, <2>3
<1>6. ASSUME NEW q \in Requests, Throttle(q) \/ LoseCall(q)
      PROVE  SessionSteps /\ CallsSourced
  <2>1. sessions' = sessions /\ now' = now /\ req[q].st # "free"
      BY <1>6 DEF Throttle, LoseCall
  <2>2. CallsSourced
      BY <1>6, <2>1, AnswerSourced, FreedSourced DEF Throttle, LoseCall
  <2> QED
      BY <2>1, <2>2, SameSessions
<1>7. ASSUME NEW r \in Sessions, RemoveSession(r)
      PROVE  SessionSteps /\ CallsSourced
  <2>1. /\ Removed(r).state = "removed" /\ Removed(r).cur = sessions[r].cur
      BY DEF Removed, Unborn
  <2>2. /\ \A s \in Sessions : sessions'[s] = IF s = r THEN Removed(r) ELSE sessions[s]
        /\ req' = req /\ now' = now
      BY <1>1, <1>7 DEF RemoveSession
  <2>3. \A s \in Sessions : sessions[s].cur \in Nat
      BY <1>1 DEF SessionDoc
  <2>4. SessionSteps
      BY <2>1, <2>2, <2>3 DEF SessionSteps, Live
  <2> QED
      BY <2>2, <2>4 DEF CallsSourced, CallSource, RefreshCall
<1> QED
    BY <1>2, <1>3, <1>4, <1>5, <1>6, <1>7 DEF ServerStep

LEMMA SentSourced ==
    ASSUME TypeInv, NEW q \in Requests, NEW tok, Send(q, "refresh", tok, TRUE),
           \/ tok = stored /\ stored # NoToken /\ phase # "guest"
           \/ \E e \in Epochs : refresh[e].pc = "pause" /\ tok = refresh[e].tok
    PROVE  CallsSourced
<1>1. /\ req'[q].st = "sent" /\ req'[q].tok = tok
      /\ \A r \in Requests \ {q} : req'[r] = req[r]
    BY ReqIsFunction DEF Send
<1> QED
    BY <1>1 DEF CallsSourced, CallSource, RefreshCall

LEMMA DeviceCalls ==
    ASSUME TypeInv, [Next]_vars, ~Server
    PROVE  CallsSourced
<1>1. ASSUME NEW q \in Requests, StartRefresh(q)
      PROVE  CallsSourced
  <2>1. stored # NoToken /\ phase # "guest" /\ Send(q, "refresh", stored, TRUE)
      BY <1>1 DEF StartRefresh
  <2> QED
      BY <2>1, SentSourced
<1>2. ASSUME NEW e \in Epochs, ReceiveGranted(e) \/ ReceiveRejected(e) \/ ReceiveThrottled(e)
      PROVE  CallsSourced
    BY <1>2, FreedSourced DEF ReceiveGranted, ReceiveRejected, ReceiveThrottled
<1>3. ASSUME NEW e \in Epochs, GiveUp(e)
      PROVE  CallsSourced
  <2>1. \A q \in Requests : req'[q] \in {req[q], Abandon(q)}
      BY <1>3, ReqIsFunction DEF GiveUp
  <2>2. ASSUME NEW q \in Requests, RefreshCall(q)'
        PROVE  CallSource(q)
    <3>1. CASE req'[q] = req[q]
        BY <2>2, <3>1 DEF RefreshCall, CallSource
    <3>2. CASE req'[q] = Abandon(q)
        BY <2>2, <3>2, AbandonedSourced
    <3> QED
        BY <2>1, <3>1, <3>2
  <2> QED
      BY <2>2 DEF CallsSourced
<1>4. ASSUME NEW e \in Epochs, NEW q \in Requests, Retry(e, q)
      PROVE  CallsSourced
  <2>1. refresh[e].pc = "pause" /\ Send(q, "refresh", refresh[e].tok, TRUE)
      BY <1>4 DEF Retry
  <2> QED
      BY <2>1, SentSourced
<1>5. CASE Restart
  <2>1. \A q \in Requests : req'[q] = Abandon(q)
      BY <1>5 DEF Restart
  <2> QED
      BY <2>1, AbandonedSourced DEF CallsSourced
<1>6. CASE FinishWrite
  <2>1. req' = req \/ \E tok : RevokeAtServer(tok)
      BY <1>6
      DEF FinishWrite, DropWrite, FinishSave, FinishSignIn, FinishExpire,
          FinishClear, serverVars
  <2>2. CASE req' = req
      BY <2>2 DEF CallsSourced, CallSource, RefreshCall
  <2> QED
      BY <2>1, <2>2, LogoutSourced
<1>7. CASE req' = req
    BY <1>7 DEF CallsSourced, CallSource, RefreshCall
<1>8. \/ req' = req \/ RefreshStep \/ Restart \/ FinishWrite
    BY StepKinds
    DEF Server, RestoreStep, RestoreSignedIn, RestoreGuest, RestoreLook, RestoreClear,
        vars, serverVars, BeginWrite, HandleSignInSuccess, SignOut, EndSession,
        SignIn, ClearPersistedSession
<1> QED
    BY <1>1, <1>2, <1>3, <1>4, <1>5, <1>6, <1>7, <1>8 DEF RefreshStep

LEMMA CallsStep ==
    ASSUME TypeInv, [Next]_vars
    PROVE  CallsSourced
    BY DeviceCalls, ServerSteps DEF Server

LEMMA SessionsStep ==
    ASSUME TypeInv, [Next]_vars
    PROVE  SessionSteps
<1>1. ASSUME NEW s \in Sessions, SignIn(s)
      PROVE  SessionSteps
  <2>1. sessions \in [Sessions -> SessionDoc]
      BY DEF TypeInv, TypeOK, ServerTypeOK
  <2>2. /\ sessions[s].state = "unborn" /\ now' = now
        /\ \A r \in Sessions : sessions'[r] = IF r = s THEN NewSession ELSE sessions[r]
      BY <1>1, <2>1 DEF SignIn, CreateSession
  <2>3. NewSession.cur = 0
      BY DEF NewSession, Unborn
  <2>4. \A r \in Sessions : sessions[r].cur \in Nat
      BY <2>1 DEF SessionDoc
  <2> QED
      BY <2>2, <2>3, <2>4 DEF SessionSteps, Live
<1>2. CASE UNCHANGED <<sessions, now>>
    BY <1>2, SameSessions
<1>3. UNCHANGED <<sessions, now>> \/ Server \/ (\E s \in Sessions : SignIn(s))
    BY DEF Next, RefreshStep, StartRefresh, ReceiveGranted, ReceiveRejected,
           ReceiveThrottled, GiveUp, Retry, SessionStep, HandleSignInSuccess, SignOut,
           EndSession, ClearPersistedSession, WriteStep, BeginWrite, DropWrite,
           FinishSave, FinishSignIn, FinishExpire, FinishClear, RestoreStep,
           RestoreSignedIn, RestoreGuest, RestoreLook, RestoreClear, Restart,
           vars, serverVars
<1> QED
    BY <1>1, <1>2, <1>3, ServerSteps DEF Server

-----------------------------------------------------------------------------
(* CallsOfRefreshes                                                        *)

(* The call a refresh waits for. *)
CallOf(e, q) == RefreshCall(q) /\ req[q].waited /\ req[q].tok = refresh[e].tok

LEMMA CallsOfRefreshesForm ==
    CallsOfRefreshes <=>
        /\ \A e \in Epochs : Waiting(e) => CallOf(e, refresh[e].req)
        /\ \A d, e \in Epochs :
             Waiting(d) /\ Waiting(e) /\ refresh[d].req = refresh[e].req => d = e
    BY DEF CallsOfRefreshes, CallOf, RefreshCall

(* Nothing the server does takes a call away from a client that waits.     *)
LEMMA WaitedStays ==
    ASSUME TypeInv, ServerStep, NEW q \in Requests, RefreshCall(q), req[q].waited
    PROVE  RefreshCall(q)' /\ req'[q].waited /\ req'[q].tok = req[q].tok
<1> USE ReqIsFunction DEF RefreshCall
<1>1. ASSUME NEW r \in Requests, NEW outcome \in {"granted", "rejected", "throttled"},
             req' = Answer(r, outcome)
      PROVE  RefreshCall(q)' /\ req'[q].waited /\ req'[q].tok = req[q].tok
    BY <1>1 DEF Answer, Call
<1>2. ASSUME NEW r \in Requests, CompareAndRotate(r)
      PROVE  RefreshCall(q)' /\ req'[q].waited /\ req'[q].tok = req[q].tok
  <2>1. \/ req' = Answer(r, "granted")
        \/ req' = [req EXCEPT ![r].st = "missed", ![r].at = now]
      BY <1>2 DEF CompareAndRotate
  <2>2. CASE req' = [req EXCEPT ![r].st = "missed", ![r].at = now]
      BY <2>2 DEF Call
  <2> QED
      BY <1>1, <2>1, <2>2
<1>3. ASSUME NEW r \in Requests, FindSession(r)
      PROVE  RefreshCall(q)' /\ req'[q].waited /\ req'[q].tok = req[q].tok
  <2>1. \/ req' = Answer(r, "granted")
        \/ req' = Answer(r, "rejected")
        \/ req' = [req EXCEPT ![r].st = "reuse"]
      BY <1>3 DEF FindSession
  <2>2. CASE req' = [req EXCEPT ![r].st = "reuse"]
      BY <2>2 DEF Call
  <2> QED
      BY <1>1, <2>1, <2>2
<1>4. ASSUME NEW r \in Requests, RevokeForReuse(r) \/ Throttle(r)
      PROVE  RefreshCall(q)' /\ req'[q].waited /\ req'[q].tok = req[q].tok
    BY <1>1, <1>4 DEF RevokeForReuse, Throttle
<1>5. ASSUME NEW r \in Requests, Logout(r) \/ LoseCall(r)
      PROVE  RefreshCall(q)' /\ req'[q].waited /\ req'[q].tok = req[q].tok
  <2>1. r # q /\ req' = [req EXCEPT ![r] = FreeCall]
      BY <1>5 DEF Logout, LoseCall
  <2> QED
      BY <2>1
<1>6. CASE UNCHANGED req
    BY <1>6
<1> QED
    BY <1>2, <1>3, <1>4, <1>5, <1>6 DEF ServerStep, Tick, RemoveSession

LEMMA NewCallOf ==
    ASSUME TypeInv, CallsOfRefreshes, NEW e \in Epochs, NEW q \in Requests,
           NEW tok, Send(q, "refresh", tok, TRUE), ~Waiting(e),
           \A d \in Epochs \ {e} : refresh'[d] = refresh[d],
           refresh'[e].tok = tok, refresh'[e].req = q
    PROVE  CallsOfRefreshes'
<1>1. /\ req[q].st = "free"
      /\ RefreshCall(q)' /\ req'[q].waited /\ req'[q].tok = tok
      /\ \A r \in Requests \ {q} : req'[r] = req[r]
    BY ReqIsFunction DEF Send, RefreshCall
<1>2. \A d \in Epochs : Waiting(d) => refresh[d].req \in Requests /\ refresh[d].req # q
    BY <1>1, CallsOfRefreshesForm DEF CallOf, RefreshCall, TypeInv, RefreshesCarryTokens
<1>3. \A d \in Epochs \ {e} : Waiting(d)' => Waiting(d)
    BY DEF Waiting
<1>4. \A d \in Epochs : Waiting(d)' => CallOf(d, refresh[d].req)'
    BY <1>1, <1>2, <1>3, CallsOfRefreshesForm DEF CallOf, RefreshCall
<1>5. \A c, d \in Epochs :
        Waiting(c)' /\ Waiting(d)' /\ refresh'[c].req = refresh'[d].req => c = d
    BY <1>2, <1>3, CallsOfRefreshesForm
<1>6. (/\ \A d \in Epochs : Waiting(d) => CallOf(d, refresh[d].req)
       /\ \A c, d \in Epochs :
            Waiting(c) /\ Waiting(d) /\ refresh[c].req = refresh[d].req => c = d)'
    BY <1>4, <1>5
<1> QED
    BY <1>6 DEF CallsOfRefreshes, CallOf, RefreshCall

(* No refresh begins to wait, and the calls of those that still do stay.   *)
LEMMA CallsOfStay ==
    ASSUME TypeInv, CallsOfRefreshes,
           \A e \in Epochs : Waiting(e)' =>
             /\ Waiting(e)
             /\ refresh'[e].req = refresh[e].req /\ refresh'[e].tok = refresh[e].tok
             /\ RefreshCall(refresh[e].req)' /\ req'[refresh[e].req].waited
             /\ req'[refresh[e].req].tok = req[refresh[e].req].tok
    PROVE  CallsOfRefreshes'
<1>1. \A d \in Epochs : Waiting(d)' => CallOf(d, refresh[d].req)'
    BY CallsOfRefreshesForm DEF CallOf, RefreshCall
<1>2. \A c, d \in Epochs :
        Waiting(c)' /\ Waiting(d)' /\ refresh'[c].req = refresh'[d].req => c = d
    BY CallsOfRefreshesForm
<1>3. (/\ \A d \in Epochs : Waiting(d) => CallOf(d, refresh[d].req)
       /\ \A c, d \in Epochs :
            Waiting(c) /\ Waiting(d) /\ refresh[c].req = refresh[d].req => c = d)'
    BY <1>1, <1>2
<1> QED
    BY <1>3 DEF CallsOfRefreshes, CallOf, RefreshCall

LEMMA CallsOfRefreshesStep ==
    ASSUME TypeInv, CallsOfRefreshes, [Next]_vars
    PROVE  CallsOfRefreshes'
<1>0. /\ refresh \in [Epochs -> Refresh] /\ req \in [Requests -> Call]
      /\ \A e \in Epochs : Waiting(e) =>
           /\ refresh[e].req \in Requests
           /\ RefreshCall(refresh[e].req) /\ req[refresh[e].req].waited
    BY CallsOfRefreshesForm
    DEF CallOf, TypeInv, TypeOK, ServerTypeOK, RefreshesCarryTokens
<1>1. CASE Server
  <2>1. UNCHANGED refresh
      BY <1>1 DEF Server, authVars
  <2>2. ServerStep
      BY <1>1 DEF Server
  <2> QED
      BY <1>0, <2>1, <2>2, WaitedStays, CallsOfStay DEF Waiting
<1>2. ASSUME NEW q \in Requests, StartRefresh(q)
      PROVE  CallsOfRefreshes'
  <2>1. /\ epoch \in Epochs /\ ~Waiting(epoch)
        /\ Send(q, "refresh", stored, TRUE)
        /\ refresh'[epoch].tok = stored /\ refresh'[epoch].req = q
        /\ \A d \in Epochs \ {epoch} : refresh'[d] = refresh[d]
      BY <1>0, <1>2 DEF StartRefresh, TypeInv, TypeOK, Waiting
  <2> QED
      BY <2>1, NewCallOf
<1>3. ASSUME NEW e \in Epochs, NEW q \in Requests, Retry(e, q)
      PROVE  CallsOfRefreshes'
  <2>1. /\ ~Waiting(e)
        /\ Send(q, "refresh", refresh[e].tok, TRUE)
        /\ refresh'[e].tok = refresh[e].tok /\ refresh'[e].req = q
        /\ \A d \in Epochs \ {e} : refresh'[d] = refresh[d]
      BY <1>0, <1>3 DEF Retry, Waiting, Refresh
  <2> QED
      BY <2>1, NewCallOf
<1>4. ASSUME NEW e \in Epochs,
             \/ ReceiveGranted(e) \/ ReceiveRejected(e)
             \/ ReceiveThrottled(e) \/ GiveUp(e)
      PROVE  CallsOfRefreshes'
  <2>1. /\ Waiting(e) /\ refresh'[e].pc \notin {"first", "second"}
        /\ \A d \in Epochs \ {e} : refresh'[d] = refresh[d]
    <3>1. CASE ReceiveGranted(e)
        BY <1>0, <3>1 DEF ReceiveGranted, Refresh
    <3>2. CASE ReceiveRejected(e)
        BY <1>0, <3>2 DEF ReceiveRejected, Refresh, Idle
    <3>3. CASE ReceiveThrottled(e)
        BY <1>0, <3>3 DEF ReceiveThrottled, Idle
    <3>4. CASE GiveUp(e)
        BY <1>0, <3>4 DEF GiveUp, Refresh, Idle
    <3> QED
        BY <1>4, <3>1, <3>2, <3>3, <3>4
  <2>2. \A q \in Requests \ {refresh[e].req} : req'[q] = req[q]
      BY <1>0, <1>4 DEF ReceiveGranted, ReceiveRejected, ReceiveThrottled, GiveUp
  <2>3. \A d \in Epochs : Waiting(d)' => Waiting(d) /\ d # e
      BY <2>1 DEF Waiting
  <2>4. \A d \in Epochs : Waiting(d)' => req'[refresh[d].req] = req[refresh[d].req]
      BY <1>0, <2>1, <2>2, <2>3, CallsOfRefreshesForm
  <2> QED
      BY <1>0, <2>1, <2>3, <2>4, CallsOfStay DEF RefreshCall
<1>5. CASE Restart
    BY <1>5, CallsOfStay DEF Restart, Waiting, Idle
<1>6. CASE FinishWrite
  <2>1. \A d \in Epochs : Waiting(d)' => Waiting(d) /\ refresh'[d] = refresh[d]
      BY <1>6, FinishWriteShape DEF Waiting
  <2>2. req' = req \/ \E tok : RevokeAtServer(tok)
      BY <1>6
      DEF FinishWrite, DropWrite, FinishSave, FinishSignIn, FinishExpire,
          FinishClear, serverVars
  <2>3. \A q \in Requests : req[q].st # "free" => req'[q] = req[q]
      BY <1>0, <2>2 DEF RevokeAtServer, Send
  <2> QED
      BY <1>0, <2>1, <2>3, CallsOfStay DEF RefreshCall
<1>7. CASE UNCHANGED <<req, refresh>>
    BY <1>0, <1>7, CallsOfStay DEF Waiting, RefreshCall
<1>8. \/ Server \/ RefreshStep \/ Restart \/ FinishWrite \/ UNCHANGED <<req, refresh>>
    BY StepKinds
    DEF RestoreStep, RestoreSignedIn, RestoreGuest, RestoreLook, RestoreClear,
        vars, serverVars, authVars, BeginWrite, HandleSignInSuccess, SignOut,
        EndSession, SignIn, ClearPersistedSession
<1> QED
    BY <1>1, <1>2, <1>3, <1>4, <1>5, <1>6, <1>7, <1>8 DEF RefreshStep

-----------------------------------------------------------------------------
(* OneOutcome                                                              *)

LEMMA OneOutcomeStep ==
    ASSUME Inv, [Next]_vars
    PROVE  OneOutcome'
<1>1. /\ TypeInv /\ OneOutcome /\ NothingFromTheFuture /\ epoch \in Epochs
      /\ epoch \in Nat
    BY EpochsAreNumbers DEF Inv, RecoverableInv, TypeInv, TypeOK
<1>2. \A i \in DOMAIN writes : i \in Nat /\ writes[i] \in Write /\ writes[i].epoch \in Nat
    BY <1>1, WritesAreWrites
(* A new epoch has no outcome to write. *)
<1>3. ASSUME epoch' = epoch + 1,
             \A i \in DOMAIN writes' :
               \/ writes'[i].op \notin {"save", "expire"}
               \/ \E j \in DOMAIN writes : writes'[i] = writes[j]
      PROVE  OneOutcome'
  <2>1. \A i \in DOMAIN writes' : ~(writes'[i].op \in {"save", "expire"}
                                      /\ writes'[i].epoch = epoch')
      BY <1>1, <1>2, <1>3 DEF NothingFromTheFuture
  <2> QED
      BY <2>1 DEF OneOutcome, Outcome
(* An unimportant write joins, or nothing changes. *)
<1>4. ASSUME epoch' = epoch, refresh' = refresh,
             writes' = writes \/ \E w : Joins(w) /\ w.op \notin {"save", "expire"}
      PROVE  OneOutcome'
    BY <1>1, <1>4 DEF OneOutcome, Outcome, Joins
<1>5. CASE Server \/ RestoreStep \/ UNCHANGED vars
    BY <1>4, <1>5, QuietSteps DEF Quiet
<1>6. CASE RefreshStep
  <2>1. epoch' = epoch
      BY <1>1, <1>6, RefreshStepShape DEF RefreshShape
  <2>2. PICK e \in Epochs :
          /\ \A d \in Epochs \ {e} : refresh'[d] = refresh[d]
          /\ \/ Starts(e) /\ UNCHANGED writes
             \/ GoesOn(e) /\ UNCHANGED writes
             \/ Finishes(e)
      BY <1>1, <1>6, RefreshStepShape DEF RefreshShape
  <2>3. CASE e # epoch
    <3>1. refresh'[epoch] = refresh[epoch]
        BY <1>1, <2>2, <2>3
    <3>2. UNCHANGED writes \/ \E w : Joins(w) /\ w.epoch # epoch
        BY <2>2, <2>3 DEF Finishes
    <3> QED
        BY <1>1, <2>1, <3>1, <3>2 DEF OneOutcome, Outcome, Joins
  <2>4. CASE e = epoch
    <3>1. \A i \in DOMAIN writes : ~Outcome(writes[i])
        BY <1>1, <2>2, <2>4 DEF Starts, GoesOn, Finishes, OneOutcome
    <3>2. CASE UNCHANGED writes
        BY <2>1, <3>1, <3>2 DEF OneOutcome, Outcome
    <3>3. CASE Finishes(e)
      <4>1. PICK w : Joins(w)
          BY <3>3 DEF Finishes
      <4>2. \A i, j \in DOMAIN writes' :
              writes'[i].op \in {"save", "expire"} /\ writes'[i].epoch = epoch
                /\ writes'[j].op \in {"save", "expire"} /\ writes'[j].epoch = epoch
                => i = j
          BY <3>1, <4>1 DEF Outcome, Joins
      <4> QED
          BY <2>1, <2>4, <3>3, <4>2 DEF OneOutcome, Outcome, Finishes
    <3> QED
        BY <2>2, <3>2, <3>3
  <2> QED
      BY <2>3, <2>4
<1>7. CASE Restart
    BY <1>7 DEF Restart, OneOutcome
<1>8. CASE BeginWrite
  <2>1. epoch' = epoch /\ refresh' = refresh
      BY <1>8 DEF BeginWrite
  <2> QED
      BY <1>1, <1>8, <2>1, BeginWriteStartsToRun DEF OneOutcome, Outcome, StartsToRun
<1>9. CASE FinishWrite
  <2>1. Leaves
      BY <1>1, <1>9, FinishShape
  <2>2. CASE epoch' = epoch
    <3>1. \A i \in DOMAIN writes' : Outcome(writes'[i]) => ~Outcome(writes[1])
        BY <1>1, <1>2, <2>1 DEF Leaves, OneOutcome
    <3>2. \A i \in DOMAIN writes' : Outcome(writes'[i]) => refresh'[epoch] = refresh[epoch]
        BY <1>1, <1>9, <2>1, <3>1, FinishWriteShape DEF Leaves, Outcome
    <3> QED
        BY <1>1, <2>1, <2>2, <3>2 DEF Leaves, OneOutcome, Outcome
  <2>3. CASE epoch' = epoch + 1
      BY <1>3, <2>1, <2>3 DEF Leaves
  <2> QED
      BY <1>9, <2>2, <2>3
      DEF FinishWrite, DropWrite, FinishSave, FinishSignIn, FinishExpire,
          EndSession, FinishClear, serverVars
<1>10. CASE HandleSignInSuccess
  <2>1. epoch' = epoch + 1
      BY <1>10 DEF HandleSignInSuccess
  <2> QED
      BY <1>1, <1>3, <1>10, <2>1, SignInShape DEF Joins
<1>11. CASE SignOut
    BY <1>3, <1>11 DEF SignOut, EndSession
<1>12. ASSUME NEW s \in Sessions, SignIn(s)
       PROVE  OneOutcome'
    BY <1>4, <1>12 DEF SignIn
<1>13. ASSUME NEW w \in ending, ClearPersistedSession(w)
       PROVE  OneOutcome'
  <2>1. epoch' = epoch /\ refresh' = refresh
      BY <1>13 DEF ClearPersistedSession
  <2> QED
      BY <1>1, <1>4, <1>13, <2>1, ClearShape
<1> QED
    BY <1>5, <1>6, <1>7, <1>8, <1>9, <1>10, <1>11, <1>12, <1>13, StepKinds

-----------------------------------------------------------------------------
(* PhaseInv                                                                *)

SigningIn == fresh # NoFresh \/ \E i \in DOMAIN writes : writes[i].op = "signin"
ClearRuns == 1 \in DOMAIN writes /\ writes[1].st = "running" /\ writes[1].op = "clear"
SignInOfEpoch ==
    \E i \in DOMAIN writes : writes[i].op = "signin" /\ writes[i].epoch = epoch

(* PhaseInv, with the queue spelled out. *)
PhaseParts ==
    /\ SigningIn => phase = "guest" /\ restoring = "none"
    /\ restoring # "none" => phase = "guest" /\ stored = NoToken
    /\ phase = "guest" => refresh[epoch].pc = "idle"
    /\ Clearing(epoch) => phase = "guest"
    /\ ClearRuns => phase = "guest"
    /\ SignInOfEpoch => ~Clearing(epoch)

LEMMA HeadIsFirst ==
    ASSUME NEW q \in Seq(Write)
    PROVE  /\ q # <<>> <=> 1 \in DOMAIN q
           /\ q # <<>> => Head(q) = q[1]
    OBVIOUS

LEMMA PhaseForm == TypeInv => (PhaseInv <=> PhaseParts)
<1> SUFFICES ASSUME TypeInv PROVE PhaseInv <=> PhaseParts
    OBVIOUS
<1>1. writes \in Seq(Write)
    BY DEF TypeInv, TypeOK
<1>2. Running /\ Head(writes).op = "clear" <=> ClearRuns
    BY <1>1, HeadIsFirst DEF Running, ClearRuns
<1> QED
    BY <1>2 DEF PhaseInv, PhaseParts, InQueue, SigningIn, SignInOfEpoch

LEMMA PhaseFormNext == TypeInv' => (PhaseInv' <=> PhaseParts')
<1> SUFFICES ASSUME TypeInv' PROVE PhaseInv' <=> PhaseParts'
    OBVIOUS
<1>1. writes' \in Seq(Write)
    BY DEF TypeInv, TypeOK
<1>2. (writes' # <<>> /\ Head(writes').st = "running") /\ Head(writes').op = "clear"
        <=> (1 \in DOMAIN writes' /\ writes'[1].st = "running"
               /\ writes'[1].op = "clear")
    BY <1>1, HeadIsFirst
<1>3. (Running /\ Head(writes).op = "clear")' <=> ClearRuns'
    BY <1>2 DEF Running, ClearRuns
<1> QED
    BY <1>3 DEF PhaseInv, PhaseParts, InQueue, SigningIn, SignInOfEpoch

(* The parts of the queue PhaseInv is about, across the queue's changes.   *)
LEMMA OutcomeJoins ==
    ASSUME TypeInv, NEW w \in Write, Joins(w), w.op \in {"save", "expire"},
           w.st = "queued", UNCHANGED <<epoch, ending, fresh>>
    PROVE  /\ SigningIn' => SigningIn
           /\ Clearing(epoch)' => Clearing(epoch)
           /\ ClearRuns' => ClearRuns
           /\ SignInOfEpoch' => SignInOfEpoch
    BY DEF Joins, SigningIn, Clearing, ClearRuns, SignInOfEpoch

LEMMA FirstLeaves ==
    ASSUME TypeInv, OnlyTheFirstRuns, Leaves, UNCHANGED <<epoch, ending, fresh>>
    PROVE  /\ SigningIn' => SigningIn
           /\ Clearing(epoch)' => Clearing(epoch)
           /\ ~ClearRuns'
           /\ SignInOfEpoch' => SignInOfEpoch
<1>1. \A i \in DOMAIN writes : i \in Nat
    BY WritesAreWrites
<1>2. ~ClearRuns'
    BY <1>1 DEF Leaves, ClearRuns, OnlyTheFirstRuns
<1> QED
    BY <1>2 DEF Leaves, SigningIn, Clearing, SignInOfEpoch

(* What a new epoch has in the queue: nothing but what this step adds.     *)
LEMMA NewEpochIsClear ==
    ASSUME TypeInv, NothingFromTheFuture
    PROVE  /\ \A i \in DOMAIN writes : writes[i].epoch # epoch + 1
           /\ \A w \in ending : w.epoch # epoch + 1
           /\ epoch + 1 \in Epochs => refresh[epoch + 1].pc = "idle"
<1>1. epoch \in Nat
    BY EpochsAreNumbers DEF TypeInv, TypeOK
<1> QED
    BY <1>1, WritesAreWrites, EpochsAreNumbers DEF NothingFromTheFuture

(* A step that changes nothing PhaseInv is about, or only empties it.      *)
LEMMA PhaseKept ==
    ASSUME PhaseParts, UNCHANGED <<epoch, phase, restoring>>,
           SigningIn' => SigningIn, Clearing(epoch)' => Clearing(epoch),
           ClearRuns' => ClearRuns, SignInOfEpoch' => SignInOfEpoch,
           stored' = stored \/ stored' = NoToken \/ restoring = "none",
           phase = "guest" => refresh'[epoch].pc = "idle"
    PROVE  PhaseParts'
    BY DEF PhaseParts

LEMMA RefreshStepPhase ==
    ASSUME TypeInv, PhaseParts, RefreshStep
    PROVE  PhaseParts'
<1>1. /\ UNCHANGED <<epoch, phase, stored, ending, fresh, restoring>>
      /\ epoch \in Epochs
    BY RefreshStepShape DEF RefreshShape, TypeInv, TypeOK
<1>2. PICK e \in Epochs :
        /\ \A d \in Epochs \ {e} : refresh'[d] = refresh[d]
        /\ \/ Starts(e) /\ UNCHANGED writes
           \/ GoesOn(e) /\ UNCHANGED writes
           \/ Finishes(e)
    BY RefreshStepShape DEF RefreshShape
<1>3. phase = "guest" => refresh'[epoch].pc = "idle"
    BY <1>1, <1>2 DEF PhaseParts, Starts, GoesOn, Finishes
<1>4. CASE UNCHANGED writes
    BY <1>1, <1>3, <1>4, PhaseKept
    DEF SigningIn, Clearing, ClearRuns, SignInOfEpoch
<1>5. CASE Finishes(e)
    BY <1>1, <1>3, <1>5, OutcomeJoins, PhaseKept DEF Finishes
<1> QED
    BY <1>2, <1>4, <1>5

LEMMA FinishWritePhase ==
    ASSUME TypeInv, PhaseParts, NothingFromTheFuture, OnlyTheFirstRuns, OneSignIn,
           FinishWrite
    PROVE  PhaseParts'
<1>1. /\ epoch \in Epochs /\ Leaves
      /\ \A e \in Epochs : refresh'[e] = refresh[e] \/ refresh'[e].pc = "idle"
    BY FinishShape, FinishWriteShape DEF TypeInv, TypeOK
<1>2. phase = "guest" => refresh'[epoch].pc = "idle"
    BY <1>1 DEF PhaseParts
<1>3. CASE DropWrite \/ FinishSave \/ FinishClear
  <2>1. /\ UNCHANGED <<epoch, phase, restoring, ending, fresh>>
        /\ stored' = stored \/ stored' = NoToken
      BY <1>3 DEF DropWrite, FinishSave, FinishClear
  <2> QED
      BY <1>1, <1>2, <2>1, FirstLeaves, PhaseKept
<1>4. CASE FinishSignIn /\ Head(writes).epoch # epoch
  <2>1. UNCHANGED <<epoch, phase, stored, restoring, ending, fresh>>
      BY <1>4 DEF FinishSignIn
  <2> QED
      BY <1>1, <1>2, <2>1, FirstLeaves, PhaseKept
<1>5. CASE FinishSignIn /\ Head(writes).epoch = epoch
  <2>1. /\ UNCHANGED <<epoch, restoring, ending, fresh>> /\ phase' = "signedIn"
        /\ 1 \in DOMAIN writes /\ writes[1].op = "signin" /\ writes[1].epoch = epoch
      BY <1>1, <1>5 DEF FinishSignIn, Leaves
  <2>2. SigningIn /\ SignInOfEpoch
      BY <2>1 DEF SigningIn, SignInOfEpoch
  <2>3. ~SigningIn'
    <3>1. fresh = NoFresh
        BY <2>1 DEF OneSignIn, InQueue
    <3>2. \A i \in DOMAIN writes : writes[i].op = "signin" => i = 1
        BY <2>1 DEF OneSignIn
    <3>3. \A i \in DOMAIN writes' : writes'[i].op # "signin"
        BY <1>1, <3>2 DEF Leaves
    <3> QED
        BY <2>1, <3>1, <3>3 DEF SigningIn
  <2>4. ~Clearing(epoch)' /\ ~ClearRuns' /\ restoring' = "none"
      BY <1>1, <2>1, <2>2, FirstLeaves DEF PhaseParts
  <2> QED
      BY <2>1, <2>3, <2>4 DEF PhaseParts
<1>6. CASE FinishExpire
  <2>1. /\ epoch' = epoch + 1 /\ epoch + 1 \in Epochs /\ phase' = "guest"
        /\ stored' = NoToken /\ fresh' = fresh
        /\ restoring' = IF phase = "loading" THEN "looking" ELSE restoring
      BY <1>1, <1>6, AuthAssumption DEF FinishExpire, EndSession, Epochs
  <2>2. refresh'[epoch'].pc = "idle"
      BY <1>1, <2>1, NewEpochIsClear
  <2>3. SigningIn' => SigningIn
      BY <1>1, <2>1 DEF SigningIn, Leaves
  <2>4. ~SignInOfEpoch'
      BY <1>1, <2>1, NewEpochIsClear DEF SignInOfEpoch, Leaves
  <2> QED
      BY <2>1, <2>2, <2>3, <2>4 DEF PhaseParts
<1> QED
    BY <1>3, <1>4, <1>5, <1>6 DEF FinishWrite

LEMMA BeginWritePhase ==
    ASSUME TypeInv, PhaseParts, OneOutcome, BeginWrite
    PROVE  PhaseParts'
<1>1. /\ StartsToRun /\ writes[1].epoch = epoch
      /\ UNCHANGED <<epoch, phase, refresh, ending, fresh, restoring>>
    BY BeginWriteStartsToRun DEF BeginWrite, StartsToRun
<1>2. /\ SigningIn' <=> SigningIn
      /\ Clearing(epoch)' <=> Clearing(epoch)
      /\ SignInOfEpoch' <=> SignInOfEpoch
    BY <1>1 DEF StartsToRun, SigningIn, Clearing, SignInOfEpoch
<1>3. ClearRuns' => Clearing(epoch)
    BY <1>1 DEF StartsToRun, ClearRuns, Clearing
<1>4. stored' = stored \/ stored' = NoToken \/ restoring = "none"
  <2>1. CASE writes[1].op = "signin"
      BY <1>1, <2>1 DEF StartsToRun, SigningIn, PhaseParts
  <2>2. CASE writes[1].op = "save"
    <3>1. refresh[epoch].pc = "saving"
        BY <1>1, <2>2 DEF StartsToRun, OneOutcome, Outcome
    <3> QED
        BY <3>1 DEF PhaseParts
  <2>3. CASE writes[1].op \notin {"signin", "save"}
      BY <1>1, <2>3 DEF StartsToRun, BeginWrite
  <2> QED
      BY <2>1, <2>2, <2>3
<1> QED
    BY <1>1, <1>2, <1>3, <1>4 DEF PhaseParts

LEMMA PhaseInvStep ==
    ASSUME ~SignInDuringRestore, Inv, [Next]_vars, TypeInv'
    PROVE  PhaseInv'
<1>1. /\ TypeInv /\ PhaseParts /\ NothingFromTheFuture /\ OnlyTheFirstRuns
      /\ OneOutcome /\ OneSignIn
      /\ epoch \in Epochs /\ epoch \in Nat
    BY EpochsAreNumbers, PhaseForm DEF Inv, RecoverableInv, TypeInv, TypeOK
<1> SUFFICES PhaseParts'
    BY PhaseFormNext
<1>2. CASE Server \/ UNCHANGED vars
    BY <1>1, <1>2
    DEF Server, vars, authVars, PhaseParts, SigningIn, Clearing, ClearRuns,
        SignInOfEpoch
<1>3. CASE RestoreStep
    BY <1>1, <1>3
    DEF RestoreStep, RestoreSignedIn, RestoreGuest, RestoreLook, RestoreClear,
        PhaseParts, SigningIn, Clearing, ClearRuns, SignInOfEpoch
<1>4. CASE RefreshStep
    BY <1>1, <1>4, RefreshStepPhase
<1>5. CASE Restart
    BY <1>5
    DEF Restart, PhaseParts, SigningIn, Clearing, ClearRuns, SignInOfEpoch
<1>6. CASE BeginWrite
    BY <1>1, <1>6, BeginWritePhase
<1>7. CASE FinishWrite
    BY <1>1, <1>7, FinishWritePhase
<1>8. CASE HandleSignInSuccess
  <2>1. /\ epoch' = epoch + 1 /\ epoch + 1 \in Epochs /\ fresh # NoFresh
        /\ UNCHANGED <<refresh, phase, stored, ending, restoring>>
      BY <1>1, <1>8, AuthAssumption DEF HandleSignInSuccess, Epochs
  <2>2. phase' = "guest" /\ restoring' = "none"
      BY <1>1, <2>1 DEF PhaseParts, SigningIn
  <2>3. refresh'[epoch'].pc = "idle"
      BY <1>1, <2>1, NewEpochIsClear
  <2>4. PICK w \in Write : Joins(w) /\ w.op = "signin"
      BY <1>1, <1>8, SignInShape
  <2>5. ~Clearing(epoch)'
      BY <1>1, <2>1, <2>4, NewEpochIsClear DEF Joins, Clearing
  <2> QED
      BY <2>2, <2>3, <2>5 DEF PhaseParts
<1>9. CASE SignOut
  <2>1. /\ epoch' = epoch + 1 /\ epoch + 1 \in Epochs
        /\ phase = "signedIn" /\ phase' = "guest"
        /\ UNCHANGED <<refresh, stored, writes, fresh, restoring>>
      BY <1>1, <1>9, AuthAssumption DEF SignOut, EndSession, Epochs
  <2>2. ~SigningIn' /\ restoring' = "none"
      BY <1>1, <2>1 DEF PhaseParts, SigningIn
  <2>3. refresh'[epoch'].pc = "idle"
      BY <1>1, <2>1, NewEpochIsClear
  <2>4. ~SignInOfEpoch'
      BY <2>2 DEF SigningIn, SignInOfEpoch
  <2> QED
      BY <2>1, <2>2, <2>3, <2>4 DEF PhaseParts
<1>10. ASSUME NEW s \in Sessions, SignIn(s)
       PROVE  PhaseParts'
    BY <1>1, <1>10 DEF SignIn, PhaseParts, Clearing, ClearRuns, SignInOfEpoch
<1>11. ASSUME NEW w \in ending, ClearPersistedSession(w)
       PROVE  PhaseParts'
  <2>1. /\ UNCHANGED <<epoch, phase, refresh, stored, fresh, restoring>>
        /\ ending' = ending \ {w} /\ Joins(w) /\ w.op = "clear" /\ w.st = "queued"
      BY <1>1, <1>11, ClearShape DEF ClearPersistedSession, TypeInv, EndingsAreClears
  <2>2. /\ SigningIn' => SigningIn
        /\ Clearing(epoch)' => Clearing(epoch)
        /\ ClearRuns' => ClearRuns
        /\ SignInOfEpoch' => SignInOfEpoch
      BY <2>1 DEF Joins, SigningIn, Clearing, ClearRuns, SignInOfEpoch
  <2>3. phase = "guest" => refresh'[epoch].pc = "idle"
      BY <1>1, <2>1 DEF PhaseParts
  <2> QED
      BY <1>1, <2>1, <2>2, <2>3, PhaseKept
<1> QED
    BY <1>2, <1>3, <1>4, <1>5, <1>6, <1>7, <1>8, <1>9, <1>10, <1>11, StepKinds

-----------------------------------------------------------------------------
(* RefreshesStored                                                         *)

(* With nothing of the current epoch to write, or waiting, nothing is owed *)
(* to the stored token.                                                    *)
LEMMA NothingOwed ==
    ASSUME refresh'[epoch'].pc \notin {"first", "pause", "second"},
           \A i \in DOMAIN writes' :
             ~(/\ writes'[i].op = "save" /\ writes'[i].epoch = epoch'
               /\ writes'[i].st = "queued")
    PROVE  RefreshesStored'
    BY DEF RefreshesStored

LEMMA IdleOwesNothing ==
    ASSUME OneOutcome, refresh[epoch].pc = "idle"
    PROVE  \A i \in DOMAIN writes :
             ~(writes[i].op \in {"save", "expire"} /\ writes[i].epoch = epoch)
    BY DEF OneOutcome, Outcome

LEMMA RefreshStepStored ==
    ASSUME TypeInv, OneOutcome, RefreshesStored, RefreshStep
    PROVE  RefreshesStored'
<1>1. UNCHANGED <<epoch, stored>> /\ epoch \in Epochs
    BY RefreshStepShape DEF RefreshShape, TypeInv, TypeOK
<1>2. PICK e \in Epochs :
        /\ \A d \in Epochs \ {e} : refresh'[d] = refresh[d]
        /\ \/ Starts(e) /\ UNCHANGED writes
           \/ GoesOn(e) /\ UNCHANGED writes
           \/ Finishes(e)
    BY RefreshStepShape DEF RefreshShape
<1>3. CASE e # epoch
  <2>1. refresh'[epoch] = refresh[epoch]
      BY <1>1, <1>2, <1>3
  <2>2. UNCHANGED writes \/ \E w : Joins(w) /\ w.epoch # epoch
      BY <1>2, <1>3 DEF Finishes
  <2> QED
      BY <1>1, <2>1, <2>2 DEF RefreshesStored, Joins
<1>4. CASE e = epoch
  <2>1. \A i \in DOMAIN writes : ~(writes[i].op = "save" /\ writes[i].epoch = epoch)
      BY <1>2, <1>4 DEF Starts, GoesOn, Finishes, OneOutcome, Outcome
  <2>2. CASE Starts(e) /\ UNCHANGED writes
      BY <1>1, <1>4, <2>1, <2>2 DEF RefreshesStored, Starts
  <2>3. CASE GoesOn(e) /\ UNCHANGED writes
      BY <1>1, <1>4, <2>1, <2>3 DEF RefreshesStored, GoesOn
  <2>4. CASE Finishes(e)
    <3>1. stored = refresh[epoch].tok /\ stored \in Token
        BY <1>4, <2>4 DEF Finishes, RefreshesStored
    <3>2. stored # NoToken
        BY <3>1, NoTokenIsNoToken
    <3>3. PICK w \in Write :
            Joins(w) /\ (w.op = "expire" \/ w.tok = Successor(refresh[epoch].tok))
        BY <1>4, <2>4 DEF Finishes
    <3>4. \A i \in DOMAIN writes' :
            writes'[i].op = "save" /\ writes'[i].epoch = epoch =>
              writes'[i].tok = Successor(stored)
        BY <2>1, <3>1, <3>3 DEF Joins
    <3>5. refresh'[epoch].pc = "saving" /\ refresh'[epoch].tok = stored
        BY <1>4, <2>4, <3>1 DEF Finishes
    <3> QED
        BY <1>1, <3>2, <3>4, <3>5 DEF RefreshesStored
  <2> QED
      BY <1>2, <2>2, <2>3, <2>4
<1> QED
    BY <1>3, <1>4

LEMMA BeginWriteStored ==
    ASSUME TypeInv, PhaseParts, OneOutcome, RefreshesStored, BeginWrite
    PROVE  RefreshesStored'
<1>1. /\ StartsToRun /\ writes[1].epoch = epoch
      /\ UNCHANGED <<epoch, refresh>>
    BY BeginWriteStartsToRun DEF BeginWrite, StartsToRun
<1>2. CASE stored' = stored
    BY <1>1, <1>2 DEF RefreshesStored, StartsToRun
<1>3. CASE writes[1].op = "save"
  <2>1. refresh[epoch].pc = "saving"
      BY <1>1, <1>3 DEF OneOutcome, Outcome, StartsToRun
  <2>2. \A i \in DOMAIN writes : Outcome(writes[i]) => i = 1
      BY <1>1, <1>3 DEF OneOutcome, Outcome, StartsToRun
  <2>3. \A i \in DOMAIN writes' :
          writes'[i].op = "save" /\ writes'[i].epoch = epoch => writes'[i].st = "running"
      BY <1>1, <2>2 DEF StartsToRun, Outcome
  <2> QED
      BY <1>1, <2>1, <2>3, NothingOwed
<1>4. CASE writes[1].op \in {"signin", "clear"}
  <2>1. phase = "guest"
      BY <1>1, <1>4 DEF PhaseParts, SigningIn, Clearing, StartsToRun
  <2>2. refresh[epoch].pc = "idle"
      BY <2>1 DEF PhaseParts
  <2>3. \A i \in DOMAIN writes' : ~(writes'[i].op = "save" /\ writes'[i].epoch = epoch)
      BY <1>1, <2>2, IdleOwesNothing DEF StartsToRun
  <2> QED
      BY <1>1, <2>2, <2>3, NothingOwed
<1>5. stored' = stored \/ writes[1].op \in {"signin", "save", "clear"}
    BY <1>1 DEF BeginWrite, StartsToRun
<1> QED
    BY <1>2, <1>3, <1>4, <1>5

LEMMA FinishWriteStored ==
    ASSUME TypeInv, PhaseParts, OneOutcome, NothingFromTheFuture, RefreshesStored,
           FinishWrite
    PROVE  RefreshesStored'
<1>1. /\ Leaves /\ epoch \in Epochs
      /\ \A e \in Epochs : refresh'[e] = refresh[e] \/ refresh'[e].pc = "idle"
      /\ refresh'[epoch] # refresh[epoch] =>
           epoch = writes[1].epoch /\ writes[1].op \in {"save", "expire"}
    BY FinishShape, FinishWriteShape DEF TypeInv, TypeOK, Leaves
<1>2. \A i \in DOMAIN writes : i \in Nat
    BY WritesAreWrites
<1>3. CASE UNCHANGED <<epoch, stored>> /\ refresh'[epoch] = refresh[epoch]
    BY <1>1, <1>3 DEF RefreshesStored, Leaves
<1>4. CASE epoch' = epoch /\ refresh'[epoch] # refresh[epoch]
  <2>1. \A i \in DOMAIN writes : Outcome(writes[i]) => i = 1
      BY <1>1, <1>4 DEF OneOutcome, Outcome, Leaves
  <2>2. \A i \in DOMAIN writes' : ~(writes'[i].op = "save" /\ writes'[i].epoch = epoch)
      BY <1>1, <1>2, <2>1 DEF Leaves, Outcome
  <2> QED
      BY <1>1, <1>4, <2>2, NothingOwed
<1>5. CASE FinishClear
  <2>1. ClearRuns /\ epoch' = epoch
      BY <1>1, <1>5 DEF FinishClear, Running, ClearRuns, Leaves
  <2>2. refresh[epoch].pc = "idle"
      BY <2>1 DEF PhaseParts
  <2>3. \A i \in DOMAIN writes' : ~(writes'[i].op = "save" /\ writes'[i].epoch = epoch)
      BY <1>1, <2>2, IdleOwesNothing DEF Leaves
  <2> QED
      BY <1>1, <2>1, <2>2, <2>3, NothingOwed
<1>6. CASE FinishExpire
  <2>1. epoch' = epoch + 1 /\ epoch + 1 \in Epochs
      BY <1>1, <1>6, AuthAssumption, EpochsAreNumbers DEF FinishExpire, EndSession, Epochs
  <2>2. refresh'[epoch'].pc = "idle"
      BY <1>1, <2>1, NewEpochIsClear
  <2>3. \A i \in DOMAIN writes' : writes'[i].epoch # epoch'
      BY <1>1, <2>1, NewEpochIsClear DEF Leaves
  <2> QED
      BY <2>2, <2>3, NothingOwed
<1> QED
    BY <1>3, <1>4, <1>5, <1>6 DEF FinishWrite, DropWrite, FinishSave, FinishSignIn

LEMMA RefreshesStoredStep ==
    ASSUME Inv, [Next]_vars
    PROVE  RefreshesStored'
<1>1. /\ TypeInv /\ PhaseParts /\ NothingFromTheFuture /\ OneOutcome /\ RefreshesStored
      /\ epoch \in Epochs /\ epoch \in Nat
    BY EpochsAreNumbers, PhaseForm DEF Inv, RecoverableInv, TypeInv, TypeOK
<1>2. ASSUME UNCHANGED <<epoch, stored, refresh>>,
             writes' = writes \/ \E w : Joins(w) /\ w.op # "save"
      PROVE  RefreshesStored'
    BY <1>1, <1>2 DEF RefreshesStored, Joins
<1>3. ASSUME UNCHANGED <<epoch, writes, refresh>>, refresh[epoch].pc = "idle"
      PROVE  RefreshesStored'
    BY <1>1, <1>3, IdleOwesNothing, NothingOwed
<1>4. ASSUME epoch' = epoch + 1, epoch + 1 \in Epochs, UNCHANGED refresh,
             writes' = writes \/ \E w : Joins(w) /\ w.op # "save"
      PROVE  RefreshesStored'
  <2>1. refresh'[epoch'].pc = "idle"
      BY <1>1, <1>4, NewEpochIsClear
  <2>2. \A i \in DOMAIN writes' : ~(writes'[i].op = "save" /\ writes'[i].epoch = epoch')
      BY <1>1, <1>4, NewEpochIsClear DEF Joins
  <2> QED
      BY <2>1, <2>2, NothingOwed
<1>5. CASE Server \/ RestoreSignedIn \/ RestoreLook \/ UNCHANGED vars
    BY <1>2, <1>5 DEF Server, RestoreSignedIn, RestoreLook, vars, authVars
<1>6. CASE RestoreGuest \/ RestoreClear
  <2>1. UNCHANGED <<epoch, writes, refresh>>
      BY <1>6 DEF RestoreGuest, RestoreClear
  <2>2. refresh[epoch].pc = "idle"
      BY <1>1, <1>6 DEF RestoreGuest, RestoreClear, PhaseParts
  <2> QED
      BY <1>3, <2>1, <2>2
<1>7. CASE RefreshStep
    BY <1>1, <1>7, RefreshStepStored
<1>8. CASE Restart
  <2>1. epoch' \in Epochs
      BY <1>8, AuthAssumption DEF Restart, Epochs
  <2> QED
      BY <1>8, <2>1, NothingOwed DEF Restart, Idle
<1>9. CASE BeginWrite
    BY <1>1, <1>9, BeginWriteStored
<1>10. CASE FinishWrite
    BY <1>1, <1>10, FinishWriteStored
<1>11. CASE HandleSignInSuccess
  <2>1. epoch' = epoch + 1 /\ epoch + 1 \in Epochs /\ UNCHANGED refresh
      BY <1>1, <1>11, AuthAssumption DEF HandleSignInSuccess, Epochs
  <2>2. PICK w \in Write : Joins(w) /\ w.op = "signin"
      BY <1>1, <1>11, SignInShape
  <2> QED
      BY <1>4, <2>1, <2>2
<1>12. CASE SignOut
  <2>1. epoch' = epoch + 1 /\ epoch + 1 \in Epochs /\ UNCHANGED <<refresh, writes>>
      BY <1>1, <1>12, AuthAssumption DEF SignOut, EndSession, Epochs
  <2> QED
      BY <1>4, <2>1
<1>13. ASSUME NEW s \in Sessions, SignIn(s)
       PROVE  RefreshesStored'
    BY <1>2, <1>13 DEF SignIn
<1>14. ASSUME NEW w \in ending, ClearPersistedSession(w)
       PROVE  RefreshesStored'
  <2>1. UNCHANGED <<epoch, stored, refresh>>
      BY <1>14 DEF ClearPersistedSession
  <2> QED
      BY <1>1, <1>2, <1>14, <2>1, ClearShape
<1> QED
    BY <1>5, <1>6, <1>7, <1>8, <1>9, <1>10, <1>11, <1>12, <1>13, <1>14, StepKinds
    DEF RestoreStep

-----------------------------------------------------------------------------
(* Where the tokens a step leaves come from                                *)

(* The first write, when it starts to store its token. *)
StoresFirst ==
    /\ BeginWrite /\ 1 \in DOMAIN writes
    /\ writes[1].op \in {"signin", "save"} /\ writes[1].st = "queued"
    /\ writes[1].epoch = epoch /\ writes[1].tok \in Token
    /\ stored' = writes[1].tok

LEMMA StoredSourced ==
    ASSUME TypeInv, [Next]_vars
    PROVE  stored' = stored \/ stored' = NoToken \/ StoresFirst
<1>1. CASE BeginWrite
  <2>1. StartsToRun
      BY <1>1, BeginWriteStartsToRun
  <2>2. writes[1].op \in {"signin", "save"} => writes[1].tok \in Token
      BY <2>1 DEF TypeInv, SavesCarryTokens, StartsToRun
  <2> QED
      BY <1>1, <2>1, <2>2 DEF BeginWrite, StartsToRun, StoresFirst
<1>2. CASE RefreshStep
    BY <1>2, RefreshStepShape DEF RefreshShape
<1> QED
    BY <1>1, <1>2, StepKinds
    DEF Server, RestoreStep, RestoreSignedIn, RestoreGuest, RestoreLook, RestoreClear,
        vars, authVars, Restart, FinishWrite, DropWrite, FinishSave, FinishSignIn,
        FinishExpire, FinishClear, HandleSignInSuccess, SignOut, SignIn,
        ClearPersistedSession

(* A refresh in flight has the token it had, or the stored one.            *)
RefreshSource(e) ==
    \/ refresh[e].pc # "idle" /\ refresh'[e].tok = refresh[e].tok
    \/ stored # NoToken /\ phase # "guest" /\ refresh'[e].tok = stored

RefreshesSourced == \A e \in Epochs : refresh'[e].pc # "idle" => RefreshSource(e)

LEMMA RefreshesStep ==
    ASSUME TypeInv, [Next]_vars
    PROVE  RefreshesSourced
<1>1. CASE RefreshStep
  <2>1. PICK e \in Epochs :
          /\ \A d \in Epochs \ {e} : refresh'[d] = refresh[d]
          /\ Starts(e) \/ GoesOn(e) \/ Finishes(e)
      BY <1>1, RefreshStepShape DEF RefreshShape
  <2> QED
      BY <2>1 DEF RefreshesSourced, RefreshSource, Starts, GoesOn, Finishes
<1>2. CASE FinishWrite
    BY <1>2, FinishWriteShape DEF RefreshesSourced, RefreshSource
<1>3. CASE Restart
    BY <1>3 DEF Restart, Idle, RefreshesSourced
<1>4. CASE refresh' = refresh
    BY <1>4 DEF RefreshesSourced, RefreshSource
<1> QED
    BY <1>1, <1>2, <1>3, <1>4, StepKinds
    DEF Server, RestoreStep, RestoreSignedIn, RestoreGuest, RestoreLook, RestoreClear,
        vars, authVars, BeginWrite, HandleSignInSuccess, SignOut, SignIn,
        ClearPersistedSession

(* A write of tokens was there before, as queued as it is now; or it is    *)
(* a sign-in's answer; or a granted refresh's outcome.                     *)
WriteSource(i) ==
    \/ \E j \in DOMAIN writes :
         /\ writes[j].op = writes'[i].op /\ writes[j].tok = writes'[i].tok
         /\ writes'[i].st = "queued" => writes[j].st = "queued"
    \/ writes'[i].op = "signin" /\ fresh # NoFresh /\ writes'[i].tok = fresh.tok
    \/ /\ writes'[i].op = "save"
       /\ \E e \in Epochs :
            /\ Waiting(e) /\ req[refresh[e].req].st = "granted"
            /\ writes'[i].tok = Successor(refresh[e].tok)

WritesSourced ==
    \A i \in DOMAIN writes' : writes'[i].op \in {"signin", "save"} => WriteSource(i)

LEMMA WritesStep ==
    ASSUME TypeInv, [Next]_vars
    PROVE  WritesSourced
<1>1. CASE RefreshStep
  <2>1. CASE UNCHANGED writes
      BY <2>1 DEF WritesSourced, WriteSource
  <2>2. ASSUME NEW e \in Epochs, Finishes(e)
        PROVE  WritesSourced
    <3>1. PICK w \in Write :
            /\ Joins(w)
            /\ \/ w.op = "expire"
               \/ /\ w.op = "save" /\ w.tok = Successor(refresh[e].tok)
                  /\ req[refresh[e].req].st = "granted"
        BY <2>2 DEF Finishes
    <3>2. Waiting(e)
        BY <2>2 DEF Finishes, Waiting
    <3> QED
        BY <3>1, <3>2 DEF Joins, WritesSourced, WriteSource
  <2> QED
      BY <1>1, <2>1, <2>2, RefreshStepShape DEF RefreshShape
<1>2. CASE FinishWrite
    BY <1>2, FinishShape DEF Leaves, WritesSourced, WriteSource
<1>3. CASE BeginWrite
  <2>1. StartsToRun
      BY <1>3, BeginWriteStartsToRun
  <2> QED
      BY <2>1 DEF StartsToRun, WritesSourced, WriteSource
<1>4. CASE HandleSignInSuccess
  <2>1. PICK w \in Write : Joins(w) /\ w.op = "signin" /\ w.tok = fresh.tok
      BY <1>4, SignInShape
  <2>2. fresh # NoFresh
      BY <1>4 DEF HandleSignInSuccess
  <2> QED
      BY <2>1, <2>2 DEF Joins, WritesSourced, WriteSource
<1>5. ASSUME NEW w \in ending, ClearPersistedSession(w)
      PROVE  WritesSourced
  <2>1. Joins(w) /\ w.op = "clear"
      BY <1>5, ClearShape
  <2> QED
      BY <2>1 DEF Joins, WritesSourced, WriteSource
<1>6. CASE Restart
    BY <1>6 DEF Restart, WritesSourced
<1>7. CASE writes' = writes
    BY <1>7 DEF WritesSourced, WriteSource
<1> QED
    BY <1>1, <1>2, <1>3, <1>4, <1>5, <1>6, <1>7, StepKinds
    DEF Server, RestoreStep, RestoreSignedIn, RestoreGuest, RestoreLook, RestoreClear,
        vars, authVars, SignOut, SignIn

LEMMA FreshStep ==
    ASSUME [Next]_vars
    PROVE  \/ fresh' = fresh
           \/ fresh' = NoFresh
           \/ \E s \in Sessions : SignIn(s)
    BY DEF Next, Server, RefreshStep, StartRefresh, ReceiveGranted, ReceiveRejected,
           ReceiveThrottled, GiveUp, Retry, SessionStep, HandleSignInSuccess, SignOut,
           ClearPersistedSession, WriteStep, BeginWrite, DropWrite, FinishSave,
           FinishSignIn, FinishExpire, FinishClear, RestoreStep, RestoreSignedIn,
           RestoreGuest, RestoreLook, RestoreClear, Restart, vars, authVars

-----------------------------------------------------------------------------
(* TokensKnown                                                             *)

LEMMA KnownStays ==
    ASSUME TypeInv, TypeInv', SessionSteps, NEW t \in Token, Known(t)
    PROVE  KnownAfter(t)
<1>1. t.sid \in Sessions /\ t.gen \in Nat
    BY DEF Token
<1>2. sessions[t.sid].cur \in Nat /\ sessions'[t.sid].cur \in Nat
    BY <1>1 DEF TypeInv, TypeOK, ServerTypeOK, SessionDoc
<1> QED
    BY <1>1, <1>2 DEF SessionSteps, Known, KnownAfter

LEMMA TokensKnownStep ==
    ASSUME TypeInv, TypeInv', TokensKnown, CallsOfRefreshes, [Next]_vars
    PROVE  TokensKnown'
<1>1. /\ SessionSteps /\ CallsSourced /\ RefreshesSourced /\ WritesSourced
      /\ stored' = stored \/ stored' = NoToken \/ StoresFirst
    BY SessionsStep, CallsStep, RefreshesStep, WritesStep, StoredSourced
(* What was known still is. *)
<1>2. /\ stored \in Token => KnownAfter(stored)
      /\ \A q \in Requests : RefreshCall(q) => KnownAfter(req[q].tok)
      /\ \A q \in Requests : RefreshCall(q) /\ req[q].st = "granted" =>
           KnownAfter(Successor(req[q].tok))
      /\ \A e \in Epochs : refresh[e].pc # "idle" => KnownAfter(refresh[e].tok)
      /\ \A i \in DOMAIN writes :
           writes[i].op \in {"signin", "save"} => KnownAfter(writes[i].tok)
      /\ fresh # NoFresh => KnownAfter(fresh.tok)
  <2>1. stored \in Token => KnownAfter(stored)
      BY <1>1, KnownStays, NoTokenIsNoToken DEF TokensKnown
  <2>2. ASSUME NEW q \in Requests, RefreshCall(q)
        PROVE  /\ KnownAfter(req[q].tok)
               /\ req[q].st = "granted" => KnownAfter(Successor(req[q].tok))
    <3>1. req[q].tok \in Token /\ Successor(req[q].tok) \in Token
        BY <2>2, SuccessorType DEF RefreshCall, TypeInv, CallsCarryTokens
    <3> QED
        BY <1>1, <2>2, <3>1, KnownStays DEF RefreshCall, TokensKnown
  <2>3. ASSUME NEW e \in Epochs, refresh[e].pc # "idle"
        PROVE  KnownAfter(refresh[e].tok)
    <3>1. refresh[e].tok \in Token
        BY <2>3 DEF TypeInv, RefreshesCarryTokens
    <3> QED
        BY <1>1, <2>3, <3>1, KnownStays DEF TokensKnown
  <2>4. ASSUME NEW i \in DOMAIN writes, writes[i].op \in {"signin", "save"}
        PROVE  KnownAfter(writes[i].tok)
    <3>1. writes[i].tok \in Token
        BY <2>4 DEF TypeInv, SavesCarryTokens
    <3> QED
        BY <1>1, <2>4, <3>1, KnownStays DEF TokensKnown
  <2>5. fresh # NoFresh => KnownAfter(fresh.tok)
    <3>1. fresh # NoFresh => fresh.tok \in Token
        BY DEF TypeInv, FreshCarriesToken
    <3> QED
        BY <1>1, <3>1, KnownStays DEF TokensKnown
  <2> QED
      BY <2>1, <2>2, <2>3, <2>4, <2>5
<1>3. stored # NoToken => stored \in Token
    BY DEF TypeInv, TypeOK
<1>4. stored' # NoToken => KnownAfter(stored')
    BY <1>1, <1>2, <1>3 DEF StoresFirst
<1>5. ASSUME NEW q \in Requests, RefreshCall(q)'
      PROVE  /\ KnownAfter(req'[q].tok)
             /\ req'[q].st = "granted" => KnownAfter(Successor(req'[q].tok))
    BY <1>1, <1>2, <1>3, <1>5 DEF CallsSourced, CallSource
<1>6. ASSUME NEW e \in Epochs, refresh'[e].pc # "idle"
      PROVE  KnownAfter(refresh'[e].tok)
    BY <1>1, <1>2, <1>3, <1>6 DEF RefreshesSourced, RefreshSource
<1>7. ASSUME NEW i \in DOMAIN writes', writes'[i].op \in {"signin", "save"}
      PROVE  KnownAfter(writes'[i].tok)
  <2>1. CASE \E j \in DOMAIN writes :
               writes[j].op = writes'[i].op /\ writes[j].tok = writes'[i].tok
      BY <1>2, <1>7, <2>1
  <2>2. CASE fresh # NoFresh /\ writes'[i].tok = fresh.tok
      BY <1>2, <2>2
  <2>3. ASSUME NEW e \in Epochs, Waiting(e), req[refresh[e].req].st = "granted",
               writes'[i].tok = Successor(refresh[e].tok)
        PROVE  KnownAfter(writes'[i].tok)
    <3>1. refresh[e].req \in Requests
        BY <2>3 DEF TypeInv, RefreshesCarryTokens
    <3>2. RefreshCall(refresh[e].req) /\ req[refresh[e].req].tok = refresh[e].tok
        BY <2>3 DEF CallsOfRefreshes, RefreshCall
    <3> QED
        BY <1>2, <2>3, <3>1, <3>2
  <2> QED
      BY <1>1, <1>7, <2>1, <2>2, <2>3 DEF WritesSourced, WriteSource
<1>8. fresh' # NoFresh => KnownAfter(fresh'.tok)
  <2>1. ASSUME NEW s \in Sessions, SignIn(s)
        PROVE  KnownAfter(fresh'.tok)
    <3>1. fresh'.tok.sid = s /\ fresh'.tok.gen = 0
        BY <2>1 DEF SignIn
    <3>2. sessions'[s] = NewSession
        BY <2>1 DEF SignIn, CreateSession, TypeInv, TypeOK, ServerTypeOK
    <3> QED
        BY <3>1, <3>2 DEF KnownAfter, NewSession, Unborn
  <2> QED
      BY <1>2, <2>1, FreshStep
<1>9. /\ stored' # NoToken => Known(stored)'
      /\ \A q \in Requests : RefreshCall(q)' =>
           /\ Known(req[q].tok)'
           /\ req'[q].st = "granted" => Known(Successor(req[q].tok))'
      /\ \A e \in Epochs : refresh'[e].pc # "idle" => Known(refresh[e].tok)'
      /\ \A i \in DOMAIN writes' :
           writes'[i].op \in {"signin", "save"} => Known(writes[i].tok)'
      /\ fresh' # NoFresh => Known(fresh.tok)'
    BY <1>4, <1>5, <1>6, <1>7, <1>8 DEF Known, KnownAfter
<1> QED
    BY <1>9 DEF TokensKnown, RefreshCall

-----------------------------------------------------------------------------
(* CallsBehindStored                                                       *)

(* Behind(t), after the step. *)
BehindAfter(t) ==
    stored' # NoToken /\ t.sid = stored'.sid => t.gen <= stored'.gen

LEMMA CallsBehindForm ==
    ASSUME \A q \in Requests : RefreshCall(q)' => BehindAfter(req'[q].tok),
           \A e \in Epochs : refresh'[e].pc # "idle" => BehindAfter(refresh'[e].tok)
    PROVE  CallsBehindStored'
    BY DEF CallsBehindStored, Behind, BehindAfter, RefreshCall

(* The write of a refresh's outcome replaces the stored token by its       *)
(* successor; that of a sign-in stores a token nothing uses.               *)
LEMMA StoresSuccessor ==
    ASSUME TypeInv, RefreshesStored, StoresFirst, writes[1].op = "save"
    PROVE  stored \in Token /\ stored' = Successor(stored)
    BY DEF StoresFirst, RefreshesStored, TypeInv, TypeOK

LEMMA StoresUnused ==
    ASSUME NewSessionUnused, StoresFirst, writes[1].op = "signin"
    PROVE  Unused(stored'.sid) /\ stored'.gen = 0
    BY DEF StoresFirst, NewSessionUnused

LEMMA BeginWriteOnlyStores ==
    ASSUME BeginWrite
    PROVE  UNCHANGED <<now, sessions, req, refresh>>
    BY DEF BeginWrite, serverVars

LEMMA CallsBehindStoredStep ==
    ASSUME TypeInv, CallsBehindStored, RefreshesStored, NewSessionUnused, [Next]_vars
    PROVE  CallsBehindStored'
<1>1. /\ CallsSourced /\ RefreshesSourced
      /\ stored' = stored \/ stored' = NoToken \/ StoresFirst
    BY CallsStep, RefreshesStep, StoredSourced
<1>2. /\ stored \in Token => stored.gen \in Nat
      /\ stored # NoToken => stored \in Token
    BY DEF TypeInv, TypeOK, Token
<1>3. CASE stored' = stored
  <2>1. stored # NoToken => BehindAfter(stored)
      BY <1>2, <1>3 DEF BehindAfter
  <2>2. \A q \in Requests : RefreshCall(q) => BehindAfter(req[q].tok)
      BY <1>3 DEF CallsBehindStored, Behind, BehindAfter, RefreshCall
  <2>3. \A e \in Epochs : refresh[e].pc # "idle" => BehindAfter(refresh[e].tok)
      BY <1>3 DEF CallsBehindStored, Behind, BehindAfter
  <2>4. \A q \in Requests : RefreshCall(q)' => BehindAfter(req'[q].tok)
      BY <1>1, <2>1, <2>2, <2>3 DEF CallsSourced, CallSource
  <2>5. \A e \in Epochs : refresh'[e].pc # "idle" => BehindAfter(refresh'[e].tok)
      BY <1>1, <2>1, <2>3 DEF RefreshesSourced, RefreshSource
  <2> QED
      BY <2>4, <2>5, CallsBehindForm
<1>4. CASE stored' = NoToken
    BY <1>4, CallsBehindForm DEF BehindAfter
<1>5. CASE StoresFirst
  <2>1. UNCHANGED <<req, refresh>>
      BY <1>5, BeginWriteOnlyStores DEF StoresFirst
  <2>2. CASE writes[1].op = "save"
    <3>1. /\ stored # NoToken /\ stored \in Token /\ stored.gen \in Nat
          /\ stored'.sid = stored.sid /\ stored'.gen = stored.gen + 1
        BY <1>2, <1>5, <2>2, StoresSuccessor, SuccessorType, NoTokenIsNoToken
    <3>2. ASSUME NEW t \in Token, Behind(t)
          PROVE  BehindAfter(t)
      <4>1. t.gen \in Nat
          BY DEF Token
      <4> QED
          BY <3>1, <3>2, <4>1 DEF Behind, BehindAfter
    <3>3. \A q \in Requests : RefreshCall(q)' => BehindAfter(req'[q].tok)
        BY <2>1, <3>2 DEF CallsBehindStored, RefreshCall, TypeInv, CallsCarryTokens
    <3>4. \A e \in Epochs : refresh'[e].pc # "idle" => BehindAfter(refresh'[e].tok)
        BY <2>1, <3>2 DEF CallsBehindStored, TypeInv, RefreshesCarryTokens
    <3> QED
        BY <3>3, <3>4, CallsBehindForm
  <2>3. CASE writes[1].op = "signin"
      BY <1>5, <2>1, <2>3, StoresUnused, CallsBehindForm
      DEF Unused, BehindAfter, RefreshCall
  <2> QED
      BY <1>5, <2>2, <2>3 DEF StoresFirst
<1> QED
    BY <1>1, <1>3, <1>4, <1>5

-----------------------------------------------------------------------------
(* NewSessionUnused                                                        *)

(* Unused(s), after the step. *)
UnusedAfter(s) ==
    /\ sessions'[s].cur = 0
    /\ \A q \in Requests : RefreshCall(q)' => req'[q].tok.sid # s
    /\ \A e \in Epochs : refresh'[e].pc # "idle" => refresh'[e].tok.sid # s

LEMMA UnusedStays ==
    ASSUME TypeInv, [Next]_vars, phase = "guest", NEW s \in Sessions, Unused(s)
    PROVE  UnusedAfter(s)
<1>1. SessionSteps /\ CallsSourced /\ RefreshesSourced
    BY SessionsStep, CallsStep, RefreshesStep
<1>2. sessions'[s].cur = 0
    BY <1>1 DEF SessionSteps, Unused, RefreshCall
<1>3. \A q \in Requests : RefreshCall(q)' => req'[q].tok.sid # s
    BY <1>1 DEF CallsSourced, CallSource, Unused, RefreshCall
<1>4. \A e \in Epochs : refresh'[e].pc # "idle" => refresh'[e].tok.sid # s
    BY <1>1 DEF RefreshesSourced, RefreshSource, Unused
<1> QED
    BY <1>2, <1>3, <1>4 DEF UnusedAfter

LEMMA SignInUnused ==
    ASSUME TypeInv, TokensKnown, NEW s \in Sessions, SignIn(s)
    PROVE  fresh'.tok.sid = s /\ fresh'.tok.gen = 0 /\ UnusedAfter(s)
<1>1. /\ fresh'.tok.sid = s /\ fresh'.tok.gen = 0 /\ UNCHANGED <<req, refresh>>
      /\ sessions[s].state = "unborn"
    BY DEF SignIn, CreateSession
<1>2. sessions'[s] = NewSession
    BY DEF SignIn, CreateSession, TypeInv, TypeOK, ServerTypeOK
<1> QED
    BY <1>1, <1>2
    DEF UnusedAfter, RefreshCall, TokensKnown, Known, NewSession, Unborn

LEMMA NewSessionUnusedStep ==
    ASSUME TypeInv, TokensKnown, PhaseParts, NewSessionUnused, [Next]_vars
    PROVE  NewSessionUnused'
<1>1. ASSUME NEW t \in Token, Unused(t.sid), SigningIn
      PROVE  UnusedAfter(t.sid)
    BY <1>1, UnusedStays DEF PhaseParts, Token
<1>2. fresh # NoFresh => UnusedAfter(fresh.tok.sid) /\ fresh.tok.gen = 0
    BY <1>1 DEF NewSessionUnused, SigningIn, TypeInv, FreshCarriesToken
<1>3. ASSUME NEW j \in DOMAIN writes, writes[j].op = "signin", writes[j].st = "queued"
      PROVE  UnusedAfter(writes[j].tok.sid) /\ writes[j].tok.gen = 0
    BY <1>1, <1>3 DEF NewSessionUnused, SigningIn, TypeInv, SavesCarryTokens
<1>4. fresh' # NoFresh => UnusedAfter(fresh'.tok.sid) /\ fresh'.tok.gen = 0
    BY <1>2, FreshStep, SignInUnused
<1>5. ASSUME NEW i \in DOMAIN writes', writes'[i].op = "signin", writes'[i].st = "queued"
      PROVE  UnusedAfter(writes'[i].tok.sid) /\ writes'[i].tok.gen = 0
  <2>1. WriteSource(i)
      BY <1>5, WritesStep DEF WritesSourced
  <2> QED
      BY <1>2, <1>3, <1>5, <2>1 DEF WriteSource
<1>6. /\ fresh' # NoFresh => Unused(fresh.tok.sid)' /\ fresh'.tok.gen = 0
      /\ \A i \in DOMAIN writes' :
           writes'[i].op = "signin" /\ writes'[i].st = "queued" =>
             Unused(writes[i].tok.sid)' /\ writes'[i].tok.gen = 0
    BY <1>4, <1>5 DEF Unused, UnusedAfter, RefreshCall
<1> QED
    BY <1>6 DEF NewSessionUnused

-----------------------------------------------------------------------------
(* StoredRecoverable                                                       *)

LEMMA StoredRecoverableStep ==
    ASSUME TypeInv, TokensKnown, RefreshesStored, CallsBehindStored, NewSessionUnused,
           StoredRecoverable, [Next]_vars
    PROVE  StoredRecoverable'
<1>1. SessionSteps /\ (stored' = stored \/ stored' = NoToken \/ StoresFirst)
    BY SessionsStep, StoredSourced
<1>2. \A s \in Sessions : sessions[s].cur \in Nat
    BY DEF TypeInv, TypeOK, ServerTypeOK, SessionDoc
<1>3. stored # NoToken => stored \in Token /\ stored.sid \in Sessions /\ stored.gen \in Nat
    BY DEF TypeInv, TypeOK, Token
<1>4. CASE stored' = stored /\ stored # NoToken
  <2>1. SUFFICES ASSUME Live(stored.sid)'
                 PROVE  sessions'[stored.sid].cur \in {stored.gen, stored.gen + 1}
      BY <1>4 DEF StoredRecoverable, Live
  <2>2. Live(stored.sid)
      BY <1>1, <1>3, <1>4, <2>1 DEF SessionSteps, TokensKnown, Known, Live
  <2>3. /\ sessions[stored.sid].cur \in {stored.gen, stored.gen + 1}
        /\ sessions[stored.sid].state # "unborn"
      BY <1>4, <2>2 DEF StoredRecoverable, Live
  <2>4. CASE sessions'[stored.sid].cur = sessions[stored.sid].cur
      BY <2>3, <2>4
  <2>5. ASSUME NEW q \in Requests, RefreshCall(q), req[q].tok.sid = stored.sid,
               req[q].tok.gen = sessions[stored.sid].cur,
               sessions'[stored.sid].cur = sessions[stored.sid].cur + 1
        PROVE  sessions'[stored.sid].cur = stored.gen + 1
    <3>1. req[q].tok.gen <= stored.gen
        BY <1>4, <2>5 DEF CallsBehindStored, Behind, RefreshCall
    <3> QED
        BY <1>2, <1>3, <1>4, <2>3, <2>5, <3>1
  <2> QED
      BY <1>1, <1>3, <1>4, <2>3, <2>4, <2>5 DEF SessionSteps
<1>5. CASE stored' = NoToken
    BY <1>5 DEF StoredRecoverable
<1>6. CASE StoresFirst
  <2>1. UNCHANGED <<now, sessions>>
      BY <1>6, BeginWriteOnlyStores DEF StoresFirst
  <2>2. CASE writes[1].op = "save"
    <3>1. /\ stored \in Token /\ stored' = Successor(stored) /\ stored # NoToken
          /\ stored'.sid = stored.sid /\ stored'.gen = stored.gen + 1
        BY <1>6, <2>2, StoresSuccessor, SuccessorType, NoTokenIsNoToken
    <3>2. stored.gen + 1 <= sessions[stored.sid].cur
        BY <1>6, <2>2, <3>1 DEF StoresFirst, TokensKnown, Known
    <3>3. Live(stored.sid) => sessions[stored.sid].cur = stored.gen + 1
        BY <1>2, <1>3, <3>1, <3>2 DEF StoredRecoverable
    <3> QED
        BY <2>1, <3>1, <3>3 DEF StoredRecoverable, Live
  <2>3. CASE writes[1].op = "signin"
      BY <1>6, <2>1, <2>3, StoresUnused DEF Unused, StoredRecoverable
  <2> QED
      BY <1>6, <2>2, <2>3 DEF StoresFirst
<1> QED
    BY <1>1, <1>4, <1>5, <1>6

-----------------------------------------------------------------------------
(* The invariant and the theorem                                           *)

LEMMA NextInv ==
    ASSUME ~SignInDuringRestore
    PROVE  Inv /\ [Next]_vars => Inv'
<1> SUFFICES ASSUME Inv, [Next]_vars PROVE Inv'
    OBVIOUS
<1>1. /\ TypeInv /\ TokensKnown /\ CallsOfRefreshes /\ RefreshesStored
      /\ CallsBehindStored /\ NewSessionUnused /\ StoredRecoverable
      /\ PhaseParts
    BY PhaseForm DEF Inv, RecoverableInv
<1>2. TypeInv'
    BY <1>1, NextTypeInv
<1>3. TokensKnown' /\ CallsOfRefreshes'
    BY <1>1, <1>2, TokensKnownStep, CallsOfRefreshesStep
<1>4. NothingFromTheFuture' /\ OnlyTheFirstRuns' /\ OneOutcome' /\ OneSignIn'
    BY FutureStep, OnlyTheFirstRunsStep, OneOutcomeStep, OneSignInStep
<1>5. PhaseInv' /\ RefreshesStored'
    BY <1>2, PhaseInvStep, RefreshesStoredStep
<1>6. CallsBehindStored' /\ NewSessionUnused' /\ StoredRecoverable'
    BY <1>1, CallsBehindStoredStep, NewSessionUnusedStep, StoredRecoverableStep
<1> QED
    BY <1>2, <1>3, <1>4, <1>5, <1>6 DEF Inv, RecoverableInv

(* Whatever refreshes, retries, sign-outs, sign-ins and app restarts       *)
(* interleave, and whatever calls and answers are lost or late, the        *)
(* refresh token a device keeps for a live session is the session's        *)
(* current one or the one that one replaced: provided no sign-in overtakes *)
(* a restore that is clearing a rejected session's tokens                  *)
(* (initializeSession.ts clears without looking at the epoch).             *)
THEOREM DeviceRecovers ==
    ASSUME ~SignInDuringRestore
    PROVE  Spec => []StoredRecoverable
<1>1. Init => Inv
    BY InitTypeInv, InitRecoverable DEF Inv
<1>2. Inv => StoredRecoverable
    BY DEF Inv, RecoverableInv
<1> QED
    BY <1>1, <1>2, NextInv, PTL DEF Spec
=============================================================================

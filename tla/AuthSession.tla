----------------------------- MODULE AuthSession -----------------------------
(***************************************************************************)
(* One device's sign-in session against the server of RefreshRotation:     *)
(* mobile/src/auth/tokenManager.ts (single-flight refresh, serialized      *)
(* token writes), authEpoch.ts (which sign-in is current), useAuth.tsx     *)
(* (sign-in, sign-out, session expiry) and initializeSession.ts (restore   *)
(* at launch).                                                             *)
(*                                                                         *)
(* JavaScript runs one callback at a time, so a step is what the code does *)
(* between two awaits.  Several such chains are in progress at once: the   *)
(* refreshes of this and of earlier sign-ins, the queue of token writes,   *)
(* a sign-out still clearing, a sign-in waiting for it, the launch restore.*)
(* The app can be killed between any two steps; only the two stored tokens *)
(* survive.                                                                *)
(***************************************************************************)
EXTENDS RefreshRotation, Sequences

CONSTANTS
    NoUser,              \* "nobody is signed in"
    NoRequest,           \* "no call"
    MaxEpoch,            \* bound on sign-ins and sign-outs of one app launch
    MaxGen,              \* bound on the rotations of one session
    SignInDuringRestore  \* whether a sign-in may finish before a restore that
                         \* found the session rejected has cleared its tokens

ASSUME AuthAssumption ==
    /\ NoUser \notin Sessions
    /\ NoRequest \notin Requests
    /\ MaxEpoch \in Nat
    /\ MaxGen \in Nat
    /\ SignInDuringRestore \in BOOLEAN

VARIABLES
    epoch,      \* authEpoch.ts: number of the current sign-in or sign-out
    phase,      \* useAuth's status: loading, guest or signedIn
    user,       \* the session shown as signed in
    stored,     \* the refresh token in secure storage
    access,     \* the access token in secure storage, by the refresh token
                \* it was issued with
    refresh,    \* the refresh in flight of each epoch
    writes,     \* sessionWrites: the queue of token writes, the first running
    ending,     \* sign-outs that have not reached clearPersistedSession yet
    fresh,      \* a sign-in's answer waiting for the sign-out before it
    restoring   \* a restore that found the session rejected: about to look at
                \* the stored token, or to clear; otherwise none

authVars == <<epoch, phase, user, stored, access, refresh, writes, ending,
              fresh, restoring>>
vars == <<serverVars, authVars>>

Epochs == 0 .. MaxEpoch

(* performRefresh: idle; first attempt; waiting to retry; second attempt;  *)
(* writing the outcome.  tok is the token it presents, both times.         *)
Refresh == [pc  : {"idle", "first", "pause", "second", "saving"},
            tok : Token \cup {NoToken},
            req : Requests \cup {NoRequest}]

(* A queued token write.  For a clear, tok is the token to revoke at the   *)
(* server afterwards.  running: the first of its two storage calls is done.*)
Write == [op    : {"signin", "save", "expire", "clear"},
          epoch : Epochs,
          tok   : Token \cup {NoToken},
          st    : {"queued", "running"}]

(* A sign-in's answer, and the sign-out it waits for, by epoch. *)
Fresh == [tok : Token \cup {NoToken}, awaits : Epochs]
NoFresh == [tok |-> NoToken, awaits |-> 0]

TypeOK ==
    /\ ServerTypeOK
    /\ epoch \in Epochs
    /\ phase \in {"loading", "guest", "signedIn"}
    /\ user \in Sessions \cup {NoUser}
    /\ stored \in Token \cup {NoToken}
    /\ access \in Token \cup {NoToken}
    /\ refresh \in [Epochs -> Refresh]
    /\ writes \in Seq(Write)
    /\ ending \in SUBSET Write
    /\ fresh \in Fresh
    /\ restoring \in {"none", "looking", "clearing"}

Idle == [pc |-> "idle", tok |-> NoToken, req |-> NoRequest]

Init ==
    /\ ServerInit
    /\ epoch = 0
    /\ phase = "loading"
    /\ user = NoUser
    /\ stored = NoToken
    /\ access = NoToken
    /\ refresh = [e \in Epochs |-> Idle]
    /\ writes = <<>>
    /\ ending = {}
    /\ fresh = NoFresh
    /\ restoring = "none"

WriteOf(op, e, tok) == [op |-> op, epoch |-> e, tok |-> tok, st |-> "queued"]
Queued(w) == Append(writes, w)
InQueue(op) == \E i \in DOMAIN writes : writes[i].op = op

(* The sign-out of epoch e has not finished clearing. *)
Clearing(e) ==
    \/ \E w \in ending : w.epoch = e
    \/ \E i \in DOMAIN writes : writes[i].op = "clear" /\ writes[i].epoch = e

-----------------------------------------------------------------------------
(* Refresh: performRefresh and requestRotation                             *)

(* A caller whose access token was refused asks for a refresh; later       *)
(* callers of the same sign-in share it.  The current epoch and the stored *)
(* token are read here.  A caller holding a token of an earlier sign-in    *)
(* never gets here (isStaleSessionToken).                                  *)
StartRefresh(q) ==
    /\ phase \in {"loading", "signedIn"}
    /\ refresh[epoch].pc = "idle"
    /\ stored # NoToken /\ stored.gen < MaxGen
    /\ Send(q, "refresh", stored, TRUE)
    /\ refresh' = [refresh EXCEPT
                     ![epoch] = [pc |-> "first", tok |-> stored, req |-> q]]
    /\ UNCHANGED <<now, sessions, epoch, phase, user, stored, access, writes,
                   ending, fresh, restoring>>

Waiting(e) == refresh[e].pc \in {"first", "second"}

(* Mutant: the epoch is read when the answer arrives. *)
ReceiveGrantedForCurrent(e) ==
    /\ Waiting(e) /\ req[refresh[e].req].st = "granted"
    /\ req' = [req EXCEPT ![refresh[e].req] = FreeCall]
    /\ writes' = Queued(WriteOf("save", epoch, Successor(refresh[e].tok)))
    /\ refresh' = [refresh EXCEPT ![e].pc = "saving", ![e].req = NoRequest]
    /\ UNCHANGED <<now, sessions, epoch, phase, user, stored, access, ending,
                   fresh, restoring>>

(* The server answered with the successor: queue its write. *)
ReceiveGranted(e) ==
    /\ Waiting(e) /\ req[refresh[e].req].st = "granted"
    /\ req' = [req EXCEPT ![refresh[e].req] = FreeCall]
    /\ writes' = Queued(WriteOf("save", e, Successor(refresh[e].tok)))
    /\ refresh' = [refresh EXCEPT ![e].pc = "saving", ![e].req = NoRequest]
    /\ UNCHANGED <<now, sessions, epoch, phase, user, stored, access, ending,
                   fresh, restoring>>

(* Mutant: whoever is signed in when the 401 arrives is expired. *)
ReceiveRejectedForCurrent(e) ==
    /\ Waiting(e) /\ req[refresh[e].req].st = "rejected"
    /\ req' = [req EXCEPT ![refresh[e].req] = FreeCall]
    /\ writes' = Queued(WriteOf("expire", epoch, refresh[e].tok))
    /\ refresh' = [refresh EXCEPT ![e].pc = "saving", ![e].req = NoRequest]
    /\ UNCHANGED <<now, sessions, epoch, phase, user, stored, access, ending,
                   fresh, restoring>>

(* 401: only the sign-in that was rejected forgets its tokens. *)
ReceiveRejected(e) ==
    /\ Waiting(e) /\ req[refresh[e].req].st = "rejected"
    /\ req' = [req EXCEPT ![refresh[e].req] = FreeCall]
    /\ IF e = epoch
         THEN /\ writes' = Queued(WriteOf("expire", e, refresh[e].tok))
              /\ refresh' = [refresh EXCEPT ![e].pc = "saving",
                                            ![e].req = NoRequest]
         ELSE /\ refresh' = [refresh EXCEPT ![e] = Idle]
              /\ UNCHANGED writes
    /\ UNCHANGED <<now, sessions, epoch, phase, user, stored, access, ending,
                   fresh, restoring>>

(* Mutant: every refusal is taken for a rejected session. *)
ReceiveThrottledAsRejected(e) ==
    /\ Waiting(e) /\ req[refresh[e].req].st = "throttled"
    /\ req' = [req EXCEPT ![refresh[e].req] = FreeCall]
    /\ writes' = Queued(WriteOf("expire", e, refresh[e].tok))
    /\ refresh' = [refresh EXCEPT ![e].pc = "saving", ![e].req = NoRequest]
    /\ UNCHANGED <<now, sessions, epoch, phase, user, stored, access, ending,
                   fresh, restoring>>

(* Any other refusal (429) is a definite answer: no retry, nothing stored. *)
ReceiveThrottled(e) ==
    /\ Waiting(e) /\ req[refresh[e].req].st = "throttled"
    /\ req' = [req EXCEPT ![refresh[e].req] = FreeCall]
    /\ refresh' = [refresh EXCEPT ![e] = Idle]
    /\ UNCHANGED <<now, sessions, epoch, phase, user, stored, access, writes,
                   ending, fresh, restoring>>

(* Timeout, transport failure, or an answer lost on its way (outcome       *)
(* unknown): one retry after a pause, then nothing.  Unless late calls are *)
(* modelled, a handler that started ends before the client gives up.       *)
GiveUp(e) ==
    LET q == refresh[e].req IN
    /\ Waiting(e)
    /\ LateDelivery \/ req[q].st \notin {"missed", "reuse"}
    /\ req' = [req EXCEPT ![q] = Abandon(q)]
    /\ refresh' = [refresh EXCEPT
                     ![e] = IF @.pc = "first"
                              THEN [@ EXCEPT !.pc = "pause", !.req = NoRequest]
                              ELSE Idle]
    /\ UNCHANGED <<now, sessions, epoch, phase, user, stored, access, writes,
                   ending, fresh, restoring>>

(* The one retry, with the same token, whatever happened meanwhile. *)
Retry(e, q) ==
    /\ refresh[e].pc = "pause"
    /\ Send(q, "refresh", refresh[e].tok, TRUE)
    /\ refresh' = [refresh EXCEPT ![e].pc = "second", ![e].req = q]
    /\ UNCHANGED <<now, sessions, epoch, phase, user, stored, access, writes,
                   ending, fresh, restoring>>

-----------------------------------------------------------------------------
(* Sign-in and sign-out: useAuth.tsx                                       *)

(* The backend's answer to an interactive sign-in: a new session.          *)
(* handleSignInSuccess first waits for the latest sign-out to finish.      *)
SignIn(s) ==
    /\ phase = "guest" /\ fresh = NoFresh /\ ~InQueue("signin")
    /\ SignInDuringRestore \/ restoring = "none"
    /\ CreateSession(s)
    /\ fresh' = [tok |-> [sid |-> s, gen |-> 0], awaits |-> epoch]
    /\ UNCHANGED <<now, req, epoch, phase, user, stored, access, refresh,
                   writes, ending, restoring>>

(* Mutant: the tokens are written for the epoch before beginAuthEpoch. *)
HandleSignInForOldEpoch ==
    /\ fresh # NoFresh /\ ~Clearing(fresh.awaits)
    /\ epoch < MaxEpoch
    /\ epoch' = epoch + 1
    /\ writes' = Queued(WriteOf("signin", epoch, fresh.tok))
    /\ fresh' = NoFresh
    /\ UNCHANGED <<serverVars, phase, user, stored, access, refresh, ending,
                   restoring>>

(* beginAuthEpoch, then persistSessionTokens. *)
HandleSignInSuccess ==
    /\ fresh # NoFresh /\ ~Clearing(fresh.awaits)
    /\ epoch < MaxEpoch
    /\ epoch' = epoch + 1
    /\ writes' = Queued(WriteOf("signin", epoch + 1, fresh.tok))
    /\ fresh' = NoFresh
    /\ UNCHANGED <<serverVars, phase, user, stored, access, refresh, ending,
                   restoring>>

(* endSession: a new epoch and the guest view at once; the stored tokens   *)
(* are cleared later.  tok is what signOut revokes at the server after it. *)
EndSession(tok) ==
    /\ epoch < MaxEpoch
    /\ epoch' = epoch + 1
    /\ phase' = "guest"
    /\ user' = NoUser
    /\ ending' = ending \cup {WriteOf("clear", epoch + 1, tok)}

SignOut ==
    /\ phase = "signedIn"
    /\ EndSession(stored)
    /\ UNCHANGED <<serverVars, stored, access, refresh, writes, fresh,
                   restoring>>

(* endSession reaches clearPersistedSession. *)
ClearPersistedSession(w) ==
    /\ w \in ending
    /\ ending' = ending \ {w}
    /\ writes' = Queued(w)
    /\ UNCHANGED <<serverVars, epoch, phase, user, stored, access, refresh,
                   fresh, restoring>>

-----------------------------------------------------------------------------
(* The queue of token writes: writeForEpoch                                *)

Running == writes # <<>> /\ Head(writes).st = "running"

(* Mutant: a write runs whether or not its sign-in is still current. *)
BeginAnyWrite ==
    LET w == Head(writes) IN
    /\ writes # <<>> /\ w.st = "queued"
    /\ \/ w.op \in {"signin", "save"} /\ stored' = w.tok /\ UNCHANGED access
       \/ w.op \in {"expire", "clear"} /\ access' = NoToken /\ UNCHANGED stored
       \/ w.op = "clear" /\ stored' = NoToken /\ UNCHANGED access
    /\ writes' = [writes EXCEPT ![1].st = "running"]
    /\ UNCHANGED <<serverVars, epoch, phase, user, refresh, ending, fresh,
                   restoring>>

(* The first write of the queue starts: dropped when its sign-in is no     *)
(* longer current, otherwise its first storage call is made.               *)
BeginWrite ==
    LET w == Head(writes) IN
    /\ writes # <<>> /\ w.st = "queued" /\ w.epoch = epoch
    /\ \/ w.op \in {"signin", "save"} /\ stored' = w.tok /\ UNCHANGED access
       \/ w.op \in {"expire", "clear"} /\ access' = NoToken /\ UNCHANGED stored
       \/ w.op = "clear" /\ stored' = NoToken /\ UNCHANGED access
    /\ writes' = [writes EXCEPT ![1].st = "running"]
    /\ UNCHANGED <<serverVars, epoch, phase, user, refresh, ending, fresh,
                   restoring>>

RefreshDone(e) == refresh' = [refresh EXCEPT ![e] = Idle]

(* signOut's best-effort logout call, sent once the clear has settled. *)
RevokeAtServer(tok) ==
    \/ UNCHANGED req
    \/ tok # NoToken /\ \E q \in Requests : Send(q, "logout", tok, FALSE)

(* Mutant: a refresh whose write is dropped stays in flight. *)
DropWriteOnly ==
    LET w == Head(writes) IN
    /\ writes # <<>> /\ w.st = "queued" /\ w.epoch # epoch
    /\ writes' = Tail(writes)
    /\ IF w.op = "clear" THEN RevokeAtServer(w.tok) ELSE UNCHANGED req
    /\ UNCHANGED <<now, sessions, epoch, phase, user, stored, access, refresh,
                   ending, fresh, restoring>>

DropWrite ==
    LET w == Head(writes) IN
    /\ writes # <<>> /\ w.st = "queued" /\ w.epoch # epoch
    /\ writes' = Tail(writes)
    /\ IF w.op \in {"save", "expire"} THEN RefreshDone(w.epoch)
                                      ELSE UNCHANGED refresh
    /\ IF w.op = "clear" THEN RevokeAtServer(w.tok) ELSE UNCHANGED req
    /\ UNCHANGED <<now, sessions, epoch, phase, user, stored, access, ending,
                   fresh, restoring>>

(* persistSessionTokens of a refresh completes. *)
FinishSave ==
    LET w == Head(writes) IN
    /\ Running /\ w.op = "save"
    /\ access' = w.tok
    /\ writes' = Tail(writes)
    /\ RefreshDone(w.epoch)
    /\ UNCHANGED <<serverVars, epoch, phase, user, stored, ending, fresh,
                   restoring>>

(* Mutant: the user becomes the token that signed in, not its session. *)
FinishSignInAsToken ==
    LET w == Head(writes) IN
    /\ Running /\ w.op = "signin"
    /\ access' = w.tok
    /\ writes' = Tail(writes)
    /\ IF w.epoch = epoch THEN phase' = "signedIn" /\ user' = w.tok
                          ELSE UNCHANGED <<phase, user>>
    /\ UNCHANGED <<serverVars, epoch, stored, refresh, ending, fresh,
                   restoring>>

(* persistSessionTokens of a sign-in completes. *)
FinishSignIn ==
    LET w == Head(writes) IN
    /\ Running /\ w.op = "signin"
    /\ access' = w.tok
    /\ writes' = Tail(writes)
    /\ IF w.epoch = epoch THEN phase' = "signedIn" /\ user' = w.tok.sid
                          ELSE UNCHANGED <<phase, user>>
    /\ UNCHANGED <<serverVars, epoch, stored, refresh, ending, fresh,
                   restoring>>

(* The tokens of a rejected session are gone: sessionExpiredHandler ends   *)
(* the session.  During a restore, initializeSession goes on to its clears.*)
FinishExpire ==
    LET w == Head(writes) IN
    /\ Running /\ w.op = "expire"
    /\ stored' = NoToken
    /\ writes' = Tail(writes)
    /\ RefreshDone(w.epoch)
    /\ EndSession(NoToken)
    /\ restoring' = IF phase = "loading" THEN "looking" ELSE restoring
    /\ UNCHANGED <<serverVars, access, fresh>>

FinishClear ==
    LET w == Head(writes) IN
    /\ Running /\ w.op = "clear"
    /\ stored' = NoToken /\ access' = NoToken
    /\ writes' = Tail(writes)
    /\ RevokeAtServer(w.tok)
    /\ UNCHANGED <<now, sessions, epoch, phase, user, refresh, ending, fresh,
                   restoring>>

-----------------------------------------------------------------------------
(* Launch: initializeSession                                               *)

(* The profile request succeeded, or the server could not be reached. *)
RestoreSignedIn ==
    /\ phase = "loading" /\ refresh[epoch].pc = "idle"
    /\ {stored, access} # {NoToken}
    /\ phase' = "signedIn"
    /\ user' = IF access # NoToken THEN access.sid ELSE stored.sid
    /\ UNCHANGED <<serverVars, epoch, stored, access, refresh, writes, ending,
                   fresh, restoring>>

(* Nothing to restore: no refresh token (an access token alone that the    *)
(* server refuses is dropped); or one, but neither access token nor cached *)
(* profile; or the profile request is refused after a refresh.             *)
RestoreGuest ==
    /\ phase = "loading" /\ refresh[epoch].pc = "idle"
    /\ \/ stored = NoToken /\ access' = NoToken /\ UNCHANGED stored
       \/ stored # NoToken /\ access = NoToken /\ UNCHANGED <<stored, access>>
       \/ /\ stored # NoToken /\ access # NoToken /\ ~Live(access.sid)
          /\ stored' = NoToken /\ access' = NoToken
    /\ phase' = "guest"
    /\ UNCHANGED <<serverVars, epoch, user, refresh, writes, ending, fresh,
                   restoring>>

(* The restore that found its session rejected looks at the stored token   *)
(* again: finding one, it shows a session; finding none, it goes on to     *)
(* clears and a guest view, which heed neither the queue nor the epoch.    *)
RestoreLook ==
    /\ restoring = "looking"
    /\ IF stored = NoToken
         THEN restoring' = "clearing" /\ UNCHANGED <<phase, user>>
         ELSE /\ restoring' = "none"
              /\ phase' = "signedIn" /\ user' = stored.sid
    /\ UNCHANGED <<serverVars, epoch, stored, access, refresh, writes, ending,
                   fresh>>

RestoreClear ==
    /\ restoring = "clearing"
    /\ restoring' = "none"
    /\ stored' = NoToken /\ access' = NoToken
    /\ phase' = "guest" /\ user' = NoUser
    /\ UNCHANGED <<serverVars, epoch, refresh, writes, ending, fresh>>

(* The app is killed and launched again. *)
Restart ==
    /\ LateDelivery \/ \A q \in Requests : req[q].st \notin {"missed", "reuse"}
    /\ epoch' = 0
    /\ phase' = "loading"
    /\ user' = NoUser
    /\ refresh' = [e \in Epochs |-> Idle]
    /\ writes' = <<>>
    /\ ending' = {}
    /\ fresh' = NoFresh
    /\ restoring' = "none"
    /\ req' = [q \in Requests |-> Abandon(q)]
    /\ UNCHANGED <<now, sessions, stored, access>>

-----------------------------------------------------------------------------
Server == ServerStep /\ UNCHANGED authVars

RefreshStep ==
    \/ \E q \in Requests : StartRefresh(q)
    \/ \E e \in Epochs :
         \/ ReceiveGranted(e)
         \/ ReceiveRejected(e)
         \/ ReceiveThrottled(e)
         \/ GiveUp(e)
         \/ \E q \in Requests : Retry(e, q)

SessionStep ==
    \/ \E s \in Sessions : SignIn(s)
    \/ HandleSignInSuccess
    \/ SignOut
    \/ \E w \in ending : ClearPersistedSession(w)

WriteStep ==
    \/ BeginWrite
    \/ DropWrite
    \/ FinishSave
    \/ FinishSignIn
    \/ FinishExpire
    \/ FinishClear

RestoreStep ==
    \/ RestoreSignedIn
    \/ RestoreGuest
    \/ RestoreLook
    \/ RestoreClear

Next == Server \/ RefreshStep \/ SessionStep \/ WriteStep \/ RestoreStep
        \/ Restart

Spec == Init /\ [][Next]_vars

(* Every await ends: a call is answered, refused or timed out, a handler   *)
(* that started finishes, and storage calls return.                        *)
HandlerEnds(q) == FindSession(q) \/ RevokeForReuse(q) \/ Logout(q) \/ LoseCall(q)

Fairness ==
    /\ \A q \in Requests : WF_vars(HandlerEnds(q) /\ UNCHANGED authVars)
    /\ \A e \in Epochs :
         WF_vars(\/ ReceiveGranted(e) \/ ReceiveRejected(e)
                 \/ ReceiveThrottled(e) \/ GiveUp(e)
                 \/ \E q \in Requests : Retry(e, q))
    /\ WF_vars(WriteStep)
    /\ WF_vars(\E w \in ending : ClearPersistedSession(w))
    /\ WF_vars(HandleSignInSuccess)

FairSpec == Spec /\ Fairness

-----------------------------------------------------------------------------
(* A device never loses touch with a session it did not sign out of: the   *)
(* refresh token it keeps is the session's current one or the one before,  *)
(* which is the only other one the server still accepts.                   *)
StoredRecoverable ==
    stored # NoToken /\ Live(stored.sid) =>
        sessions[stored.sid].cur \in {stored.gen, stored.gen + 1}

(* Why StoredRecoverable holds: the parts of its inductive invariant, for  *)
(* a restore that no sign-in overtakes.  First, no token is ahead of the   *)
(* server: its session exists and is at least at its generation.           *)
Known(t) == sessions[t.sid].state # "unborn" /\ t.gen <= sessions[t.sid].cur

TokensKnown ==
    /\ stored # NoToken => Known(stored)
    /\ \A q \in Requests :
         req[q].st # "free" /\ req[q].kind = "refresh" =>
           /\ Known(req[q].tok)
           /\ req[q].st = "granted" => Known(Successor(req[q].tok))
    /\ \A e \in Epochs : refresh[e].pc # "idle" => Known(refresh[e].tok)
    /\ \A i \in DOMAIN writes :
         writes[i].op \in {"signin", "save"} => Known(writes[i].tok)
    /\ fresh # NoFresh => Known(fresh.tok)

(* A refresh that waits for an answer has a call of its own in flight, for *)
(* its token.                                                              *)
CallsOfRefreshes ==
    /\ \A e \in Epochs : Waiting(e) =>
         LET call == req[refresh[e].req] IN
         /\ call.st # "free" /\ call.kind = "refresh" /\ call.waited
         /\ call.tok = refresh[e].tok
    /\ \A d, e \in Epochs :
         Waiting(d) /\ Waiting(e) /\ refresh[d].req = refresh[e].req => d = e

(* Nothing in progress belongs to a later epoch.                           *)
NothingFromTheFuture ==
    /\ \A e \in Epochs : refresh[e].pc # "idle" => e <= epoch
    /\ \A i \in DOMAIN writes : writes[i].epoch <= epoch
    /\ \A w \in ending : w.epoch <= epoch

(* Writes run one at a time, in their order. *)
OnlyTheFirstRuns == \A i \in DOMAIN writes : writes[i].st = "running" => i = 1

(* The current epoch has at most one outcome of a refresh to write, while  *)
(* that refresh is still in flight.                                        *)
Outcome(w) == w.op \in {"save", "expire"} /\ w.epoch = epoch
OneOutcome ==
    /\ \A i \in DOMAIN writes : Outcome(writes[i]) => refresh[epoch].pc = "saving"
    /\ \A i, j \in DOMAIN writes : Outcome(writes[i]) /\ Outcome(writes[j]) => i = j

(* There is at most one sign-in at a time. *)
OneSignIn ==
    /\ \A i, j \in DOMAIN writes :
         writes[i].op = "signin" /\ writes[j].op = "signin" => i = j
    /\ fresh # NoFresh => ~InQueue("signin")

(* While a sign-in or a sign-out is in progress the app is in the guest    *)
(* view, where no refresh of the current epoch exists.                     *)
PhaseInv ==
    /\ fresh # NoFresh \/ InQueue("signin") => phase = "guest" /\ restoring = "none"
    /\ restoring # "none" => phase = "guest" /\ stored = NoToken
    /\ phase = "guest" => refresh[epoch].pc = "idle"
    /\ Clearing(epoch) => phase = "guest"
    /\ Running /\ Head(writes).op = "clear" => phase = "guest"
    /\ \A i \in DOMAIN writes :
         writes[i].op = "signin" /\ writes[i].epoch = epoch => ~Clearing(epoch)

(* The current epoch's refresh is for the stored token until its outcome   *)
(* is written, and what it will write is that token's successor.           *)
RefreshesStored ==
    /\ refresh[epoch].pc \in {"first", "pause", "second"} =>
         stored = refresh[epoch].tok
    /\ \A i \in DOMAIN writes :
         writes[i].op = "save" /\ writes[i].epoch = epoch /\ writes[i].st = "queued" =>
           /\ stored = refresh[epoch].tok
           /\ stored # NoToken
           /\ writes[i].tok = Successor(stored)

(* No call, and no refresh of any epoch, is ahead of the stored token.     *)
Behind(t) == stored # NoToken /\ t.sid = stored.sid => t.gen <= stored.gen
CallsBehindStored ==
    /\ \A q \in Requests :
         req[q].st # "free" /\ req[q].kind = "refresh" => Behind(req[q].tok)
    /\ \A e \in Epochs : refresh[e].pc # "idle" => Behind(refresh[e].tok)

(* Until its first token is stored, a new session is used by nothing.      *)
Unused(s) ==
    /\ sessions[s].cur = 0
    /\ \A q \in Requests :
         req[q].st # "free" /\ req[q].kind = "refresh" => req[q].tok.sid # s
    /\ \A e \in Epochs : refresh[e].pc # "idle" => refresh[e].tok.sid # s
NewSessionUnused ==
    /\ fresh # NoFresh => Unused(fresh.tok.sid) /\ fresh.tok.gen = 0
    /\ \A i \in DOMAIN writes :
         writes[i].op = "signin" /\ writes[i].st = "queued" =>
           Unused(writes[i].tok.sid) /\ writes[i].tok.gen = 0

RecoverableInv ==
    /\ TokensKnown
    /\ CallsOfRefreshes
    /\ NothingFromTheFuture
    /\ OnlyTheFirstRuns
    /\ OneOutcome
    /\ OneSignIn
    /\ PhaseInv
    /\ RefreshesStored
    /\ CallsBehindStored
    /\ NewSessionUnused
    /\ StoredRecoverable

(* However sign-outs, sign-ins, refreshes and restarts interleave, the     *)
(* tokens the device keeps are those of the session it shows: a late       *)
(* rotation or sign-out of an earlier session never replaces them.         *)
TokensAreOfTheUser ==
    phase = "signedIn" =>
        \A t \in {stored, access} \ {NoToken} : t.sid = user

(* Once a sign-out (or an expiry) has settled, nothing puts the session's  *)
(* tokens back: a refresh still in flight has its outcome discarded.       *)
Settled == /\ phase = "guest" /\ epoch > 0
           /\ ~\E e \in Epochs : Clearing(e)
           /\ ~InQueue("signin")
GuestKeepsNothing == Settled => stored = NoToken /\ access = NoToken

(* The device forgets a refresh token only while the user signs out, or    *)
(* when its session can never be used again: a lost answer, a timeout, a   *)
(* throttled call, or another account's trouble never costs a session.     *)
ForgetsOnlyDeadSessions ==
    [][ /\ stored # NoToken /\ stored' = NoToken
        /\ ~(writes # <<>> /\ Head(writes).op = "clear")
        => ~Live(stored.sid) ]_vars

(* The server's sessions implement SessionLineage: while its document is   *)
(* stored, the generation is the one whose hash it holds.                  *)
Life(s) == IF sessions[s].state = "unborn" THEN "none"
           ELSE IF Live(s) THEN "alive" ELSE "ended"

Lineage == INSTANCE SessionLineage WITH
    life <- [s \in Sessions |-> Life(s)],
    generation <- [s \in Sessions |-> sessions[s].cur]

(* Whatever calls are lost, delayed, repeated or interleaved between their *)
(* database operations, a session's chain never forks or skips, and a      *)
(* revoked, expired or deleted session is never usable again.              *)
ImplementsLineage == Lineage!LineageSpec

(* With calls that do not outlive the client's patience, a live session is *)
(* revoked for reuse only for a token replaced longer ago than the grace.  *)
ReuseOnlyAfterGrace ==
    \A q \in Requests :
        LET doc == sessions[req[q].tok.sid] IN
        req[q].st = "reuse" /\ Live(req[q].tok.sid) =>
            now - doc.rotatedAt > Grace

(* The bound on epochs stops a sign-in or an expiry. *)
BoundReached == epoch = MaxEpoch /\ (fresh # NoFresh \/ InQueue("expire"))

(* No refresh hangs: the single-flight slot callers share is freed again,  *)
(* whatever is lost and whichever sign-in it belongs to.                   *)
RefreshEnds ==
    \A e \in Epochs : refresh[e].pc # "idle"
                        ~> refresh[e].pc = "idle" \/ BoundReached

(* A sign-in that waits for the sign-out before it is not blocked forever. *)
SignInCompletes == fresh # NoFresh ~> phase # "guest" \/ BoundReached
=============================================================================

--------------------------- MODULE RefreshRotation ---------------------------
(***************************************************************************)
(* The server's side of a sign-in session: the stored session documents    *)
(* and the requests that rotate or revoke them                             *)
(* (backend/src/auth/refreshRotation.ts, services/                         *)
(* MongooseSessionRepository.ts).                                          *)
(*                                                                         *)
(* The successor of a refresh token is derived from it with a server key,  *)
(* so the tokens of one session form a single chain: a token is its        *)
(* session and its place in that chain (gen), and its hash is as good as   *)
(* the token.  A request is one HTTP call: it may be lost, delayed until   *)
(* after the client gave up on it, or lose its answer; the handler's       *)
(* database operations (compareAndRotate, find, revoke) are separate steps *)
(* that other requests interleave with.                                    *)
(***************************************************************************)
EXTENDS Integers

CONSTANTS
    Sessions,      \* the sessions that sign-ins may create
    Requests,      \* identities of HTTP calls in flight at one time
    NoToken,       \* "no token"
    Grace,         \* REFRESH_RETRY_GRACE_MS, in ticks of the server's clock
    RefreshTTL,    \* REFRESH_TOKEN_TTL_MS, in ticks
    MaxTime,       \* bound on the clock (model checking only)
    LateDelivery   \* whether a call the client gave up on may still arrive

ASSUME RotationAssumption ==
    /\ Grace \in Nat
    /\ RefreshTTL \in Nat \ {0}
    /\ MaxTime \in Nat
    /\ LateDelivery \in BOOLEAN

Token == [sid : Sessions, gen : Nat]
ASSUME NoTokenIsNoToken == NoToken \notin Token

VARIABLES
    now,       \* the server's clock
    sessions,  \* the session documents
    req        \* the calls in flight

serverVars == <<now, sessions, req>>

(* A session document.  state: not created yet, stored, or deleted.        *)
(* prev and rotatedAt are -1 until the first rotation.                     *)
SessionDoc == [state     : {"unborn", "stored", "removed"},
               cur       : Nat,
               prev      : Nat \cup {-1},
               rotatedAt : Nat \cup {-1},
               expiresAt : Nat,
               revoked   : BOOLEAN]

(* A call: free identity; sent and not yet handled; its compareAndRotate   *)
(* matched nothing (missed); find judged it reuse; or an answer is on its  *)
(* way back.  waited: the client still waits for it.                       *)
Call == [st     : {"free", "sent", "missed", "reuse", "granted",
                   "rejected", "throttled"},
         kind   : {"refresh", "logout"},
         tok    : Token \cup {NoToken},
         at     : Nat,
         waited : BOOLEAN]

FreeCall == [st |-> "free", kind |-> "refresh", tok |-> NoToken,
             at |-> 0, waited |-> FALSE]

ServerTypeOK ==
    /\ now \in Nat
    /\ sessions \in [Sessions -> SessionDoc]
    /\ req \in [Requests -> Call]

Unborn == [state |-> "unborn", cur |-> 0, prev |-> -1, rotatedAt |-> -1,
           expiresAt |-> 0, revoked |-> FALSE]

(* A deleted document holds nothing; cur only records where its chain was. *)
Removed(s) == [Unborn EXCEPT !.state = "removed", !.cur = sessions[s].cur]

ServerInit ==
    /\ now = 0
    /\ sessions = [s \in Sessions |-> Unborn]
    /\ req = [q \in Requests |-> FreeCall]

(* isSessionActive / the filter of compareAndRotate: the document exists,  *)
(* is not revoked and has not expired.                                     *)
Live(s) == /\ sessions[s].state = "stored"
           /\ ~sessions[s].revoked
           /\ sessions[s].expiresAt > now

Successor(t) == [t EXCEPT !.gen = @ + 1]

(* createSession: a new document holding the hash of a random first token. *)
NewSession == [Unborn EXCEPT !.state = "stored", !.expiresAt = now + RefreshTTL]

CreateSession(s) ==
    /\ sessions[s].state = "unborn"
    /\ sessions' = [sessions EXCEPT ![s] = NewSession]

(* A call leaves the client. *)
Send(q, kind, tok, waited) ==
    /\ req[q].st = "free"
    /\ req' = [req EXCEPT ![q] = [st |-> "sent", kind |-> kind, tok |-> tok,
                                  at |-> 0, waited |-> waited]]

(* The answer reaches a client that still waits for it, or nobody. *)
Answer(q, outcome) ==
    IF req[q].waited THEN [req EXCEPT ![q].st = outcome]
                     ELSE [req EXCEPT ![q] = FreeCall]

(* The session of token t after its rotation: the RotationUpdate. *)
Rotated(t) == [sessions[t.sid] EXCEPT !.cur = Successor(t).gen,
                                      !.prev = t.gen,
                                      !.rotatedAt = now,
                                      !.expiresAt = now + RefreshTTL]

(* Mutant: the update is not conditional on the presented hash. *)
CompareAndRotateAnyToken(q) ==
    LET t == req[q].tok IN
    /\ req[q].st = "sent" /\ req[q].kind = "refresh"
    /\ IF Live(t.sid)
         THEN /\ sessions' = [sessions EXCEPT ![t.sid] = Rotated(t)]
              /\ req' = Answer(q, "granted")
         ELSE /\ req' = [req EXCEPT ![q].st = "missed", ![q].at = now]
              /\ UNCHANGED sessions
    /\ UNCHANGED now

(* rotateRefreshToken up to compareAndRotate: one conditional update that  *)
(* applies only to a live session whose current hash is the presented one. *)
CompareAndRotate(q) ==
    LET t == req[q].tok IN
    /\ req[q].st = "sent" /\ req[q].kind = "refresh"
    /\ IF Live(t.sid) /\ sessions[t.sid].cur = t.gen
         THEN /\ sessions' = [sessions EXCEPT ![t.sid] = Rotated(t)]
              /\ req' = Answer(q, "granted")
         ELSE /\ req' = [req EXCEPT ![q].st = "missed", ![q].at = now]
              /\ UNCHANGED sessions
    /\ UNCHANGED now

(* The session as find read it, judged at the instant the call started. *)
DeadAt(s, t) == \/ sessions[s].state # "stored"
                \/ sessions[s].revoked
                \/ sessions[s].expiresAt <= t

(* Mutant: the grace period excludes its last instant. *)
IsRetryBeforeGraceEnds(q) ==
    LET doc == sessions[req[q].tok.sid]
        gap == req[q].at - doc.rotatedAt
    IN /\ doc.prev = req[q].tok.gen
       /\ doc.cur = Successor(req[q].tok).gen
       /\ doc.rotatedAt # -1
       /\ (IF gap < 0 THEN -gap ELSE gap) < Grace

IsRetryOfLastRotation(q) ==
    LET doc == sessions[req[q].tok.sid]
        gap == req[q].at - doc.rotatedAt
    IN /\ doc.prev = req[q].tok.gen
       /\ doc.cur = Successor(req[q].tok).gen
       /\ doc.rotatedAt # -1
       /\ (IF gap < 0 THEN -gap ELSE gap) <= Grace

(* Mutant: a retry rotates the session once more. *)
FindSessionRotatesAgain(q) ==
    LET s == req[q].tok.sid IN
    /\ req[q].st = "missed"
    /\ IF DeadAt(s, req[q].at)
         THEN req' = Answer(q, "rejected") /\ UNCHANGED sessions
         ELSE IF IsRetryOfLastRotation(q)
         THEN /\ req' = Answer(q, "granted")
              /\ sessions' = [sessions EXCEPT ![s].cur = @ + 1]
         ELSE req' = [req EXCEPT ![q].st = "reuse"] /\ UNCHANGED sessions
    /\ UNCHANGED now

(* store.find, and the decision taken on what it returned. *)
FindSession(q) ==
    /\ req[q].st = "missed"
    /\ req' = IF DeadAt(req[q].tok.sid, req[q].at) THEN Answer(q, "rejected")
              ELSE IF IsRetryOfLastRotation(q) THEN Answer(q, "granted")
              ELSE [req EXCEPT ![q].st = "reuse"]
    /\ UNCHANGED <<now, sessions>>

(* The update that sets revokedAt; it matches nothing once the document is *)
(* gone or already revoked.                                                *)
Revoked(s) ==
    IF sessions[s].state = "stored"
      THEN [sessions EXCEPT ![s].revoked = TRUE]
      ELSE sessions

(* store.revoke: a superseded token was presented. *)
RevokeForReuse(q) ==
    /\ req[q].st = "reuse"
    /\ sessions' = Revoked(req[q].tok.sid)
    /\ req' = Answer(q, "rejected")
    /\ UNCHANGED now

(* revokeSession: logout finds the session by its id alone, so it revokes  *)
(* it whatever generation the presented token is.                          *)
Logout(q) ==
    /\ req[q].st = "sent" /\ req[q].kind = "logout"
    /\ sessions' = Revoked(req[q].tok.sid)
    /\ req' = [req EXCEPT ![q] = FreeCall]
    /\ UNCHANGED now

(* The rate limiter in front of the handler answers 429: nothing changes. *)
Throttle(q) ==
    /\ req[q].st = "sent" /\ req[q].kind = "refresh"
    /\ req' = Answer(q, "throttled")
    /\ UNCHANGED <<now, sessions>>

(* A call nobody waits for any more never reaches the handler.  (While the *)
(* client waits, a lost call is a call it gives up on.)                    *)
LoseCall(q) ==
    /\ req[q].st = "sent" /\ ~req[q].waited
    /\ req' = [req EXCEPT ![q] = FreeCall]
    /\ UNCHANGED <<now, sessions>>

(* The documents of a deleted account, or of an expired session (the TTL   *)
(* index), are removed.                                                    *)
RemoveSession(s) ==
    /\ sessions[s].state = "stored"
    /\ sessions' = [sessions EXCEPT ![s] = Removed(s)]
    /\ UNCHANGED <<now, req>>

Tick ==
    /\ now < MaxTime
    /\ now' = now + 1
    /\ UNCHANGED <<sessions, req>>

(* What the client's giving up does to a call: an answer is discarded, and *)
(* a call not yet handled goes on unless closing the connection stops it.  *)
Abandon(q) ==
    IF \/ req[q].st \in {"free", "granted", "rejected", "throttled"}
       \/ req[q].st = "sent" /\ ~LateDelivery
      THEN FreeCall
      ELSE [req[q] EXCEPT !.waited = FALSE]

ServerStep ==
    \/ Tick
    \/ \E q \in Requests :
         \/ CompareAndRotate(q)
         \/ FindSession(q)
         \/ RevokeForReuse(q)
         \/ Logout(q)
         \/ Throttle(q)
         \/ LoseCall(q)
    \/ \E s \in Sessions : RemoveSession(s)
=============================================================================

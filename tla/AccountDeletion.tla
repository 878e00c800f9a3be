---------------------------- MODULE AccountDeletion ----------------------------
(***************************************************************************)
(* Deleting one account while requests of it are still under way.          *)
(*                                                                         *)
(* The sync writes and the deletion are MongoDB transactions on the user's *)
(* document (backend/src/services/withExistingUser.ts,                     *)
(* MongooseAccountDeletionService.ts): each works on the data as it was    *)
(* when it began, and one that meets another's write is run again.  A      *)
(* deletion comes from the app, or from an operator with a verified case   *)
(* (admin/deletionCases.ts, admin/adminAccountDeletion.ts); both revoke    *)
(* the Apple authorization first (services/revokeAppleThenDelete.ts).      *)
(***************************************************************************)
EXTENDS Integers, FiniteSets, Sequences

CONSTANTS
    SyncWrites,      \* sync writes, each of a document of its own
    Cases,       \* deletion cases of the account
    MaxWrong     \* MAX_ATTEMPTS

ASSUME DeletionAssumption == MaxWrong \in Nat \ {0}

Deletions == {"app", "admin"}

VARIABLES
    exists,      \* the user's document
    stored,      \* the writes whose documents are stored
    register,    \* the deletion register names the account
    write,       \* each write: none, allowed in, or in its transaction
    deletion,    \* each deletion's progress
    granted,     \* Apple authorizes the app for this user
    token,       \* the stored Apple refresh token
    signIn,      \* a sign-in to the account in progress
    sessions,    \* a session is stored
    case,        \* the operator's case file
    issued       \* the cases in the order of their codes

accountVars == <<exists, stored, register, write, deletion, granted, token, signIn,
                 sessions, case, issued>>

NotDeleting ==
    [stage |-> "none", of |-> "nobody", token |-> FALSE, saw |-> {}, fresh |-> TRUE]
NoCase == [status |-> "none", wrong |-> 0, expired |-> FALSE]

DeletionTypeOK ==
    /\ exists \in BOOLEAN /\ register \in BOOLEAN /\ granted \in BOOLEAN
    /\ token \in BOOLEAN /\ sessions \in BOOLEAN
    /\ stored \subseteq SyncWrites
    /\ write \in [SyncWrites -> {"none", "allowed", "open", "done"}]
    /\ deletion \in [Deletions -> [stage : {"none", "found", "proved", "checked",
                                            "revoked", "begun", "removed", "deleted"},
                                   of : Cases \cup {"nobody"}, token : BOOLEAN, saw : SUBSET SyncWrites,
                                   fresh : BOOLEAN]]
    /\ signIn \in {"none", "known", "captured", "done"}
    /\ case \in [Cases -> [status : {"none", "asked", "pending", "verified",
                                     "locked", "superseded", "completed"},
                           wrong : 0..MaxWrong, expired : BOOLEAN]]
    /\ issued \in Seq(Cases)

DeletionInit ==
    /\ exists = TRUE /\ stored = {} /\ register = FALSE
    /\ write = [w \in SyncWrites |-> "none"]
    /\ deletion = [d \in Deletions |-> NotDeleting]
    /\ granted \in BOOLEAN /\ token \in {FALSE, granted}
    /\ signIn = "none" /\ sessions = TRUE
    /\ case = [c \in Cases |-> NoCase] /\ issued = <<>>

-----------------------------------------------------------------------------
(* A write passes requireAuth while the account exists; withExistingUser   *)
(* then touches the user's document in the write's own transaction.        *)
(* Mutant: the existence is only read, and meets no other transaction.     *)
TouchConflictsNot == FALSE
TouchConflicts == TRUE

Touched == \E w \in SyncWrites : write[w] = "open" /\ TouchConflicts
Removed(d) == deletion[d].stage = "removed"

AllowWrite(w) ==
    /\ write[w] = "none" /\ exists /\ sessions
    /\ write' = [write EXCEPT ![w] = "allowed"]
    /\ UNCHANGED <<exists, stored, register, deletion, granted, token, signIn,
                   sessions, case, issued>>

TouchUser(w) ==
    /\ write[w] = "allowed"
    /\ ~Touched /\ \A d \in Deletions : ~Removed(d)
    /\ write' = [write EXCEPT ![w] = IF exists THEN "open" ELSE "done"]
    /\ UNCHANGED <<exists, stored, register, deletion, granted, token, signIn,
                   sessions, case, issued>>

(* A change of the user's document since they began makes deletions stale. *)
Stale(ds) == [d \in Deletions |->
                [deletion[d] EXCEPT !.fresh = @ /\ d \notin ds]]

CommitWrite(w) ==
    /\ write[w] = "open"
    /\ write' = [write EXCEPT ![w] = "done"]
    /\ stored' = stored \cup {w}
    /\ deletion' = IF TouchConflicts THEN Stale(Deletions) ELSE deletion
    /\ UNCHANGED <<exists, register, granted, token, signIn, sessions, case, issued>>

-----------------------------------------------------------------------------
(* A sign-in finds the account, may capture an Apple token, and opens a    *)
(* session: three separate writes.                                         *)
SignInFinds ==
    /\ signIn = "none" /\ exists /\ signIn' = "known"
    /\ UNCHANGED <<exists, stored, register, write, deletion, granted, token, sessions,
                   case, issued>>

SignInCaptures ==
    /\ signIn = "known" /\ signIn' = "captured"
    /\ \/ granted' = TRUE /\ token' = TRUE
       \/ UNCHANGED <<granted, token>>
    /\ UNCHANGED <<exists, stored, register, write, deletion, sessions, case, issued>>

SignInOpensSession ==
    /\ signIn = "captured" /\ signIn' = "done" /\ sessions' = TRUE
    /\ UNCHANGED <<exists, stored, register, write, deletion, granted, token, case,
                   issued>>

-----------------------------------------------------------------------------
Steps(d, from, to) ==
    /\ deletion[d].stage = from
    /\ deletion' = [deletion EXCEPT ![d].stage = to]

(* The app's request: requireAuth lets it in and the identity is found.    *)
AppDeletes ==
    /\ exists /\ sessions /\ Steps("app", "none", "found")
    /\ UNCHANGED <<exists, stored, register, write, granted, token, signIn, sessions,
                   case, issued>>

Authorizes(c) == case[c].status = "verified"

Locked == deletion["admin"].stage # "none"

(* The operator's run needs a verified case, whose file it locks, and      *)
(* loads the account: one already gone completes the case at once.         *)
AdminDeletes ==
    /\ ~Locked
    /\ \E c \in Cases :
         /\ Authorizes(c)
         /\ IF exists
            THEN /\ deletion' = [deletion EXCEPT !["admin"] =
                                    [NotDeleting EXCEPT !.stage = "found", !.of = c]]
                 /\ UNCHANGED case
            ELSE /\ case' = [case EXCEPT ![c].status = "completed"]
                 /\ UNCHANGED deletion
    /\ UNCHANGED <<exists, stored, register, write, granted, token, signIn, sessions,
                   issued>>

(* The stored Apple token, if there is one, is the one to revoke. *)
ReadToken(d) ==
    /\ deletion[d].stage = "found"
    /\ deletion' = [deletion EXCEPT ![d].stage = "checked", ![d].token = token]
    /\ UNCHANGED <<exists, stored, register, write, granted, token, signIn, sessions,
                   case, issued>>

(* Without one, the app's owner proves the Apple identity again, which     *)
(* authorizes the app anew; the code's token is then saved, whether or not *)
(* the account is still there.                                             *)
ExchangeCode ==
    /\ ~token /\ Steps("app", "found", "proved")
    /\ granted' = TRUE
    /\ UNCHANGED <<exists, stored, register, write, token, signIn, sessions, case,
                   issued>>

SaveToken ==
    /\ deletion["app"].stage = "proved"
    /\ token' = TRUE
    /\ deletion' = [deletion EXCEPT !["app"].stage = "checked", !["app"].token = TRUE]
    /\ UNCHANGED <<exists, stored, register, write, granted, signIn, sessions, case,
                   issued>>

Revoke(d) ==
    /\ Steps(d, "checked", "revoked")
    /\ granted' = (granted /\ ~deletion[d].token)
    /\ UNCHANGED <<exists, stored, register, write, token, signIn, sessions, case,
                   issued>>

(* A refusal, a failure or a crash ends the deletion where it is: after    *)
(* the commit too, whose answer may be lost, or when records remain.       *)
DeletionStops(d) ==
    /\ deletion[d].stage # "none"
    /\ deletion' = [deletion EXCEPT ![d] = NotDeleting]
    /\ UNCHANGED <<exists, stored, register, write, granted, token, signIn, sessions,
                   case, issued>>

(* The transaction: the documents as they are when it begins, ... *)
BeginDeletion(d) ==
    /\ deletion[d].stage = "revoked"
    /\ deletion' = [deletion EXCEPT ![d].stage = "begun", ![d].saw = stored,
                                    ![d].fresh = TRUE]
    /\ UNCHANGED <<exists, stored, register, write, granted, token, signIn, sessions,
                   case, issued>>

(* ... then the user's own: run again if another transaction holds it or   *)
(* has changed it meanwhile.                                               *)
RemoveUser(d) ==
    /\ IF deletion[d].fresh /\ ~Touched /\ \A e \in Deletions : ~Removed(e)
       THEN Steps(d, "begun", "removed")
       ELSE Steps(d, "begun", "revoked")
    /\ UNCHANGED <<exists, stored, register, write, granted, token, signIn, sessions,
                   case, issued>>

CommitDeletion(d) ==
    /\ Removed(d)
    /\ exists' = FALSE /\ register' = TRUE
    /\ stored' = stored \ deletion[d].saw
    /\ token' = FALSE /\ sessions' = FALSE
    /\ deletion' = [Stale(Deletions \ {d}) EXCEPT ![d].stage = "deleted"]
    /\ UNCHANGED <<write, granted, signIn, case, issued>>

(* Mutant: a deletion that was rolled back completes the case too. *)
RecountsNot == deletion["admin"].stage \in {"revoked", "deleted"}
RecountsNone ==
    deletion["admin"].stage = "deleted" /\ ~exists /\ ~sessions /\ ~token /\ stored = {}

(* The operator's run counts again, and completes its case. *)
AdminCompletes ==
    /\ RecountsNone
    /\ case' = [case EXCEPT ![deletion["admin"].of].status = "completed"]
    /\ deletion' = [deletion EXCEPT !["admin"] = NotDeleting]
    /\ UNCHANGED <<exists, stored, register, write, granted, token, signIn, sessions,
                   issued>>

-----------------------------------------------------------------------------
(* The case file. *)
CaseStep ==
    /\ ~Locked
    /\ UNCHANGED <<exists, stored, register, write, deletion, granted, token, signIn,
                   sessions>>

(* Mutant: earlier codes stay usable. *)
SupersededNone(c) == case
Superseded(c) == [o \in Cases |-> IF case[o].status = "pending"
                                  THEN [case[o] EXCEPT !.status = "superseded"]
                                  ELSE case[o]]

(* A challenge finds the account before it takes the file's lock. *)
StartChallenge(c) ==
    /\ exists /\ case[c].status = "none"
    /\ case' = [case EXCEPT ![c].status = "asked"]
    /\ UNCHANGED <<exists, stored, register, write, deletion, granted, token, signIn,
                   sessions, issued>>

CreateCase(c) ==
    /\ CaseStep /\ case[c].status = "asked"
    /\ case' = [Superseded(c) EXCEPT ![c] = [NoCase EXCEPT !.status = "pending"]]
    /\ issued' = Append(issued, c)

Verify(c) ==
    /\ CaseStep /\ case[c].status = "pending" /\ ~case[c].expired
    /\ \/ case' = [case EXCEPT ![c].status = "verified"]
       \/ case' = [case EXCEPT ![c].wrong = @ + 1,
                     ![c].status = IF case[c].wrong + 1 = MaxWrong THEN "locked" ELSE @]
    /\ UNCHANGED issued

CodeExpires(c) ==
    /\ case[c].status = "pending" /\ ~case[c].expired
    /\ case' = [case EXCEPT ![c].expired = TRUE]
    /\ UNCHANGED <<exists, stored, register, write, deletion, granted, token, signIn,
                   sessions, issued>>

DeletionNext ==
    \/ \E w \in SyncWrites : AllowWrite(w) \/ TouchUser(w) \/ CommitWrite(w)
    \/ SignInFinds \/ SignInCaptures \/ SignInOpensSession
    \/ AppDeletes \/ AdminDeletes \/ ExchangeCode \/ SaveToken \/ AdminCompletes
    \/ \E d \in Deletions : \/ ReadToken(d) \/ Revoke(d) \/ DeletionStops(d)
                            \/ BeginDeletion(d) \/ RemoveUser(d) \/ CommitDeletion(d)
    \/ \E c \in Cases : StartChallenge(c) \/ CreateCase(c) \/ Verify(c) \/ CodeExpires(c)

DeletionSpec == DeletionInit /\ [][DeletionNext]_accountVars

-----------------------------------------------------------------------------
(* A deleted account's synced data stays deleted: no write that was        *)
(* allowed in before the deletion stores anything after it.                *)
NoDataOfTheDeleted == ~exists => stored = {}

(* Only the newest code of the account can verify. *)
NewestCodeVerifies ==
    [][\A c \in Cases : case[c].status # "verified" /\ case'[c].status = "verified"
         => c = issued[Len(issued)]]_accountVars

(* A completed case means that the account is gone. *)
CompletedMeansDeleted ==
    (\E c \in Cases : case[c].status = "completed") => ~exists /\ register
===============================================================================

---------------------------- MODULE ReflectionKey ----------------------------
(***************************************************************************)
(* The account's reflection key (mobile sync/syncKeyManager.ts; backend    *)
(* controllers/syncController.ts, services/MongooseSyncRepository.ts).     *)
(*                                                                         *)
(* Devices ask for the account's key, unlock it, make the first one, or    *)
(* reset it after a forgotten Sync Password, and upload ciphertext under   *)
(* the key they hold; one stored reflection stands for all.  Keys are      *)
(* numbered as they are made, 0 is no key.  All have fingerprints.         *)
(***************************************************************************)
EXTENDS Naturals

CONSTANTS
    Holders,   \* the devices signed in to the account
    MaxKeys,   \* bound: keys made
    KeyFaults  \* bound: requests lost, answers lost and server stops

ASSUME KeyAssumption == {MaxKeys, KeyFaults} \subseteq Nat

VARIABLES
    accountKey,  \* the key the account stores (wrapped under the Sync Password)
    ciphertext,  \* the key the stored reflection is encrypted under
    cached,      \* the key cached on the device
    keySetup,    \* a key made in this session, not known to be stored
    keyRun,      \* ensureReflectionMasterKey and the upload after it, on the device
    made,        \* how many keys were made
    keyFaults,   \* faults so far
    own,         \* history: the keys made on the device in its present session
    straddled,   \* history: an upload was checked before a reset and written after
                 \* the next key's clean-up
    uncleaned    \* history: the server stopped before a clean-up

keyVars == <<accountKey, ciphertext, cached, keySetup, keyRun, made, keyFaults,
             own, straddled, uncleaned>>

Keys0 == 0..MaxKeys
Run == [at : {"none", "asked", "unlock", "create", "store", "stored", "reread",
              "ready", "checked"},
        key : Keys0]
NoRun == [at |-> "none", key |-> 0]

KeyTypeOK ==
    /\ {accountKey, ciphertext, made} \subseteq Keys0
    /\ cached \in [Holders -> Keys0] /\ keySetup \in [Holders -> Keys0]
    /\ keyRun \in [Holders -> Run]
    /\ own \in [Holders -> SUBSET Keys0]
    /\ keyFaults \in 0..KeyFaults
    /\ {straddled, uncleaned} \subseteq BOOLEAN

KeyInit ==
    /\ accountKey = 0 /\ ciphertext = 0 /\ made = 0 /\ keyFaults = 0
    /\ cached = [d \in Holders |-> 0] /\ keySetup = [d \in Holders |-> 0]
    /\ keyRun = [d \in Holders |-> NoRun] /\ own = [d \in Holders |-> {}]
    /\ straddled = FALSE /\ uncleaned = FALSE

\* The run goes on at this point, with this key.
Goes(d, at, key) == keyRun' = [keyRun EXCEPT ![d] = [at |-> at, key |-> key]]
Ends(d) == keyRun' = [keyRun EXCEPT ![d] = NoRun]

Fault ==
    /\ keyFaults < KeyFaults
    /\ keyFaults' = keyFaults + 1

-----------------------------------------------------------------------------
(* ensureReflectionMasterKey.  A second request on the device joins the    *)
(* first, so that there is one run.                                        *)

\* getCloudSyncKey: the run carries the account's key as it was when read.
Asks(d) ==
    /\ keyRun[d].at = "none"
    /\ Goes(d, "asked", accountKey)
    /\ UNCHANGED <<accountKey, ciphertext, cached, keySetup, made,
                   keyFaults, own, straddled, uncleaned>>

\* recoverOrCreateMasterKey, up to its first prompt or request: the cached key if it is
\* still the account's, the unfinished setup if there is one, else the password sheet.
Decides(d) ==
    LET cloud == keyRun[d].key
        finished == cloud # 0 /\ cloud \in {cached[d], keySetup[d]}
    IN
    /\ keyRun[d].at = "asked"
    /\ cached' = [cached EXCEPT ![d] = IF finished THEN cloud ELSE 0]
    /\ keySetup' = [keySetup EXCEPT ![d] =
                      IF cloud # 0 /\ cached[d] # cloud THEN 0 ELSE @]
    /\ \/ finished /\ Goes(d, "ready", cloud)
       \/ ~finished /\ cloud # 0 /\ Goes(d, "unlock", cloud)
       \/ cloud = 0 /\ keySetup[d] # 0 /\ Goes(d, "store", keySetup[d])
       \/ cloud = 0 /\ keySetup[d] = 0 /\ Goes(d, "create", 0)
    /\ UNCHANGED <<accountKey, ciphertext, made, keyFaults, own,
                   straddled, uncleaned>>

\* The right password for the wrapped key that was read.
Unlocks(d) ==
    /\ keyRun[d].at = "unlock"
    /\ cached' = [cached EXCEPT ![d] = keyRun[d].key]
    /\ Goes(d, "ready", keyRun[d].key)
    /\ UNCHANGED <<accountKey, ciphertext, keySetup, made, keyFaults, own,
                   straddled, uncleaned>>

\* The sheet is closed.
Cancels(d) ==
    /\ keyRun[d].at \in {"unlock", "create"}
    /\ Ends(d)
    /\ UNCHANGED <<accountKey, ciphertext, cached, keySetup, made,
                   keyFaults, own, straddled, uncleaned>>

\* resetReflectionSync deletes the key and the reflections in one transaction; then
\* resetEncryptedReflectionSync drops the device's keys.  With its answer lost, the
\* sheet stays and the device keeps what it has.
Resets(d) ==
    /\ keyRun[d].at = "unlock"
    /\ accountKey' = 0 /\ ciphertext' = 0
    /\ \/ /\ keySetup' = [keySetup EXCEPT ![d] = 0]
          /\ cached' = [cached EXCEPT ![d] = 0]
          /\ Goes(d, "create", 0)
          /\ UNCHANGED keyFaults
       \/ Fault /\ UNCHANGED <<keySetup, cached, keyRun>>
    /\ UNCHANGED <<made, own, straddled, uncleaned>>

\* The setup is remembered before the upload is sent; in the first form, only by the
\* run that sends it.
RememberedByTheRun(d, key) == keySetup
Remembered(d, key) == [keySetup EXCEPT ![d] = key]

\* createMasterKey.
Creates(d) ==
    /\ keyRun[d].at = "create" /\ made < MaxKeys
    /\ made' = made + 1
    /\ keySetup' = Remembered(d, made + 1)
    /\ own' = [own EXCEPT ![d] = @ \union {made + 1}]
    /\ Goes(d, "store", made + 1)
    /\ UNCHANGED <<accountKey, ciphertext, cached, keyFaults, straddled, uncleaned>>

-----------------------------------------------------------------------------
(* putSyncKey: two writes, the key and then the deletion of what is        *)
(* encrypted under any other.                                              *)

\* The account stores a first key only; a refusal makes the device read again.
Stores(d) ==
    /\ keyRun[d].at = "store"
    /\ \/ accountKey = 0 /\ accountKey' = keyRun[d].key /\ Goes(d, "stored", keyRun[d].key)
       \/ accountKey # 0 /\ UNCHANGED accountKey /\ Goes(d, "reread", keyRun[d].key)
    /\ UNCHANGED <<ciphertext, cached, keySetup, made, keyFaults, own, straddled, uncleaned>>

\* deleteReflectionsNotEncryptedWith; CleanedNot leaves everything.
CleanedNot(stored, key) == stored
Cleaned(stored, key) == IF stored = key THEN stored ELSE 0

\* The clean-up, and the answer, which may be lost.
CleansUp(d) ==
    /\ keyRun[d].at = "stored"
    /\ ciphertext' = Cleaned(ciphertext, keyRun[d].key)
    /\ \/ /\ cached' = [cached EXCEPT ![d] = keyRun[d].key]
          /\ keySetup' = [keySetup EXCEPT ![d] = 0]
          /\ Goes(d, "ready", keyRun[d].key)
          /\ UNCHANGED keyFaults
       \/ Fault /\ Goes(d, "reread", keyRun[d].key) /\ UNCHANGED <<cached, keySetup>>
    /\ UNCHANGED <<accountKey, made, own, straddled, uncleaned>>

\* The request never arrives, or the server stops between the two writes.
StoreFails(d) ==
    /\ Fault
    /\ keyRun[d].at \in {"store", "stored"}
    /\ uncleaned' = (uncleaned \/ keyRun[d].at = "stored")
    /\ Goes(d, "reread", keyRun[d].key)
    /\ UNCHANGED <<accountKey, ciphertext, cached, keySetup, made, own, straddled>>

\* storeKeySetup after an error: only finding this very key counts as stored, and the
\* setup otherwise stays for the next sync; the read itself may fail too.
Rereads(d) ==
    /\ keyRun[d].at = "reread"
    /\ \/ /\ accountKey = keyRun[d].key
          /\ cached' = [cached EXCEPT ![d] = keyRun[d].key]
          /\ keySetup' = [keySetup EXCEPT ![d] = 0]
          /\ Goes(d, "ready", keyRun[d].key)
          /\ UNCHANGED keyFaults
       \/ /\ (accountKey # keyRun[d].key /\ UNCHANGED keyFaults) \/ Fault
          /\ Ends(d) /\ UNCHANGED <<cached, keySetup>>
    /\ UNCHANGED <<accountKey, ciphertext, made, own, straddled, uncleaned>>

-----------------------------------------------------------------------------
(* putReflections: the key is checked, then the write runs in a            *)
(* transaction of its own.                                                 *)

\* The putSyncKey that stored the account's key is between its two writes.
Cleaning == \E d \in Holders : keyRun[d].at = "stored" /\ keyRun[d].key = accountKey

ChecksUpload(d) ==
    /\ keyRun[d].at = "ready"
    /\ IF accountKey \in {0, keyRun[d].key} THEN Goes(d, "checked", keyRun[d].key) ELSE Ends(d)
    /\ UNCHANGED <<accountKey, ciphertext, cached, keySetup, made,
                   keyFaults, own, straddled, uncleaned>>

WritesUpload(d) ==
    /\ keyRun[d].at = "checked"
    /\ ciphertext' = keyRun[d].key
    /\ straddled' = (straddled \/ (accountKey \notin {0, keyRun[d].key} /\ ~Cleaning))
    /\ Ends(d)
    /\ UNCHANGED <<accountKey, cached, keySetup, made, keyFaults, own, uncleaned>>

\* Signing out forgets the cached key and the unfinished setup, and signing in starts
\* anew.  (A run of the session before goes on to an error; it is dropped here.)
SignsOutAndIn(d) ==
    /\ keyRun[d].at \notin {"stored", "checked"}
    /\ cached' = [cached EXCEPT ![d] = 0] /\ keySetup' = [keySetup EXCEPT ![d] = 0]
    /\ own' = [own EXCEPT ![d] = {}]
    /\ Ends(d)
    /\ UNCHANGED <<accountKey, ciphertext, made, keyFaults, straddled, uncleaned>>

KeyNext ==
    \E d \in Holders :
        \/ Asks(d) \/ Decides(d) \/ Unlocks(d) \/ Cancels(d) \/ Resets(d) \/ Creates(d)
        \/ Stores(d) \/ CleansUp(d) \/ StoreFails(d) \/ Rereads(d)
        \/ ChecksUpload(d) \/ WritesUpload(d) \/ SignsOutAndIn(d)

KeySpec == KeyInit /\ [][KeyNext]_keyVars

-----------------------------------------------------------------------------
(* Properties.                                                             *)

\* "Whatever happens to that request, the session finishes this same setup" (keySetup in
\* syncKeyManager.ts): while the account's key is one this session made, the session has
\* it, so that no sync asks it for a password again.
OwnKeyIsFinished ==
    \A d \in Holders : accountKey \in own[d] => accountKey \in {cached[d], keySetup[d]}

\* A stored reflection is under the account's key.  Ciphertext under the key before is
\* removed by the next key's clean-up, and is left behind only by an upload that was
\* checked before the reset and written after the clean-up, or by a server that stopped
\* before the clean-up, which is not run again.
OldCiphertextIsRemoved ==
    (accountKey # 0 /\ ciphertext # 0 /\ ciphertext # accountKey)
        => Cleaning \/ straddled \/ uncleaned
=============================================================================

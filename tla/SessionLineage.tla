--------------------------- MODULE SessionLineage ---------------------------
(***************************************************************************)
(* What refresh-token rotation promises of every session, without calls,   *)
(* clocks or a device: a session opens once, its chain of tokens advances  *)
(* one generation at a time while it is alive and never forks, and once it *)
(* has ended it stays ended (backend/src/auth/refreshRotation.ts).         *)
(***************************************************************************)
EXTENDS Integers

CONSTANT Sessions

VARIABLES life, generation

lineage == <<life, generation>>

LineageInit ==
    /\ life = [s \in Sessions |-> "none"]
    /\ generation = [s \in Sessions |-> 0]

Open(s) ==
    /\ life[s] = "none"
    /\ life' = [life EXCEPT ![s] = "alive"]
    /\ UNCHANGED generation

Advance(s) ==
    /\ life[s] = "alive"
    /\ generation' = [generation EXCEPT ![s] = @ + 1]
    /\ UNCHANGED life

(* Revocation, deletion, or the passing of time, which may end several. *)
End(S) ==
    /\ \A s \in S : life[s] = "alive"
    /\ life' = [s \in Sessions |-> IF s \in S THEN "ended" ELSE life[s]]
    /\ UNCHANGED generation

LineageNext ==
    \/ \E s \in Sessions : Open(s) \/ Advance(s)
    \/ \E S \in SUBSET Sessions : End(S)

LineageSpec == LineageInit /\ [][LineageNext]_lineage
=============================================================================

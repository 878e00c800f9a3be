------------------------------ MODULE IssueOutbox ------------------------------
(***************************************************************************)
(* The e-mail outbox of issue reports: each saved report carries its job   *)
(* (backend/src/services/MongooseIssueReportNotificationStore.ts), and the *)
(* notifier of each server process claims the jobs that are due, sends     *)
(* and records what came of it (notifications/issueReportNotifier.ts).     *)
(*                                                                         *)
(* Several processes run at once during a deploy; any of them may die, and *)
(* recording an outcome may fail.  A job's nextAttemptAt is due or not:    *)
(* time passes as the model likes, except that a claim's lease outlasts    *)
(* the provider's timeout.                                                 *)
(***************************************************************************)
EXTENDS Integers, FiniteSets

CONSTANTS
    Reports,
    Workers,        \* the server processes
    MaxAttempts,    \* NOTIFICATION_MAX_ATTEMPTS
    OutboxFaults    \* bound on crashes, lost and late records

ASSUME OutboxAssumption == MaxAttempts \in Nat /\ OutboxFaults \in Nat

VARIABLES
    job,       \* each report's notification entry
    worker,    \* each process's claim
    sends,     \* how often each report's e-mail was sent
    faults

outboxVars == <<job, worker, sends, faults>>

JobStates == {"unsaved", "pending", "sending", "accepted", "failed", "deleted"}
Results == {"ok", "retry", "refused"}
Claims == [stage : {"sending", "recording"}, report : Reports, attempts : Nat,
           result : Results]
Resting == [stage |-> "idle"]

OutboxTypeOK ==
    /\ job \in [Reports -> [state : JobStates, attempts : Nat, due : BOOLEAN]]
    /\ worker \in [Workers -> Claims \cup {Resting}]
    /\ sends \in [Reports -> Nat]
    /\ faults \in 0..OutboxFaults

OutboxInit ==
    /\ job = [r \in Reports |-> [state |-> "unsaved", attempts |-> 0, due |-> FALSE]]
    /\ worker = [w \in Workers |-> Resting]
    /\ sends = [r \in Reports |-> 0]
    /\ faults = 0

(* A report is saved with its job, due at once; it may be removed later.   *)
SaveReport(r) ==
    /\ job[r].state = "unsaved"
    /\ job' = [job EXCEPT ![r].state = "pending", ![r].due = TRUE]
    /\ UNCHANGED <<worker, sends, faults>>

DeleteReport(r) ==
    /\ job[r].state \notin {"unsaved", "deleted"}
    /\ job' = [job EXCEPT ![r].state = "deleted"]
    /\ UNCHANGED <<worker, sends, faults>>

Sending(w, r) == worker[w].stage = "sending" /\ worker[w].report = r

(* finish: only the holder of the current claim changes the job.           *)
(* Mutant: whoever holds the claim now, the outcome is recorded.           *)
HoldsAny(w) == job[worker[w].report].state \notin {"unsaved", "deleted"}
Holds(w) == LET j == job[worker[w].report] IN
    j.state = "sending" /\ j.attempts = worker[w].attempts

(* The wait before a retry, or a dead worker's lease, comes to its end.    *)
DelayPasses(r) ==
    /\ job[r].state \in {"pending", "sending"} /\ ~job[r].due
    /\ \A w \in Workers : worker[w] # Resting /\ worker[w].report = r => ~Holds(w)
    /\ job' = [job EXCEPT ![r].due = TRUE]
    /\ UNCHANGED <<worker, sends, faults>>

(* Recording takes longer than the lease. *)
LeaseRunsOut(r) ==
    /\ job[r].state = "sending" /\ ~job[r].due /\ faults < OutboxFaults
    /\ \A w \in Workers : ~Sending(w, r)
    /\ job' = [job EXCEPT ![r].due = TRUE] /\ faults' = faults + 1
    /\ UNCHANGED <<worker, sends>>

-----------------------------------------------------------------------------
(* claimNext: one atomic update.  The number of attempts stands for the    *)
(* claim's token: each claim raises it.                                    *)
(* Mutants: a dead worker's job is not claimed again, no lease is set.     *)
ClaimableIfPending(r) == job[r].state = "pending" /\ job[r].due
ClaimedJobNoLease(r) ==
    [state |-> "sending", attempts |-> job[r].attempts + 1, due |-> TRUE]

Claimable(r) == job[r].state \in {"pending", "sending"} /\ job[r].due
ClaimedJob(r) == [state |-> "sending", attempts |-> job[r].attempts + 1, due |-> FALSE]

MaySend(attempts) == attempts <= MaxAttempts

(* The claim and the start of the send; past the last attempt nothing is   *)
(* sent any more and the job is recorded as failed.                        *)
Claim(w, r) ==
    /\ worker[w] = Resting /\ Claimable(r)
    /\ job' = [job EXCEPT ![r] = ClaimedJob(r)]
    /\ LET n == job[r].attempts + 1 IN
       /\ worker' = [worker EXCEPT ![w] =
            [stage |-> IF MaySend(n) THEN "sending" ELSE "recording",
             report |-> r, attempts |-> n, result |-> "refused"]]
       /\ sends' = IF MaySend(n) THEN [sends EXCEPT ![r] = @ + 1] ELSE sends
    /\ UNCHANGED faults

ProviderAnswers(w) ==
    /\ worker[w].stage = "sending"
    /\ \E result \in Results :
         worker' = [worker EXCEPT ![w].stage = "recording", ![w].result = result]
    /\ UNCHANGED <<job, sends, faults>>

JobOutcome(w) ==
    CASE worker[w].result = "ok" -> "accepted"
      [] worker[w].result = "retry" /\ worker[w].attempts < MaxAttempts -> "pending"
      [] OTHER -> "failed"

Record(w) ==
    /\ worker[w].stage = "recording"
    /\ job' = IF Holds(w)
              THEN [job EXCEPT ![worker[w].report].state = JobOutcome(w),
                               ![worker[w].report].due = FALSE]
              ELSE job
    /\ worker' = [worker EXCEPT ![w] = Resting]
    /\ UNCHANGED <<sends, faults>>

(* The process dies, or its record is lost: the lease brings the job back. *)
Crash(w) ==
    /\ worker[w] # Resting /\ faults < OutboxFaults
    /\ worker' = [worker EXCEPT ![w] = Resting] /\ faults' = faults + 1
    /\ UNCHANGED <<job, sends>>

WorkerStep(w) == (\E r \in Reports : Claim(w, r)) \/ ProviderAnswers(w) \/ Record(w)

OutboxNext ==
    \/ \E r \in Reports : SaveReport(r) \/ DeleteReport(r) \/ DelayPasses(r) \/ LeaseRunsOut(r)
    \/ \E w \in Workers : WorkerStep(w) \/ Crash(w)

OutboxSpec == OutboxInit /\ [][OutboxNext]_outboxVars

-----------------------------------------------------------------------------
(* Two processes never send the same report at once. *)
OutboxOneLiveSend ==
    \A r \in Reports : \A v, w \in Workers : Sending(v, r) /\ Sending(w, r) => v = w

(* Whatever dies when, a report's e-mail is not sent more than eight times.*)
OutboxSendsBounded == \A r \in Reports : sends[r] <= MaxAttempts

(* A recorded outcome stands: no late process reopens or changes it. *)
OutboxOutcomeStands ==
    [][\A r \in Reports : job[r].state \in {"accepted", "failed"} =>
         job'[r].state \in {job[r].state, "deleted"}]_outboxVars

(* Every saved report's job comes to an end. *)
OutboxSettles ==
    \A r \in Reports :
        job[r].state = "pending" ~> job[r].state \in {"accepted", "failed", "deleted"}

(* How many steps a job has ahead of it at most if nothing more fails: at  *)
(* most four for each claim there can still be, its own ones counted down. *)
AtWork(w, r) == worker[w] # Resting /\ worker[w].report = r /\ Holds(w)
ClaimsLeft(r) == MaxAttempts + 1 + faults - job[r].attempts
JobStepsLeft(r) ==
    IF job[r].state \notin {"pending", "sending"} THEN 0
    ELSE 4 * ClaimsLeft(r) + (IF \E w \in Workers : Sending(w, r) THEN 3
                              ELSE IF \E w \in Workers : AtWork(w, r) THEN 2
                              ELSE IF job[r].due THEN 0 ELSE 1)

StepOf(r) ==
    \/ DelayPasses(r)
    \/ \E w \in Workers : \/ Claim(w, r)
                          \/ AtWork(w, r) /\ (ProviderAnswers(w) \/ Record(w))

(* A job comes to its end by number: every wait, claim, answer and record  *)
(* of it leaves fewer to come, and no step but a fault makes them more.    *)
JobRunsOut ==
    [][\A r \in Reports : job[r].state # "unsaved" /\ faults' = faults =>
         /\ JobStepsLeft(r)' <= JobStepsLeft(r)
         /\ StepOf(r) => JobStepsLeft(r)' < JobStepsLeft(r)]_outboxVars
===============================================================================

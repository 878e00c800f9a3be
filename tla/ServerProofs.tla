--------------------------- MODULE ServerProofs ----------------------------
(***************************************************************************)
(* Proofs about two parts of the server that several processes and         *)
(* requests run at the same time: the e-mail outbox (IssueOutbox) and the  *)
(* deletion of accounts (AccountDeletion).                                 *)
(***************************************************************************)
EXTENDS IssueOutbox, AccountDeletion, TLAPS

(***************************************************************************)
(* A report's e-mail is sent by one process at a time, at most MaxAttempts *)
(* times, and a recorded outcome stands.                                   *)
(*                                                                         *)
(* A process holds its claim as long as no later one was made: claims of   *)
(* one report differ in their number, none is ahead of the job's, and the  *)
(* one that is being sent is the newest and under its lease.               *)
(***************************************************************************)
Busy(w) == worker[w] # Resting

ClaimsDiffer ==
    \A v, w \in Workers :
        Busy(v) /\ Busy(w) /\ worker[v].report = worker[w].report /\ v # w
          => worker[v].attempts # worker[w].attempts

ClaimsNotAhead ==
    \A w \in Workers : Busy(w) => worker[w].attempts <= job[worker[w].report].attempts

SendUnderLease ==
    \A w \in Workers, r \in Reports :
        Sending(w, r) /\ job[r].state # "deleted" => Holds(w) /\ ~job[r].due

CountedSends == \A r \in Reports : sends[r] <= job[r].attempts /\ sends[r] <= MaxAttempts

OutboxInv ==
    /\ OutboxTypeOK
    /\ ClaimsDiffer /\ ClaimsNotAhead /\ SendUnderLease /\ OutboxOneLiveSend
    /\ CountedSends

LEMMA OutboxInitially == OutboxInit => OutboxInv
<1> SUFFICES ASSUME OutboxInit PROVE OutboxInv OBVIOUS
<1> USE OutboxAssumption DEF OutboxInit
<1>1. OutboxTypeOK BY DEF OutboxTypeOK, JobStates
<1>2. \A w \in Workers : ~Busy(w) /\ worker[w].stage = "idle" BY DEF Busy, Resting
<1>3. ClaimsDiffer /\ ClaimsNotAhead BY <1>2 DEF ClaimsDiffer, ClaimsNotAhead
<1>4. SendUnderLease /\ OutboxOneLiveSend BY <1>2 DEF SendUnderLease, OutboxOneLiveSend, Sending
<1>5. CountedSends BY DEF CountedSends
<1> QED BY <1>1, <1>3, <1>4, <1>5 DEF OutboxInv

(* A busy process's claim has the type of one. *)
LEMMA BusyClaim ==
    ASSUME OutboxTypeOK, NEW w \in Workers
    PROVE  /\ Busy(w) <=> worker[w] \in Claims
           /\ Busy(w) => /\ worker[w].report \in Reports /\ worker[w].attempts \in Nat
                         /\ worker[w].stage \in {"sending", "recording"}
           /\ worker[w].stage = "sending" => Busy(w)
BY DEF OutboxTypeOK, Busy, Claims, Resting

(* A step that changes the state or the lease of a job that no process     *)
(* sends, or deletes it, and raises no number, keeps the invariant.        *)
LEMMA JobChange ==
    ASSUME OutboxInv, NEW r \in Reports,
           job' \in [Reports -> [state : JobStates, attempts : Nat, due : BOOLEAN]],
           \A s \in Reports : s # r => job'[s] = job[s],
           job'[r].attempts = job[r].attempts,
           UNCHANGED <<worker, sends>>, faults' \in 0..OutboxFaults,
           job'[r].state = "deleted" \/ \A w \in Workers : ~Sending(w, r)
    PROVE  OutboxInv'
<1> USE DEF OutboxInv, OutboxTypeOK
<1>1. \A s \in Reports : job'[s].attempts = job[s].attempts
  OBVIOUS
<1>2. OutboxTypeOK' OBVIOUS
<1>3. ClaimsDiffer' BY DEF ClaimsDiffer, Busy, Resting
<1>4. ClaimsNotAhead'
  <2> SUFFICES ASSUME NEW w \in Workers, Busy(w) PROVE worker[w].attempts <= job'[worker[w].report].attempts
    BY DEF ClaimsNotAhead, Busy, Resting
  <2> QED BY <1>1, BusyClaim DEF ClaimsNotAhead
<1>5. SendUnderLease'
  <2> SUFFICES ASSUME NEW w \in Workers, NEW s \in Reports, Sending(w, s), job'[s].state # "deleted"
               PROVE  Holds(w)' /\ ~job'[s].due
    BY DEF SendUnderLease, Sending
  <2>1. s # r OBVIOUS
  <2>2. Holds(w) /\ ~job[s].due BY <1>1, <2>1 DEF SendUnderLease
  <2>3. worker[w].report = s BY DEF Sending
  <2> QED BY <1>1, <2>1, <2>2, <2>3 DEF Holds
<1>6. OutboxOneLiveSend' BY DEF OutboxOneLiveSend, Sending
<1>7. CountedSends' BY <1>1 DEF CountedSends
<1> QED BY <1>2, <1>3, <1>4, <1>5, <1>6, <1>7

(* The end of a process's claim, with nothing else changed. *)
LEMMA ClaimEnds ==
    ASSUME OutboxInv, NEW w \in Workers, worker' = [worker EXCEPT ![w] = Resting],
           UNCHANGED <<job, sends>>, faults' \in 0..OutboxFaults
    PROVE  OutboxInv'
<1> USE DEF OutboxInv, OutboxTypeOK
<1>1. /\ \A v \in Workers : v # w => worker'[v] = worker[v]
      /\ worker'[w] = Resting
  OBVIOUS
<1>2. \A v \in Workers : Busy(v)' => v # w BY <1>1 DEF Busy
<1>3. \A v \in Workers, r \in Reports : Sending(v, r)' => v # w BY <1>1 DEF Sending, Resting
<1>4. OutboxTypeOK' OBVIOUS
<1>5. ClaimsDiffer' BY <1>1, <1>2 DEF ClaimsDiffer, Busy
<1>6. ClaimsNotAhead' BY <1>1, <1>2 DEF ClaimsNotAhead, Busy
<1>7. SendUnderLease' BY <1>1, <1>3 DEF SendUnderLease, Sending, Holds
<1>8. OutboxOneLiveSend' BY <1>1, <1>3 DEF OutboxOneLiveSend, Sending
<1>9. CountedSends' BY DEF CountedSends
<1> QED BY <1>4, <1>5, <1>6, <1>7, <1>8, <1>9

LEMMA ClaimStep ==
    ASSUME OutboxInv, NEW w \in Workers, NEW r \in Reports, Claim(w, r)
    PROVE  OutboxInv'
<1> USE OutboxAssumption DEF OutboxInv, OutboxTypeOK
<1> DEFINE n == job[r].attempts + 1
           stage == IF MaySend(n) THEN "sending" ELSE "recording"
           claim == [stage |-> stage, report |-> r, attempts |-> n, result |-> "refused"]
<1>1. /\ job[r].state \in {"pending", "sending"} /\ job[r].due
      /\ job' = [job EXCEPT ![r] = [state |-> "sending", attempts |-> n, due |-> FALSE]]
      /\ worker' = [worker EXCEPT ![w] = claim]
      /\ sends' = IF MaySend(n) THEN [sends EXCEPT ![r] = @ + 1] ELSE sends
      /\ faults' = faults
  BY DEF Claim, Claimable, ClaimedJob
<1>2. n \in Nat /\ stage \in {"sending", "recording"} /\ claim \in Claims
  BY DEF Claims, Results
<1>3. /\ \A v \in Workers : v # w => worker'[v] = worker[v]
      /\ worker'[w] = claim /\ claim.report = r /\ claim.attempts = n /\ claim.stage = stage
      /\ \A s \in Reports : s # r => job'[s] = job[s]
      /\ job'[r].state = "sending" /\ job'[r].attempts = n /\ ~job'[r].due
  BY <1>1
<1> HIDE DEF claim, stage
<1>4. OutboxTypeOK'
  <2>1. sends' \in [Reports -> Nat] BY <1>1
  <2>2. worker' \in [Workers -> Claims \cup {Resting}] BY <1>1, <1>2
  <2>3. job' \in [Reports -> [state : JobStates, attempts : Nat, due : BOOLEAN]]
    BY <1>1, <1>2 DEF JobStates
  <2> QED BY <1>1, <2>1, <2>2, <2>3
<1>5. \A v \in Workers : ~Sending(v, r) BY <1>1 DEF SendUnderLease
<1>6. \A v \in Workers : v # w => (Busy(v)' <=> Busy(v)) BY <1>3 DEF Busy, Resting
<1>7. \A v \in Workers : v # w /\ Busy(v) /\ worker[v].report = r =>
        worker[v].attempts < n
  <2> SUFFICES ASSUME NEW v \in Workers, v # w, Busy(v), worker[v].report = r
               PROVE  worker[v].attempts < n
    OBVIOUS
  <2>1. worker[v].attempts <= job[r].attempts BY DEF ClaimsNotAhead
  <2> QED BY <2>1, BusyClaim
<1>8. ClaimsDiffer'
  <2> SUFFICES ASSUME NEW u \in Workers, NEW v \in Workers, Busy(u)', Busy(v)', u # v,
                      worker'[u].report = worker'[v].report
               PROVE  worker'[u].attempts # worker'[v].attempts
    BY DEF ClaimsDiffer
  <2>1. CASE u # w /\ v # w BY <1>3, <1>6, <2>1 DEF ClaimsDiffer
  <2>2. CASE u = w BY <1>3, <1>6, <1>7, <2>2, BusyClaim
  <2>3. CASE v = w BY <1>3, <1>6, <1>7, <2>3, BusyClaim
  <2> QED BY <2>1, <2>2, <2>3
<1>9. ClaimsNotAhead'
  <2> SUFFICES ASSUME NEW v \in Workers, Busy(v)'
               PROVE  worker'[v].attempts <= job'[worker'[v].report].attempts
    BY DEF ClaimsNotAhead
  <2>1. CASE v = w BY <1>2, <1>3, <2>1
  <2>2. CASE v # w /\ worker[v].report = r BY <1>3, <1>6, <1>7, <2>2, BusyClaim
  <2>3. CASE v # w /\ worker[v].report # r BY <1>3, <1>6, <2>3, BusyClaim DEF ClaimsNotAhead
  <2> QED BY <2>1, <2>2, <2>3
<1>10. SendUnderLease'
  <2> SUFFICES ASSUME NEW v \in Workers, NEW s \in Reports, Sending(v, s)', job'[s].state # "deleted"
               PROVE  Holds(v)' /\ ~job'[s].due
    BY DEF SendUnderLease
  <2>1. CASE v = w BY <1>3, <2>1 DEF Sending, Holds
  <2>2. CASE v # w
    <3>1. Sending(v, s) BY <1>3, <2>2 DEF Sending
    <3>2. s # r BY <1>5, <3>1
    <3>3. Holds(v) /\ ~job[s].due /\ worker[v].report = s
      BY <1>3, <3>1, <3>2 DEF SendUnderLease, Sending
    <3> QED BY <1>3, <2>2, <3>2, <3>3 DEF Holds
  <2> QED BY <2>1, <2>2
<1>11. OutboxOneLiveSend'
  <2> SUFFICES ASSUME NEW s \in Reports, NEW u \in Workers, NEW v \in Workers,
                      Sending(u, s)', Sending(v, s)'
               PROVE  u = v
    BY DEF OutboxOneLiveSend
  <2>1. CASE u # w /\ v # w BY <1>3, <2>1 DEF OutboxOneLiveSend, Sending
  <2>2. CASE u = w /\ v # w BY <1>3, <1>5, <2>2 DEF Sending
  <2>3. CASE u # w /\ v = w BY <1>3, <1>5, <2>3 DEF Sending
  <2> QED BY <2>1, <2>2, <2>3
<1>12. CountedSends'
  <2>1. ASSUME NEW s \in Reports PROVE sends'[s] <= job'[s].attempts /\ sends'[s] <= MaxAttempts
    <3>1. CASE s # r \/ ~MaySend(n) BY <1>1, <1>2, <1>3, <3>1 DEF CountedSends
    <3>2. CASE s = r /\ MaySend(n)
      <4>1. sends'[s] = sends[r] + 1 BY <1>1, <3>2
      <4> QED BY <1>2, <1>3, <3>2, <4>1 DEF CountedSends, MaySend
    <3> QED BY <3>1, <3>2
  <2> QED BY <2>1 DEF CountedSends
<1> QED BY <1>4, <1>8, <1>9, <1>10, <1>11, <1>12

LEMMA AnswerStep ==
    ASSUME OutboxInv, NEW w \in Workers, ProviderAnswers(w)
    PROVE  OutboxInv'
<1> USE DEF OutboxInv, OutboxTypeOK
<1>1. PICK result \in Results :
        worker' = [worker EXCEPT ![w].stage = "recording", ![w].result = result]
  BY DEF ProviderAnswers
<1>2. worker[w].stage = "sending" /\ UNCHANGED <<job, sends, faults>>
  BY DEF ProviderAnswers
<1>3. worker[w] \in Claims BY <1>2, BusyClaim
<1>4. /\ \A v \in Workers : v # w => worker'[v] = worker[v]
      /\ worker'[w] \in Claims /\ worker'[w].stage = "recording"
      /\ worker'[w].report = worker[w].report /\ worker'[w].attempts = worker[w].attempts
  BY <1>1, <1>3 DEF Claims
<1>5. Busy(w) BY <1>2, BusyClaim
<1>6. OutboxTypeOK'
  <2>1. worker' \in [Workers -> Claims \cup {Resting}] BY <1>1, <1>4
  <2> QED BY <1>2, <2>1
<1>7. \A v \in Workers : Busy(v)' => Busy(v) BY <1>4, <1>5 DEF Busy
<1>8. \A v \in Workers, r \in Reports : Sending(v, r)' => Sending(v, r) /\ v # w
  BY <1>4 DEF Sending
<1>9. ClaimsDiffer' BY <1>4, <1>7 DEF ClaimsDiffer
<1>10. ClaimsNotAhead' BY <1>2, <1>4, <1>7 DEF ClaimsNotAhead
<1>11. SendUnderLease' BY <1>2, <1>4, <1>8 DEF SendUnderLease, Holds
<1>12. OutboxOneLiveSend' BY <1>8 DEF OutboxOneLiveSend
<1>13. CountedSends' BY <1>2 DEF CountedSends
<1> QED BY <1>6, <1>9, <1>10, <1>11, <1>12, <1>13

LEMMA RecordStep ==
    ASSUME OutboxInv, NEW w \in Workers, Record(w)
    PROVE  OutboxInv'
<1> USE DEF OutboxInv, OutboxTypeOK
<1> DEFINE r == worker[w].report
<1>1. /\ worker[w].stage = "recording" /\ worker' = [worker EXCEPT ![w] = Resting]
      /\ UNCHANGED <<sends, faults>>
      /\ job' = IF Holds(w) THEN [job EXCEPT ![r].state = JobOutcome(w), ![r].due = FALSE]
                ELSE job
  BY DEF Record
<1>2. Busy(w) /\ r \in Reports BY <1>1, BusyClaim DEF Busy, Resting
<1>3. CASE ~Holds(w)
  <2>1. UNCHANGED <<job, sends, faults>> BY <1>1, <1>3
  <2> QED BY <1>1, <2>1, ClaimEnds
<1>4. CASE Holds(w)
  <2>1. JobOutcome(w) \in JobStates BY DEF JobOutcome, JobStates
  <2>2. /\ job' \in [Reports -> [state : JobStates, attempts : Nat, due : BOOLEAN]]
        /\ \A s \in Reports : s # r => job'[s] = job[s]
        /\ job'[r].attempts = job[r].attempts
    BY <1>1, <1>2, <1>4, <2>1
  <2>3. \A v \in Workers : ~Sending(v, r)
    <3> SUFFICES ASSUME NEW v \in Workers, Sending(v, r) PROVE FALSE OBVIOUS
    <3>1. Busy(v) /\ v # w /\ worker[v].report = r BY <1>1, BusyClaim DEF Sending
    <3>2. job[r].state = "sending" /\ job[r].attempts = worker[w].attempts BY <1>4 DEF Holds
    <3>3. job[r].attempts = worker[v].attempts
      BY <1>2, <3>1, <3>2 DEF SendUnderLease, Holds
    <3> QED BY <1>2, <3>1, <3>2, <3>3 DEF ClaimsDiffer
  <2>4. /\ \A v \in Workers : v # w => worker'[v] = worker[v]
        /\ worker'[w] = Resting
    BY <1>1
  <2>5. \A v \in Workers : Busy(v)' => v # w /\ Busy(v) BY <2>4 DEF Busy
  <2>6. \A v \in Workers, s \in Reports : Sending(v, s)' => v # w /\ Sending(v, s) /\ s # r
    BY <2>3, <2>4 DEF Sending, Resting
  <2>7. OutboxTypeOK' BY <1>1, <2>2
  <2>8. ClaimsDiffer' BY <2>4, <2>5 DEF ClaimsDiffer
  <2>9. ClaimsNotAhead'
    <3> SUFFICES ASSUME NEW v \in Workers, Busy(v)'
                 PROVE  worker'[v].attempts <= job'[worker'[v].report].attempts
      BY DEF ClaimsNotAhead
    <3> QED BY <1>2, <2>2, <2>4, <2>5, BusyClaim, SMTT(30) DEF ClaimsNotAhead
  <2>10. SendUnderLease'
    <3> SUFFICES ASSUME NEW v \in Workers, NEW s \in Reports, Sending(v, s)', job'[s].state # "deleted"
                 PROVE  Holds(v)' /\ ~job'[s].due
      BY DEF SendUnderLease
    <3>1. v # w /\ Sending(v, s) /\ s # r /\ job'[s] = job[s] BY <2>2, <2>6
    <3>2. Holds(v) /\ ~job[s].due /\ worker[v].report = s BY <3>1 DEF SendUnderLease, Sending
    <3> QED BY <2>4, <3>1, <3>2 DEF Holds
  <2>11. OutboxOneLiveSend' BY <2>6 DEF OutboxOneLiveSend
  <2>12. CountedSends'
    <3>1. \A s \in Reports : job'[s].attempts = job[s].attempts BY <2>2
    <3> QED BY <1>1, <3>1 DEF CountedSends
  <2> QED BY <2>7, <2>8, <2>9, <2>10, <2>11, <2>12
<1> QED BY <1>3, <1>4

LEMMA OutboxStep == OutboxInv /\ [OutboxNext]_outboxVars => OutboxInv'
<1> SUFFICES ASSUME OutboxInv, [OutboxNext]_outboxVars PROVE OutboxInv' OBVIOUS
<1>0. OutboxTypeOK BY DEF OutboxInv
<1>1. ASSUME NEW r \in Reports, SaveReport(r) PROVE OutboxInv'
  <2>1. job[r].state = "unsaved" /\ UNCHANGED <<worker, sends, faults>>
        /\ job' = [job EXCEPT ![r].state = "pending", ![r].due = TRUE]
    BY <1>1 DEF SaveReport
  <2>2. \A w \in Workers : ~Sending(w, r)
    BY <2>1 DEF OutboxInv, SendUnderLease, Holds, Sending
  <2> QED BY <1>0, <2>1, <2>2, JobChange DEF OutboxTypeOK, JobStates
<1>2. ASSUME NEW r \in Reports, DeleteReport(r) PROVE OutboxInv'
  BY <1>0, <1>2, JobChange DEF DeleteReport, OutboxTypeOK, JobStates
<1>3. ASSUME NEW r \in Reports, DelayPasses(r) PROVE OutboxInv'
  <2>1. job[r].state \in {"pending", "sending"} /\ UNCHANGED <<worker, sends, faults>>
        /\ job' = [job EXCEPT ![r].due = TRUE]
    BY <1>3 DEF DelayPasses
  <2>2. ASSUME NEW w \in Workers, Sending(w, r) PROVE FALSE
    <3>1. Busy(w) /\ worker[w].report = r BY <1>0, <2>2, BusyClaim DEF Sending
    <3>2. ~Holds(w) BY <1>3, <3>1 DEF DelayPasses, Busy
    <3> QED BY <2>1, <2>2, <3>2 DEF OutboxInv, SendUnderLease
  <2> QED BY <1>0, <2>1, <2>2, JobChange DEF OutboxTypeOK, JobStates
<1>4. ASSUME NEW r \in Reports, LeaseRunsOut(r) PROVE OutboxInv'
  <2>1. faults' \in 0..OutboxFaults
    BY <1>0, <1>4, OutboxAssumption DEF LeaseRunsOut, OutboxTypeOK
  <2> QED BY <1>0, <1>4, <2>1, JobChange DEF LeaseRunsOut, OutboxTypeOK, JobStates
<1>5. ASSUME NEW w \in Workers, Crash(w) PROVE OutboxInv'
  <2>1. faults' \in 0..OutboxFaults
    BY <1>0, <1>5, OutboxAssumption DEF Crash, OutboxTypeOK
  <2> QED BY <1>5, <2>1, ClaimEnds DEF Crash
<1>6. ASSUME NEW w \in Workers, WorkerStep(w) PROVE OutboxInv'
  BY <1>6, ClaimStep, AnswerStep, RecordStep DEF WorkerStep
<1>7. CASE UNCHANGED outboxVars
  BY <1>7 DEF outboxVars, OutboxInv, OutboxTypeOK, ClaimsDiffer, ClaimsNotAhead,
              SendUnderLease, OutboxOneLiveSend, CountedSends, Busy, Sending, Holds
<1> QED BY <1>1, <1>2, <1>3, <1>4, <1>5, <1>6, <1>7 DEF OutboxNext

(* Server processes that start, die, send and record in any order never    *)
(* send one report's e-mail at the same time.                              *)
THEOREM OneLiveSend == OutboxSpec => []OutboxOneLiveSend
<1>1. OutboxInv => OutboxOneLiveSend BY DEF OutboxInv
<1> QED BY <1>1, OutboxInitially, OutboxStep, PTL DEF OutboxSpec

(* However many processes die and records are lost, a report's e-mail is   *)
(* sent at most MaxAttempts times.                                         *)
THEOREM SendsBounded == OutboxSpec => []OutboxSendsBounded
<1>1. OutboxInv => OutboxSendsBounded BY DEF OutboxInv, CountedSends, OutboxSendsBounded
<1> QED BY <1>1, OutboxInitially, OutboxStep, PTL DEF OutboxSpec

(* A recorded outcome is reopened or changed by no process, however late.  *)
THEOREM OutcomeStands == OutboxSpec => OutboxOutcomeStands
<1> DEFINE Stands(r) == job[r].state \in {"accepted", "failed"} =>
                          job'[r].state \in {job[r].state, "deleted"}
<1>1. OutboxInv /\ [OutboxNext]_outboxVars => [\A r \in Reports : Stands(r)]_outboxVars
  <2> SUFFICES ASSUME OutboxInv, OutboxNext, NEW r \in Reports,
                      job[r].state \in {"accepted", "failed"}
               PROVE  job'[r].state \in {job[r].state, "deleted"}
    OBVIOUS
  <2> USE DEF OutboxInv, OutboxTypeOK
  <2>1. ASSUME NEW s \in Reports, SaveReport(s) \/ DeleteReport(s) \/ DelayPasses(s) \/ LeaseRunsOut(s)
        PROVE  job'[r].state \in {job[r].state, "deleted"}
    BY <2>1 DEF SaveReport, DeleteReport, DelayPasses, LeaseRunsOut
  <2>2. ASSUME NEW w \in Workers, NEW s \in Reports, Claim(w, s)
        PROVE  job'[r].state \in {job[r].state, "deleted"}
    BY <2>2 DEF Claim, Claimable
  <2>3. ASSUME NEW w \in Workers, Record(w) PROVE job'[r].state \in {job[r].state, "deleted"}
    BY <2>3 DEF Record, Holds
  <2>4. ASSUME NEW w \in Workers, ProviderAnswers(w) \/ Crash(w)
        PROVE  job'[r].state \in {job[r].state, "deleted"}
    BY <2>4 DEF ProviderAnswers, Crash
  <2> QED BY <2>1, <2>2, <2>3, <2>4 DEF OutboxNext, WorkerStep
<1> QED BY <1>1, OutboxInitially, OutboxStep, PTL DEF OutboxSpec, OutboxOutcomeStands

-----------------------------------------------------------------------------
(* A job has so many attempts behind it: beyond the last one that is sent  *)
(* only as many claims as something failed, and the one at work.           *)
AttemptsCounted ==
    \A r \in Reports : LET j == job[r] IN
        /\ j.state = "unsaved" => j.attempts = 0
        /\ j.state = "pending" => j.attempts <= MaxAttempts
        /\ j.state = "sending" =>
              \/ j.attempts <= MaxAttempts + faults
              \/ /\ j.attempts <= MaxAttempts + faults + 1
                 /\ ~j.due /\ \E w \in Workers : AtWork(w, r)

(* What a job's steps look at. *)
LEMMA JobFacts ==
    ASSUME OutboxInv, NEW r \in Reports
    PROVE  /\ job[r].attempts \in Nat /\ job[r].due \in BOOLEAN /\ job[r].state \in JobStates
           /\ MaxAttempts \in Nat /\ faults \in Nat
           /\ \A w \in Workers : Sending(w, r) /\ job[r].state # "deleted"
                                   => AtWork(w, r) /\ ~job[r].due
           /\ \A w \in Workers : AtWork(w, r) => job[r].state = "sending"
           /\ \A v, w \in Workers : AtWork(v, r) /\ AtWork(w, r) => v = w
<1>1. job[r].attempts \in Nat /\ job[r].due \in BOOLEAN /\ job[r].state \in JobStates
  BY DEF OutboxInv, OutboxTypeOK
<1>2. MaxAttempts \in Nat /\ faults \in Nat
  BY OutboxAssumption DEF OutboxInv, OutboxTypeOK
<1>3. ASSUME NEW w \in Workers, Sending(w, r), job[r].state # "deleted"
      PROVE  AtWork(w, r) /\ ~job[r].due
  <2>1. worker[w] # Resting BY <1>3 DEF Sending, Resting
  <2> QED BY <1>3, <2>1 DEF OutboxInv, SendUnderLease, AtWork, Sending
<1>4. \A w \in Workers : AtWork(w, r) => job[r].state = "sending"
  BY DEF AtWork, Holds
<1>5. \A v, w \in Workers : AtWork(v, r) /\ AtWork(w, r) => v = w
  BY DEF AtWork, Holds, OutboxInv, ClaimsDiffer, Busy
<1> QED BY <1>1, <1>2, <1>3, <1>4, <1>5

(* A step of a process that is not at work on a report does not count. *)
LEMMA WorkUnchanged ==
    ASSUME NEW r \in Reports, job'[r] = job[r],
           \A w \in Workers : \/ worker'[w] = worker[w]
                              \/ /\ ~AtWork(w, r) /\ ~Sending(w, r)
                                 /\ worker'[w] = Resting \/ worker'[w].report # r
    PROVE  \A w \in Workers : /\ AtWork(w, r)' <=> AtWork(w, r)
                              /\ Sending(w, r)' <=> Sending(w, r)
<1> SUFFICES ASSUME NEW w \in Workers
             PROVE  /\ AtWork(w, r)' <=> AtWork(w, r)
                    /\ Sending(w, r)' <=> Sending(w, r)
  OBVIOUS
<1>1. CASE worker'[w] = worker[w] BY <1>1 DEF AtWork, Sending, Holds
<1>2. CASE worker'[w] # worker[w]
  <2>1. ~AtWork(w, r) /\ ~Sending(w, r) /\ (worker'[w] = Resting \/ worker'[w].report # r)
    BY <1>2
  <2>2. ~AtWork(w, r)' BY <2>1 DEF AtWork
  <2>3. ~Sending(w, r)' BY <2>1 DEF Sending, Resting
  <2> QED BY <2>1, <2>2, <2>3
<1> QED BY <1>1, <1>2

(* Every step is one of another job, or one of these about this one. *)
About(r) ==
    \/ SaveReport(r) \/ DeleteReport(r) \/ DelayPasses(r) \/ LeaseRunsOut(r)
    \/ \E w \in Workers : \/ Claim(w, r)
                          \/ AtWork(w, r) /\ (ProviderAnswers(w) \/ Record(w) \/ Crash(w))

LEMMA ElsewhereSame ==
    ASSUME OutboxInv, [OutboxNext]_outboxVars, NEW r \in Reports, ~About(r)
    PROVE  /\ job'[r] = job[r] /\ faults' \in {faults, faults + 1}
           /\ job[r].state # "deleted" =>
                \A w \in Workers : /\ AtWork(w, r)' <=> AtWork(w, r)
                                   /\ Sending(w, r)' <=> Sending(w, r)
<1> USE DEF OutboxInv, OutboxTypeOK
<1>1. \/ \E s \in Reports : s # r /\ (SaveReport(s) \/ DeleteReport(s) \/ DelayPasses(s))
      \/ \E s \in Reports : s # r /\ LeaseRunsOut(s)
      \/ \E s \in Reports, w \in Workers : s # r /\ Claim(w, s)
      \/ \E w \in Workers : ~AtWork(w, r) /\ (ProviderAnswers(w) \/ Record(w) \/ Crash(w))
      \/ UNCHANGED outboxVars
  BY DEF OutboxNext, WorkerStep, About
<1>2. job'[r] = job[r] /\ faults' \in {faults, faults + 1}
  <2>1. ASSUME NEW w \in Workers, ~AtWork(w, r), Record(w)
        PROVE  job'[r] = job[r] /\ faults' = faults
    <3>1. worker[w] # Resting BY <2>1 DEF Record, Resting
    <3> QED BY <2>1, <3>1 DEF Record, AtWork
  <2> QED
    BY <1>1, <2>1
    DEF SaveReport, DeleteReport, DelayPasses, LeaseRunsOut, Claim, ProviderAnswers, Crash, outboxVars
<1>3. ASSUME job[r].state # "deleted", NEW v \in Workers
      PROVE  \/ worker'[v] = worker[v]
             \/ /\ ~AtWork(v, r) /\ ~Sending(v, r)
                /\ worker'[v] = Resting \/ worker'[v].report # r
  <2>1. ASSUME NEW s \in Reports, NEW w \in Workers, s # r, Claim(w, s)
        PROVE  \/ worker'[v] = worker[v]
               \/ /\ ~AtWork(v, r) /\ ~Sending(v, r)
                  /\ worker'[v] = Resting \/ worker'[v].report # r
    <3>1. worker[w] = Resting /\ worker'[w].report = s /\ (v # w => worker'[v] = worker[v])
      BY <2>1 DEF Claim
    <3> QED BY <2>1, <3>1 DEF AtWork, Sending, Resting
  <2>2. ASSUME NEW w \in Workers, ~AtWork(w, r), ProviderAnswers(w)
        PROVE  \/ worker'[v] = worker[v]
               \/ /\ ~AtWork(v, r) /\ ~Sending(v, r)
                  /\ worker'[v] = Resting \/ worker'[v].report # r
    <3>1. worker[w] \in Claims BY <2>2, BusyClaim DEF ProviderAnswers
    <3>2. ~Sending(w, r) BY <1>3, <2>2, JobFacts
    <3>3. worker[w].report # r BY <2>2, <3>2 DEF ProviderAnswers, Sending
    <3>4. worker'[w].report = worker[w].report /\ (v # w => worker'[v] = worker[v])
      BY <2>2, <3>1 DEF ProviderAnswers, Claims
    <3> QED BY <2>2, <3>2, <3>3, <3>4
  <2>3. ASSUME NEW w \in Workers, ~AtWork(w, r), Record(w) \/ Crash(w)
        PROVE  \/ worker'[v] = worker[v]
               \/ /\ ~AtWork(v, r) /\ ~Sending(v, r)
                  /\ worker'[v] = Resting \/ worker'[v].report # r
    <3>1. ~Sending(w, r) BY <1>3, <2>3, JobFacts
    <3>2. worker' = [worker EXCEPT ![w] = Resting] BY <2>3 DEF Record, Crash
    <3> QED BY <2>3, <3>1, <3>2
  <2>4. (\A s \in Reports : ~(SaveReport(s) \/ DeleteReport(s) \/ DelayPasses(s)
                              \/ LeaseRunsOut(s))) \/ worker' = worker
    BY DEF SaveReport, DeleteReport, DelayPasses, LeaseRunsOut
  <2>5. UNCHANGED outboxVars => worker' = worker BY DEF outboxVars
  <2> QED BY <1>1, <2>1, <2>2, <2>3, <2>4, <2>5
<1> QED BY <1>2, <1>3, WorkUnchanged

LEMMA AttemptsStep ==
    ASSUME OutboxInv, AttemptsCounted, [OutboxNext]_outboxVars
    PROVE  AttemptsCounted'
<1> DEFINE Counted(j, n, held) ==
              /\ j.state = "unsaved" => j.attempts = 0
              /\ j.state = "pending" => j.attempts <= MaxAttempts
              /\ j.state = "sending" =>
                    \/ j.attempts <= MaxAttempts + n
                    \/ /\ j.attempts <= MaxAttempts + n + 1 /\ ~j.due /\ held
<1> SUFFICES ASSUME NEW r \in Reports
             PROVE  Counted(job'[r], faults', \E w \in Workers : AtWork(w, r)')
  BY DEF AttemptsCounted
<1>0. /\ Counted(job[r], faults, \E w \in Workers : AtWork(w, r))
      /\ job[r].attempts \in Nat /\ MaxAttempts \in Nat /\ faults \in Nat
      /\ job \in [Reports -> [state : JobStates, attempts : Nat, due : BOOLEAN]]
  BY JobFacts DEF AttemptsCounted, OutboxInv, OutboxTypeOK
<1>1. CASE ~About(r)
  <2>1. job'[r] = job[r] /\ faults' \in {faults, faults + 1}
    BY <1>1, ElsewhereSame
  <2>2. job[r].state = "sending" =>
          ((\E w \in Workers : AtWork(w, r)') <=> \E w \in Workers : AtWork(w, r))
    BY <1>1, ElsewhereSame
  <2>3. job'[r] = job[r] /\ (faults' = faults \/ faults' = faults + 1) BY <2>1
  <2> HIDE DEF AtWork
  <2> QED BY <1>0, <2>2, <2>3
<1>2. CASE SaveReport(r) \/ DeleteReport(r)
  <2>1. /\ job'[r].attempts = job[r].attempts
        /\ job'[r].state = "deleted" \/ (job'[r].state = "pending" /\ job[r].state = "unsaved")
    BY <1>0, <1>2 DEF SaveReport, DeleteReport
  <2> QED BY <1>0, <2>1
<1>3. CASE DelayPasses(r)
  <2>1. job'[r].attempts = job[r].attempts /\ job'[r].state = job[r].state /\ faults' = faults
        /\ job[r].state \in {"pending", "sending"}
        /\ ~(\E w \in Workers : AtWork(w, r))
    BY <1>0, <1>3 DEF DelayPasses, AtWork
  <2> QED BY <1>0, <2>1
<1>4. CASE LeaseRunsOut(r)
  <2>1. job'[r].attempts = job[r].attempts /\ job'[r].state = job[r].state
        /\ faults' = faults + 1 /\ job[r].state = "sending"
    BY <1>0, <1>4 DEF LeaseRunsOut
  <2> QED BY <1>0, <2>1
<1>5. ASSUME NEW w \in Workers, Claim(w, r)
      PROVE  Counted(job'[r], faults', \E v \in Workers : AtWork(v, r)')
  <2>1. /\ job[r].state \in {"pending", "sending"} /\ job[r].due /\ faults' = faults
        /\ job'[r].state = "sending" /\ job'[r].attempts = job[r].attempts + 1 /\ ~job'[r].due
    BY <1>0, <1>5 DEF Claim, Claimable, ClaimedJob
  <2>2. worker'[w].report = r /\ worker'[w].attempts = job[r].attempts + 1
        /\ worker'[w] # Resting
    <3>1. worker'[w].report = r /\ worker'[w].attempts = job[r].attempts + 1
          /\ worker'[w].stage # "idle"
      BY <1>5 DEF Claim, OutboxInv, OutboxTypeOK
    <3> QED BY <3>1 DEF Resting
  <2>3. AtWork(w, r)' BY <2>1, <2>2 DEF AtWork, Holds
  <2>4. job[r].attempts <= MaxAttempts + faults BY <1>0, <2>1
  <2> HIDE DEF AtWork
  <2> QED BY <1>0, <2>1, <2>3, <2>4
<1>6. ASSUME NEW w \in Workers, AtWork(w, r), ProviderAnswers(w)
      PROVE  Counted(job'[r], faults', \E v \in Workers : AtWork(v, r)')
  <2>1. worker[w] \in Claims BY <1>6, BusyClaim DEF ProviderAnswers, OutboxInv
  <2>2. /\ job' = job /\ faults' = faults
        /\ worker'[w].report = worker[w].report /\ worker'[w].attempts = worker[w].attempts
        /\ worker'[w].stage = "recording"
    BY <1>6, <2>1 DEF ProviderAnswers, Claims, OutboxInv, OutboxTypeOK
  <2>3. AtWork(w, r)' BY <1>6, <2>2 DEF AtWork, Holds, Resting
  <2> HIDE DEF AtWork
  <2> QED BY <1>0, <1>6, <2>2, <2>3
<1>7. ASSUME NEW w \in Workers, AtWork(w, r), Record(w)
      PROVE  Counted(job'[r], faults', \E v \in Workers : AtWork(v, r)')
  <2>1. /\ worker[w].report = r /\ worker[w].attempts = job[r].attempts
        /\ job'[r].state = JobOutcome(w) /\ job'[r].attempts = job[r].attempts
    BY <1>0, <1>7 DEF Record, AtWork, Holds
  <2>2. job'[r].state \in {"accepted", "failed"}
        \/ (job'[r].state = "pending" /\ job[r].attempts < MaxAttempts)
    BY <2>1 DEF JobOutcome
  <2> QED BY <1>0, <2>1, <2>2
<1>8. ASSUME NEW w \in Workers, Crash(w)
      PROVE  Counted(job'[r], faults', \E v \in Workers : AtWork(v, r)')
  <2>1. job' = job /\ faults' = faults + 1 BY <1>8 DEF Crash
  <2> QED BY <1>0, <2>1
<1> HIDE DEF Counted
<1> QED BY <1>1, <1>2, <1>3, <1>4, <1>5, <1>6, <1>7, <1>8 DEF About

(* What is left of a job as a number, and what the steps of it do to it.   *)
LEMMA StepsOfJob ==
    ASSUME OutboxInv, AttemptsCounted, NEW r \in Reports
    PROVE  /\ JobStepsLeft(r) \in 0..4 * (MaxAttempts + faults) + 7
           /\ JobStepsLeft(r) = 0 <=> job[r].state \notin {"pending", "sending"}
<1> DEFINE held == \E w \in Workers : AtWork(w, r)
           sent == \E w \in Workers : Sending(w, r)
           left == JobStepsLeft(r)
<1>1. /\ job[r].attempts \in Nat /\ job[r].due \in BOOLEAN
      /\ MaxAttempts \in Nat /\ faults \in Nat
      /\ job[r].state = "pending" => job[r].attempts <= MaxAttempts
      /\ job[r].state = "sending" =>
            \/ job[r].attempts <= MaxAttempts + faults
            \/ job[r].attempts <= MaxAttempts + faults + 1 /\ held
  BY JobFacts DEF AttemptsCounted
<1>2. JobStepsLeft(r) = IF job[r].state \notin {"pending", "sending"} THEN 0
                        ELSE 4 * (MaxAttempts + 1 + faults - job[r].attempts)
                             + (IF sent THEN 3 ELSE IF held THEN 2
                                ELSE IF job[r].due THEN 0 ELSE 1)
  BY DEF JobStepsLeft, ClaimsLeft
<1>3. sent \in BOOLEAN /\ held \in BOOLEAN OBVIOUS
<1> HIDE DEF sent, held
<1> QED BY <1>1, <1>2, <1>3

LEMMA ElsewhereLeft ==
    ASSUME OutboxInv, AttemptsCounted, [OutboxNext]_outboxVars, NEW r \in Reports, ~About(r),
           faults' = faults
    PROVE  JobStepsLeft(r)' = JobStepsLeft(r)
<1>1. job'[r] = job[r] BY ElsewhereSame
<1>2. CASE job[r].state = "deleted" BY <1>1, <1>2 DEF JobStepsLeft
<1>3. CASE job[r].state # "deleted"
  <2>1. /\ (\E w \in Workers : AtWork(w, r)') <=> \E w \in Workers : AtWork(w, r)
        /\ (\E w \in Workers : Sending(w, r)') <=> \E w \in Workers : Sending(w, r)
    BY <1>3, ElsewhereSame, Zenon
  <2> HIDE DEF AtWork, Sending
  <2> QED BY <1>1, <2>1 DEF JobStepsLeft, ClaimsLeft
<1> QED BY <1>2, <1>3

LeavesFewer(r) == /\ JobStepsLeft(r)' <= JobStepsLeft(r)
                  /\ JobStepsLeft(r)' < JobStepsLeft(r)

LEMMA WaitLeavesFewer ==
    ASSUME OutboxInv, AttemptsCounted, NEW r \in Reports, DelayPasses(r)
    PROVE  LeavesFewer(r)
<1>1. /\ job[r].attempts \in Nat /\ MaxAttempts \in Nat /\ faults \in Nat
      /\ job[r].state \in {"pending", "sending"} /\ ~job[r].due
      /\ job'[r].state = job[r].state /\ job'[r].attempts = job[r].attempts /\ job'[r].due
      /\ faults' = faults
  BY JobFacts DEF DelayPasses, OutboxInv, OutboxTypeOK
<1>2. \A w \in Workers : ~AtWork(w, r) BY DEF DelayPasses, AtWork
<1>3. \A w \in Workers : ~Sending(w, r) BY <1>1, <1>2, JobFacts
<1>4. \A w \in Workers : ~AtWork(w, r)' /\ ~Sending(w, r)'
  BY <1>1, <1>2, <1>3 DEF DelayPasses, AtWork, Sending, Holds
<1>5. JobStepsLeft(r) = 4 * (MaxAttempts + 1 + faults - job[r].attempts) + 1
  BY <1>1, <1>2, <1>3 DEF JobStepsLeft, ClaimsLeft
<1>6. JobStepsLeft(r)' = 4 * (MaxAttempts + 1 + faults - job[r].attempts) + 0
  BY <1>1, <1>4 DEF JobStepsLeft, ClaimsLeft
<1> QED BY <1>1, <1>5, <1>6 DEF LeavesFewer

LEMMA ClaimLeavesFewer ==
    ASSUME OutboxInv, AttemptsCounted, NEW r \in Reports, NEW w \in Workers, Claim(w, r)
    PROVE  LeavesFewer(r)
<1> DEFINE k == IF \E v \in Workers : Sending(v, r) THEN 3
                ELSE IF \E v \in Workers : AtWork(v, r) THEN 2 ELSE 0
           n == IF \E v \in Workers : Sending(v, r)' THEN 3
                ELSE IF \E v \in Workers : AtWork(v, r)' THEN 2 ELSE 1
<1>1. /\ job[r].attempts \in Nat /\ MaxAttempts \in Nat /\ faults \in Nat
      /\ job[r].state \in {"pending", "sending"} /\ job[r].due /\ faults' = faults
      /\ job'[r].state = "sending" /\ job'[r].attempts = job[r].attempts + 1 /\ ~job'[r].due
  BY JobFacts DEF Claim, Claimable, ClaimedJob, OutboxInv, OutboxTypeOK
<1>2. JobStepsLeft(r) = 4 * (MaxAttempts + 1 + faults - job[r].attempts) + k
  BY <1>1 DEF JobStepsLeft, ClaimsLeft
<1>3. JobStepsLeft(r)' = 4 * (MaxAttempts + 1 + faults - (job[r].attempts + 1)) + n
  BY <1>1 DEF JobStepsLeft, ClaimsLeft
<1>4. k \in 0..3 /\ n \in 0..3 OBVIOUS
<1> HIDE DEF k, n
<1> QED BY <1>1, <1>2, <1>3, <1>4 DEF LeavesFewer

LEMMA AnswerLeavesFewer ==
    ASSUME OutboxInv, AttemptsCounted, NEW r \in Reports, NEW w \in Workers, AtWork(w, r),
           ProviderAnswers(w)
    PROVE  LeavesFewer(r)
<1>1. /\ job[r].attempts \in Nat /\ MaxAttempts \in Nat /\ faults \in Nat
      /\ job' = job /\ faults' = faults /\ job[r].state = "sending"
  BY JobFacts DEF ProviderAnswers
<1>2. worker[w] \in Claims BY BusyClaim DEF ProviderAnswers, OutboxInv
<1>3. /\ worker'[w].report = worker[w].report /\ worker'[w].attempts = worker[w].attempts
      /\ worker'[w].stage = "recording" /\ \A v \in Workers : v # w => worker'[v] = worker[v]
  BY <1>2 DEF ProviderAnswers, Claims, OutboxInv, OutboxTypeOK
<1>4. AtWork(w, r)' BY <1>1, <1>3 DEF AtWork, Holds, Resting
<1>5. Sending(w, r) BY DEF ProviderAnswers, Sending, AtWork
<1>6. \A v \in Workers : ~Sending(v, r)'
  BY <1>3, <1>5 DEF Sending, OutboxInv, OutboxOneLiveSend
<1>7. JobStepsLeft(r) = 4 * (MaxAttempts + 1 + faults - job[r].attempts) + 3
  BY <1>1, <1>5 DEF JobStepsLeft, ClaimsLeft
<1>8. JobStepsLeft(r)' = 4 * (MaxAttempts + 1 + faults - job[r].attempts) + 2
  <2> HIDE DEF AtWork, Sending
  <2> QED BY <1>1, <1>4, <1>6 DEF JobStepsLeft, ClaimsLeft
<1> QED BY <1>1, <1>7, <1>8 DEF LeavesFewer

LEMMA RecordLeavesFewer ==
    ASSUME OutboxInv, AttemptsCounted, NEW r \in Reports, NEW w \in Workers, AtWork(w, r),
           Record(w)
    PROVE  LeavesFewer(r)
<1>1. /\ job[r].attempts \in Nat /\ MaxAttempts \in Nat /\ faults \in Nat
      /\ faults' = faults /\ job[r].state = "sending"
      /\ job'[r].state = JobOutcome(w) /\ job'[r].attempts = job[r].attempts /\ ~job'[r].due
  BY JobFacts DEF Record, AtWork, OutboxInv, OutboxTypeOK
<1>2. JobOutcome(w) \in {"accepted", "failed", "pending"} BY DEF JobOutcome
<1>3. CASE JobOutcome(w) # "pending"
  <2>1. JobStepsLeft(r)' = 0 BY <1>1, <1>2, <1>3 DEF JobStepsLeft
  <2>2. JobStepsLeft(r) \in Nat /\ JobStepsLeft(r) # 0 BY <1>1, StepsOfJob
  <2> QED BY <2>1, <2>2 DEF LeavesFewer
<1>4. CASE JobOutcome(w) = "pending"
  <2>1. \A v \in Workers : ~AtWork(v, r)' BY <1>1, <1>4 DEF AtWork, Holds
  <2>2. OutboxInv' BY RecordStep
  <2>3. \A v \in Workers : ~Sending(v, r)'
    <3>1. ASSUME NEW v \in Workers, Sending(v, r)' PROVE Holds(v)'
      BY <1>1, <1>4, <2>2, <3>1 DEF OutboxInv, SendUnderLease
    <3> QED BY <1>1, <1>4, <3>1 DEF Holds, Sending
  <2> DEFINE k == IF \E v \in Workers : Sending(v, r) THEN 3 ELSE 2
  <2>4. JobStepsLeft(r) = 4 * (MaxAttempts + 1 + faults - job[r].attempts) + k
    BY <1>1 DEF JobStepsLeft, ClaimsLeft
  <2>5. JobStepsLeft(r)' = 4 * (MaxAttempts + 1 + faults - job[r].attempts) + 1
    <3> HIDE DEF AtWork, Sending
    <3> QED BY <1>1, <1>4, <2>1, <2>3 DEF JobStepsLeft, ClaimsLeft
  <2>6. k \in {2, 3} OBVIOUS
  <2> HIDE DEF k
  <2> QED BY <1>1, <2>4, <2>5, <2>6 DEF LeavesFewer
<1> QED BY <1>3, <1>4

(* However processes die and records are lost or late: a job that is not   *)
(* settled has at most 4 * (MaxAttempts + faults) + 7 waits, claims,       *)
(* answers and records ahead of it, each of them leaves fewer, and only a  *)
(* fault makes them more. What OutboxSettles needs besides is that they    *)
(* do happen.                                                              *)
THEOREM JobsAreBounded ==
    OutboxSpec =>
        /\ [](\A r \in Reports :
                 /\ JobStepsLeft(r) \in 0..4 * (MaxAttempts + faults) + 7
                 /\ JobStepsLeft(r) = 0 <=> job[r].state \notin {"pending", "sending"})
        /\ JobRunsOut
<1> DEFINE RunsOut == \A r \in Reports : job[r].state # "unsaved" /\ faults' = faults =>
                          /\ JobStepsLeft(r)' <= JobStepsLeft(r)
                          /\ StepOf(r) => JobStepsLeft(r)' < JobStepsLeft(r)
<1>1. OutboxInit => AttemptsCounted
  BY OutboxAssumption DEF OutboxInit, AttemptsCounted
<1>2. ASSUME OutboxInv, AttemptsCounted, [OutboxNext]_outboxVars
      PROVE  RunsOut
  <2> SUFFICES ASSUME NEW r \in Reports, job[r].state # "unsaved", faults' = faults
               PROVE  /\ JobStepsLeft(r)' <= JobStepsLeft(r)
                      /\ StepOf(r) => JobStepsLeft(r)' < JobStepsLeft(r)
    OBVIOUS
  <2>1. JobStepsLeft(r) \in Nat BY <1>2, StepsOfJob
  <2>2. CASE StepOf(r)
    <3>1. LeavesFewer(r)
      BY <1>2, <2>2, WaitLeavesFewer, ClaimLeavesFewer, AnswerLeavesFewer, RecordLeavesFewer
      DEF StepOf
    <3> QED BY <2>2, <3>1 DEF LeavesFewer
  <2>3. CASE ~StepOf(r) /\ About(r)
    <3>1. DeleteReport(r)
      BY <1>2, <2>3, JobFacts DEF About, StepOf, SaveReport, LeaseRunsOut, Crash
    <3>2. JobStepsLeft(r)' = 0
      BY <1>2, <3>1 DEF DeleteReport, JobStepsLeft, OutboxInv, OutboxTypeOK
    <3> QED BY <2>1, <2>3, <3>2
  <2>4. CASE ~StepOf(r) /\ ~About(r)
    <3>1. JobStepsLeft(r)' = JobStepsLeft(r) BY <1>2, <2>4, ElsewhereLeft
    <3> QED BY <2>1, <2>4, <3>1
  <2> QED BY <2>2, <2>3, <2>4
<1>3. OutboxSpec => [](OutboxInv /\ AttemptsCounted)
  BY <1>1, OutboxInitially, OutboxStep, AttemptsStep, PTL DEF OutboxSpec
<1>4. OutboxInv /\ AttemptsCounted =>
          \A r \in Reports : /\ JobStepsLeft(r) \in 0..4 * (MaxAttempts + faults) + 7
                             /\ JobStepsLeft(r) = 0 <=> job[r].state \notin {"pending", "sending"}
  BY StepsOfJob
<1>5. OutboxInv /\ AttemptsCounted /\ [OutboxNext]_outboxVars => [RunsOut]_outboxVars
  BY <1>2
<1> QED BY <1>3, <1>4, <1>5, PTL DEF OutboxSpec, JobRunsOut

-----------------------------------------------------------------------------
(***************************************************************************)
(* No data is stored for a deleted account, a completed case means a       *)
(* deleted account, and only the newest code verifies.                     *)
(*                                                                         *)
(* Why nothing is left: the touch of the user's document makes a write and *)
(* a removal exclude each other, so a removal that got as far as the user  *)
(* has seen all that is stored, and a write in its transaction has an      *)
(* account.                                                                *)
(***************************************************************************)
WritesHaveAccount == \A w \in SyncWrites : write[w] = "open" => exists

OneRemoval ==
    /\ \A d, e \in Deletions : Removed(d) /\ Removed(e) => d = e
    /\ \A d \in Deletions, w \in SyncWrites : Removed(d) => write[w] # "open"

FreshSawAll ==
    \A d \in Deletions :
        /\ deletion[d].stage = "begun" /\ deletion[d].fresh => stored \subseteq deletion[d].saw
        /\ Removed(d) => stored \subseteq deletion[d].saw

RegisteredWhenGone == ~exists => register

PendingIsNewest ==
    \A c \in Cases : case[c].status = "pending" =>
        issued # <<>> /\ c = issued[Len(issued)]

PendingHasTries == \A c \in Cases : case[c].status = "pending" => case[c].wrong < MaxWrong

DeletionInv ==
    /\ DeletionTypeOK /\ PendingHasTries
    /\ WritesHaveAccount /\ OneRemoval /\ FreshSawAll
    /\ NoDataOfTheDeleted /\ RegisteredWhenGone
    /\ CompletedMeansDeleted /\ PendingIsNewest

(* What the conjuncts about data, and those about cases, are read from. *)
dataVars == <<exists, stored, register, write, deletion>>
caseVars == <<case, issued>>

(* What a deletion and a case may be. *)
Progress == [stage : {"none", "found", "proved", "checked", "revoked", "begun", "removed",
                      "deleted"},
             of : Cases \cup {"nobody"}, token : BOOLEAN, saw : SUBSET SyncWrites,
             fresh : BOOLEAN]
CaseFile == [status : {"none", "asked", "pending", "verified", "locked", "superseded",
                       "completed"},
             wrong : 0..MaxWrong, expired : BOOLEAN]

LEMMA DeletionInitially == DeletionInit => DeletionInv
<1> SUFFICES ASSUME DeletionInit PROVE DeletionInv OBVIOUS
<1> USE DeletionAssumption DEF DeletionInit
<1>1. DeletionTypeOK
  <2>1. /\ exists \in BOOLEAN /\ register \in BOOLEAN /\ granted \in BOOLEAN
        /\ token \in BOOLEAN /\ sessions \in BOOLEAN
    BY DEF DeletionInit
  <2>2. deletion \in [Deletions -> Progress] BY DEF NotDeleting, Progress
  <2>3. case \in [Cases -> CaseFile] BY DEF NoCase, CaseFile
  <2> QED BY <2>1, <2>2, <2>3 DEF DeletionTypeOK, Progress, CaseFile
<1>2. \A d \in Deletions : deletion[d].stage = "none" BY DEF NotDeleting
<1>3. \A c \in Cases : case[c].status = "none" BY DEF NoCase
<1>4. WritesHaveAccount /\ OneRemoval /\ FreshSawAll
  BY <1>2 DEF WritesHaveAccount, OneRemoval, FreshSawAll, Removed
<1>5. NoDataOfTheDeleted /\ RegisteredWhenGone BY DEF NoDataOfTheDeleted, RegisteredWhenGone
<1>6. CompletedMeansDeleted /\ PendingIsNewest /\ PendingHasTries
  BY <1>3 DEF CompletedMeansDeleted, PendingIsNewest, PendingHasTries
<1> QED BY <1>1, <1>4, <1>5, <1>6 DEF DeletionInv

-----------------------------------------------------------------------------
(* Types. *)

LEMMA StaleType ==
    ASSUME DeletionTypeOK, NEW ds
    PROVE  Stale(ds) \in [Deletions -> Progress]
<1>1. ASSUME NEW d \in Deletions
      PROVE  [deletion[d] EXCEPT !.fresh = @ /\ d \notin ds] \in Progress
  <2>1. deletion[d] \in Progress BY DEF DeletionTypeOK, Progress
  <2> DEFINE b == deletion[d].fresh /\ d \notin ds
  <2>2. b \in BOOLEAN BY Zenon
  <2> HIDE DEF b
  <2>3. [deletion[d] EXCEPT !.fresh = b] \in Progress BY <2>1, <2>2 DEF Progress
  <2> QED BY <2>3 DEF b
<1> QED BY <1>1 DEF Stale

LEMMA SupersededType ==
    ASSUME DeletionTypeOK, NEW c
    PROVE  Superseded(c) \in [Cases -> CaseFile]
BY DEF DeletionTypeOK, Superseded, CaseFile

LEMMA NotDeletingType == NotDeleting \in Progress
BY DEF NotDeleting, Progress

LEMMA DeletionTypeStep ==
    DeletionTypeOK /\ PendingHasTries /\ [DeletionNext]_accountVars => DeletionTypeOK'
<1> SUFFICES ASSUME DeletionTypeOK, PendingHasTries, [DeletionNext]_accountVars
             PROVE  DeletionTypeOK'
  OBVIOUS
<1> USE DeletionAssumption
<1>0. /\ deletion \in [Deletions -> Progress] /\ case \in [Cases -> CaseFile]
      /\ stored \subseteq SyncWrites /\ issued \in Seq(Cases)
      /\ write \in [SyncWrites -> {"none", "allowed", "open", "done"}]
      /\ signIn \in {"none", "known", "captured", "done"}
  BY DEF DeletionTypeOK, Progress, CaseFile
<1>b. /\ exists \in BOOLEAN /\ register \in BOOLEAN /\ granted \in BOOLEAN
      /\ token \in BOOLEAN /\ sessions \in BOOLEAN
  BY DEF DeletionTypeOK
<1>1. ASSUME /\ deletion' \in [Deletions -> Progress] /\ case' \in [Cases -> CaseFile]
             /\ stored' \subseteq SyncWrites /\ issued' \in Seq(Cases)
             /\ write' \in [SyncWrites -> {"none", "allowed", "open", "done"}]
             /\ signIn' \in {"none", "known", "captured", "done"},
             /\ exists' \in BOOLEAN /\ register' \in BOOLEAN /\ granted' \in BOOLEAN
             /\ token' \in BOOLEAN /\ sessions' \in BOOLEAN
      PROVE  DeletionTypeOK'
  BY <1>1 DEF DeletionTypeOK, Progress, CaseFile
<1>2. ASSUME NEW w \in SyncWrites, AllowWrite(w) \/ TouchUser(w) \/ CommitWrite(w)
      PROVE  DeletionTypeOK'
  <2>1. write' \in [SyncWrites -> {"none", "allowed", "open", "done"}]
    BY <1>0, <1>2 DEF AllowWrite, TouchUser, CommitWrite
  <2>2. deletion' \in [Deletions -> Progress]
    BY <1>0, <1>2, StaleType DEF AllowWrite, TouchUser, CommitWrite
  <2> QED BY <1>0, <1>b, <1>1, <1>2, <2>1, <2>2 DEF AllowWrite, TouchUser, CommitWrite
<1>3. CASE SignInFinds \/ SignInCaptures \/ SignInOpensSession
  <2>1. granted' \in BOOLEAN /\ token' \in BOOLEAN /\ sessions' \in BOOLEAN
    BY <1>b, <1>3, Zenon DEF SignInFinds, SignInCaptures, SignInOpensSession
  <2> QED BY <1>0, <1>b, <1>1, <1>3, <2>1 DEF SignInFinds, SignInCaptures, SignInOpensSession
<1>4. CASE AppDeletes
  <2>1. deletion' \in [Deletions -> Progress] BY <1>0, <1>4 DEF AppDeletes, Steps, Progress
  <2> QED BY <1>0, <1>b, <1>1, <1>4, <2>1 DEF AppDeletes
<1>5. CASE AdminDeletes
  <2>1. PICK c \in Cases :
          IF exists
          THEN /\ deletion' = [deletion EXCEPT !["admin"] =
                    [NotDeleting EXCEPT !.stage = "found", !.of = c]]
               /\ UNCHANGED case
          ELSE /\ case' = [case EXCEPT ![c].status = "completed"]
               /\ UNCHANGED deletion
    BY <1>5 DEF AdminDeletes
  <2>2. deletion' \in [Deletions -> Progress]
    <3> DEFINE began == [NotDeleting EXCEPT !.stage = "found", !.of = c]
    <3>2. began \in Progress BY NotDeletingType DEF Progress
    <3> HIDE DEF began
    <3>3. deletion' = [deletion EXCEPT !["admin"] = began] \/ deletion' = deletion
      BY <2>1 DEF began
    <3> QED BY <1>0, <3>2, <3>3
  <2>3. case' \in [Cases -> CaseFile]
    <3>1. CASE exists BY <1>0, <2>1, <3>1
    <3>2. CASE ~exists
      <4>1. [case[c] EXCEPT !.status = "completed"] \in CaseFile BY <1>0 DEF CaseFile
      <4>2. case' = [case EXCEPT ![c] = [case[c] EXCEPT !.status = "completed"]]
        BY <1>0, <2>1, <3>2
      <4> QED BY <1>0, <4>1, <4>2
    <3> QED BY <3>1, <3>2
  <2> QED BY <1>0, <1>b, <1>1, <1>5, <2>2, <2>3 DEF AdminDeletes
<1>6. CASE AdminCompletes
  <2>1. deletion' \in [Deletions -> Progress]
    BY <1>0, <1>6, NotDeletingType DEF AdminCompletes
  <2>2. case' \in [Cases -> CaseFile]
    <3> DEFINE c == deletion["admin"].of
    <3>1. case' = [case EXCEPT ![c].status = "completed"] BY <1>6 DEF AdminCompletes
    <3> HIDE DEF c
    <3> QED BY <1>0, <3>1 DEF CaseFile
  <2> QED BY <1>0, <1>b, <1>1, <1>6, <2>1, <2>2 DEF AdminCompletes
<1>7. ASSUME NEW d \in Deletions, Revoke(d) \/ BeginDeletion(d) \/ RemoveUser(d)
      PROVE  DeletionTypeOK'
  <2>1. deletion' \in [Deletions -> Progress]
    BY <1>0, <1>7 DEF Revoke, BeginDeletion, RemoveUser, Steps, Progress
  <2>2. granted' \in BOOLEAN
    BY <1>b, <1>7 DEF Revoke, BeginDeletion, RemoveUser
  <2> QED BY <1>0, <1>b, <1>1, <1>7, <2>1, <2>2 DEF Revoke, BeginDeletion, RemoveUser
<1>8. ASSUME NEW d \in Deletions, DeletionStops(d)
      PROVE  DeletionTypeOK'
  <2>1. deletion' \in [Deletions -> Progress]
    BY <1>0, <1>8, NotDeletingType DEF DeletionStops
  <2> QED BY <1>0, <1>b, <1>1, <1>8, <2>1 DEF DeletionStops
<1>9. ASSUME NEW d \in Deletions, CommitDeletion(d)
      PROVE  DeletionTypeOK'
  <2>1. deletion' \in [Deletions -> Progress]
    <3> DEFINE st == Stale(Deletions \ {d})
    <3>1. st \in [Deletions -> Progress] BY StaleType
    <3>2. deletion' = [st EXCEPT ![d].stage = "deleted"] BY <1>9 DEF CommitDeletion
    <3> HIDE DEF st
    <3> QED BY <3>1, <3>2 DEF Progress
  <2>2. /\ exists' \in BOOLEAN /\ register' \in BOOLEAN /\ token' \in BOOLEAN /\ sessions' \in BOOLEAN
    BY <1>9, Zenon DEF CommitDeletion
  <2>3. stored' \subseteq SyncWrites BY <1>0, <1>9 DEF CommitDeletion
  <2> QED BY <1>0, <1>b, <1>1, <1>9, <2>1, <2>2, <2>3 DEF CommitDeletion
<1>10. ASSUME NEW c \in Cases, StartChallenge(c) \/ CreateCase(c) \/ Verify(c) \/ CodeExpires(c)
      PROVE  DeletionTypeOK'
  <2>1. CASE CreateCase(c)
    <3> DEFINE sup == Superseded(c)
    <3>1. sup \in [Cases -> CaseFile] BY SupersededType
    <3>2. case' = [sup EXCEPT ![c] = [NoCase EXCEPT !.status = "pending"]] BY <2>1 DEF CreateCase
    <3>3. [NoCase EXCEPT !.status = "pending"] \in CaseFile
      <4>1. NoCase \in CaseFile BY DEF NoCase, CaseFile
      <4> QED BY <4>1 DEF CaseFile
    <3> HIDE DEF sup
    <3>4. case' \in [Cases -> CaseFile] BY <3>1, <3>2, <3>3
    <3>5. issued' \in Seq(Cases) BY <1>0, <2>1 DEF CreateCase
    <3> QED BY <1>0, <1>b, <1>1, <2>1, <3>4, <3>5 DEF CreateCase, CaseStep
  <2>2. CASE Verify(c)
    <3>1. case[c].wrong \in 0..MaxWrong BY <1>0 DEF CaseFile
    <3>2. ASSUME case' = [case EXCEPT ![c].status = "verified"]
          PROVE  case' \in [Cases -> CaseFile]
      BY <1>0, <3>2 DEF CaseFile
    <3>3. ASSUME case' = [case EXCEPT ![c].wrong = @ + 1,
                           ![c].status = IF case[c].wrong + 1 = MaxWrong THEN "locked" ELSE @]
          PROVE  case' \in [Cases -> CaseFile]
      <4> DEFINE file == [case[c] EXCEPT !.wrong = @ + 1,
                            !.status = IF case[c].wrong + 1 = MaxWrong THEN "locked" ELSE @]
      <4>1. case[c] \in CaseFile BY <1>0
      <4>2. case[c].wrong + 1 \in 0..MaxWrong
        BY <2>2, <3>1 DEF Verify, PendingHasTries
      <4>3. file \in CaseFile BY <4>1, <4>2 DEF CaseFile
      <4>4. case' = [case EXCEPT ![c] = file] BY <3>3
      <4> HIDE DEF file
      <4> QED BY <1>0, <4>3, <4>4
    <3>4. case' \in [Cases -> CaseFile] BY <2>2, <3>2, <3>3 DEF Verify
    <3> QED BY <1>0, <1>b, <1>1, <2>2, <3>4 DEF Verify, CaseStep
  <2>3. CASE CodeExpires(c)
    <3>1. case' \in [Cases -> CaseFile] BY <1>0, <2>3 DEF CodeExpires, CaseFile
    <3> QED BY <1>0, <1>b, <1>1, <2>3, <3>1 DEF CodeExpires
  <2>4. CASE StartChallenge(c)
    <3>1. case' \in [Cases -> CaseFile] BY <1>0, <2>4 DEF StartChallenge, CaseFile
    <3> QED BY <1>0, <1>b, <1>1, <2>4, <3>1 DEF StartChallenge
  <2> QED BY <1>10, <2>1, <2>2, <2>3, <2>4
<1>11. CASE UNCHANGED accountVars
  BY <1>0, <1>b, <1>1, <1>11 DEF accountVars
<1>12. CASE ExchangeCode \/ SaveToken
  <2>1. \/ deletion' = [deletion EXCEPT !["app"].stage = "proved"]
        \/ deletion' = [deletion EXCEPT !["app"].stage = "checked", !["app"].token = TRUE]
    BY <1>12 DEF ExchangeCode, SaveToken, Steps
  <2>2. deletion' \in [Deletions -> Progress] BY <1>0, <2>1 DEF Progress
  <2>3. granted' \in BOOLEAN /\ token' \in BOOLEAN
    BY <1>b, <1>12, Zenon DEF ExchangeCode, SaveToken
  <2> QED BY <1>0, <1>b, <1>1, <1>12, <2>2, <2>3 DEF ExchangeCode, SaveToken
<1>13. ASSUME NEW d \in Deletions, ReadToken(d)
       PROVE  DeletionTypeOK'
  <2> DEFINE read == [deletion[d] EXCEPT !.stage = "checked", !.token = token]
  <2>1. deletion' = [deletion EXCEPT ![d] = read] BY <1>13 DEF ReadToken
  <2>2. deletion[d] \in Progress BY <1>0
  <2>3. read \in Progress BY <1>b, <2>2 DEF Progress
  <2> HIDE DEF read
  <2>4. deletion' \in [Deletions -> Progress] BY <1>0, <2>1, <2>3
  <2> QED BY <1>0, <1>b, <1>1, <1>13, <2>4 DEF ReadToken
<1> QED
  BY <1>2, <1>3, <1>4, <1>5, <1>6, <1>7, <1>8, <1>9, <1>10, <1>11, <1>12, <1>13
     DEF DeletionNext

-----------------------------------------------------------------------------
(* The conjuncts about data. *)
DataInv == WritesHaveAccount /\ OneRemoval /\ FreshSawAll /\ NoDataOfTheDeleted /\ RegisteredWhenGone

(* A deletion that starts, stops or goes on before its transaction, or one *)
(* that finds the user's document changed.                                 *)
LEMMA Harmless ==
    ASSUME DataInv, UNCHANGED <<exists, stored, register, write>>,
           \A d \in Deletions :
              deletion'[d] = deletion[d] \/ deletion'[d].stage \notin {"begun", "removed"}
    PROVE  DataInv'
<1> USE DEF DataInv
<1>1. \A d \in Deletions : Removed(d)' => Removed(d) /\ deletion'[d] = deletion[d] BY DEF Removed
<1>2. WritesHaveAccount' BY DEF WritesHaveAccount
<1>3. OneRemoval' BY <1>1 DEF OneRemoval
<1>4. FreshSawAll' BY <1>1 DEF FreshSawAll
<1> QED BY <1>2, <1>3, <1>4 DEF NoDataOfTheDeleted, RegisteredWhenGone

LEMMA StaleOnly ==
    ASSUME DeletionTypeOK, NEW ds
    PROVE  \A d \in Deletions : /\ Stale(ds)[d].stage = deletion[d].stage
                                 /\ Stale(ds)[d].saw = deletion[d].saw
                                 /\ (d \in ds => ~Stale(ds)[d].fresh)
                                 /\ (Stale(ds)[d].fresh => deletion[d].fresh)
<1> SUFFICES ASSUME NEW d \in Deletions
             PROVE  /\ Stale(ds)[d].stage = deletion[d].stage
                    /\ Stale(ds)[d].saw = deletion[d].saw
                    /\ (d \in ds => ~Stale(ds)[d].fresh)
                    /\ (Stale(ds)[d].fresh => deletion[d].fresh)
  OBVIOUS
<1> DEFINE b == deletion[d].fresh /\ d \notin ds
<1>1. deletion[d] \in Progress BY DEF DeletionTypeOK, Progress
<1>2. Stale(ds)[d] = [deletion[d] EXCEPT !.fresh = b] BY DEF Stale
<1> HIDE DEF b
<1>3. Stale(ds)[d].stage = deletion[d].stage /\ Stale(ds)[d].saw = deletion[d].saw
      /\ Stale(ds)[d].fresh = b
  BY <1>1, <1>2 DEF Progress
<1> QED BY <1>3, Zenon DEF b

LEMMA DataStep ==
    ASSUME DeletionTypeOK, DataInv, [DeletionNext]_accountVars
    PROVE  DataInv'
<1>0. deletion \in [Deletions -> Progress] BY DEF DeletionTypeOK, Progress
<1>w. write \in [SyncWrites -> {"none", "allowed", "open", "done"}] BY DEF DeletionTypeOK
<1>1. ASSUME NEW w \in SyncWrites, AllowWrite(w) PROVE DataInv'
  <2>1. \A v \in SyncWrites : write'[v] = "open" => write[v] = "open" BY <1>w, <1>1 DEF AllowWrite
  <2>2. UNCHANGED <<exists, stored, register, deletion>> BY <1>1 DEF AllowWrite
  <2> QED BY <2>1, <2>2 DEF DataInv, WritesHaveAccount, OneRemoval, FreshSawAll, Removed,
                            NoDataOfTheDeleted, RegisteredWhenGone
<1>2. ASSUME NEW w \in SyncWrites, TouchUser(w) PROVE DataInv'
  <2>1. \A v \in SyncWrites : write'[v] = "open" => exists BY <1>w, <1>2 DEF TouchUser, Touched, TouchConflicts
  <2>2. UNCHANGED <<exists, stored, register, deletion>> /\ \A d \in Deletions : ~Removed(d)
    BY <1>2 DEF TouchUser
  <2> QED BY <2>1, <2>2 DEF DataInv, WritesHaveAccount, OneRemoval, FreshSawAll, Removed,
                            NoDataOfTheDeleted, RegisteredWhenGone
<1>3. ASSUME NEW w \in SyncWrites, CommitWrite(w) PROVE DataInv'
  <2>1. /\ write[w] = "open" /\ write' = [write EXCEPT ![w] = "done"]
        /\ deletion' = Stale(Deletions) /\ UNCHANGED <<exists, register>>
    BY <1>3 DEF CommitWrite, TouchConflicts
  <2>2. exists BY <2>1 DEF DataInv, WritesHaveAccount
  <2>3. \A d \in Deletions : ~Removed(d) BY <2>1 DEF DataInv, OneRemoval
  <2>4. \A d \in Deletions : ~Removed(d)' /\ ~deletion'[d].fresh
    <3>1. \A d \in Deletions : /\ Stale(Deletions)[d].stage = deletion[d].stage
                               /\ ~Stale(Deletions)[d].fresh
      BY StaleOnly
    <3> QED BY <2>1, <2>3, <3>1, Zenon DEF Removed
  <2>5. WritesHaveAccount' BY <2>1, <2>2 DEF WritesHaveAccount
  <2> QED BY <2>1, <2>2, <2>4, <2>5 DEF DataInv, OneRemoval, FreshSawAll, NoDataOfTheDeleted, RegisteredWhenGone
<1>4. CASE SignInFinds \/ SignInCaptures \/ SignInOpensSession
  BY <1>4, Harmless DEF SignInFinds, SignInCaptures, SignInOpensSession
<1>5. CASE AppDeletes \/ ExchangeCode \/ SaveToken
  <2>1. /\ deletion'["app"].stage \in {"found", "proved", "checked"}
        /\ deletion'["admin"] = deletion["admin"]
        /\ UNCHANGED <<exists, stored, register, write>>
    BY <1>0, <1>5 DEF AppDeletes, ExchangeCode, SaveToken, Steps, Deletions, Progress
  <2> QED BY <2>1, Harmless DEF Deletions
<1>6. CASE AdminDeletes
  <2>1. UNCHANGED <<exists, stored, register, write>> BY <1>6 DEF AdminDeletes
  <2>2. PICK c \in Cases :
          deletion' = deletion \/
          deletion' = [deletion EXCEPT !["admin"] =
                    [NotDeleting EXCEPT !.stage = "found", !.of = c]]
    BY <1>6 DEF AdminDeletes
  <2> DEFINE began == [NotDeleting EXCEPT !.stage = "found", !.of = c]
  <2>3. began.stage = "found" BY NotDeletingType DEF Progress
  <2> HIDE DEF began
  <2>4. deletion' = deletion \/ deletion' = [deletion EXCEPT !["admin"] = began] BY <2>2 DEF began
  <2>5. \A d \in Deletions : deletion'[d] = deletion[d] \/ deletion'[d].stage = "found"
    BY <1>0, <2>3, <2>4 DEF Deletions
  <2> QED BY <2>1, <2>5, Harmless
<1>7. CASE AdminCompletes
  <2>1. deletion' = [deletion EXCEPT !["admin"] = NotDeleting]
        /\ UNCHANGED <<exists, stored, register, write>>
    BY <1>7 DEF AdminCompletes
  <2>2. NotDeleting.stage = "none" BY DEF NotDeleting
  <2> QED BY <1>0, <2>1, <2>2, Harmless
<1>8. ASSUME NEW d \in Deletions, ReadToken(d) \/ Revoke(d) \/ DeletionStops(d) PROVE DataInv'
  <2>1. UNCHANGED <<exists, stored, register, write>>
    BY <1>8 DEF ReadToken, Revoke, DeletionStops
  <2>2. NotDeleting.stage = "none" BY DEF NotDeleting
  <2>3. \A e \in Deletions : \/ deletion'[e] = deletion[e]
                             \/ deletion'[e].stage \in {"checked", "revoked", "none"}
    BY <1>0, <1>8, <2>2 DEF ReadToken, Revoke, DeletionStops, Steps, Progress
  <2> QED BY <2>1, <2>3, Harmless
<1>9. ASSUME NEW d \in Deletions, BeginDeletion(d) PROVE DataInv'
  <2>1. /\ deletion'[d].stage = "begun" /\ deletion'[d].saw = stored
        /\ \A e \in Deletions : e # d => deletion'[e] = deletion[e]
        /\ UNCHANGED <<exists, stored, register, write>>
    BY <1>0, <1>9 DEF BeginDeletion, Progress
  <2>2. \A e \in Deletions : Removed(e)' => Removed(e) /\ e # d BY <2>1 DEF Removed
  <2>3. FreshSawAll' BY <2>1, <2>2 DEF DataInv, FreshSawAll
  <2> QED BY <2>1, <2>2, <2>3 DEF DataInv, WritesHaveAccount, OneRemoval, NoDataOfTheDeleted, RegisteredWhenGone
<1>10. ASSUME NEW d \in Deletions, RemoveUser(d) PROVE DataInv'
  <2>1. UNCHANGED <<exists, stored, register, write>> BY <1>10 DEF RemoveUser
  <2>2. CASE deletion[d].fresh /\ ~Touched /\ \A e \in Deletions : ~Removed(e)
    <3>1. /\ deletion[d].stage = "begun" /\ deletion'[d].saw = deletion[d].saw
          /\ \A e \in Deletions : e # d => deletion'[e] = deletion[e]
      BY <1>0, <1>10, <2>2 DEF RemoveUser, Steps, Progress
    <3>2. \A e \in Deletions : Removed(e)' => e = d BY <2>2, <3>1 DEF Removed
    <3>3. \A w \in SyncWrites : write[w] # "open" BY <2>2 DEF Touched, TouchConflicts
    <3>4. stored \subseteq deletion[d].saw BY <2>2, <3>1 DEF DataInv, FreshSawAll
    <3>5. FreshSawAll' BY <2>1, <3>1, <3>2, <3>4 DEF DataInv, FreshSawAll
    <3>6. OneRemoval' BY <2>1, <3>2, <3>3 DEF OneRemoval
    <3> QED BY <2>1, <3>5, <3>6 DEF DataInv, WritesHaveAccount, NoDataOfTheDeleted, RegisteredWhenGone
  <2>3. CASE ~(deletion[d].fresh /\ ~Touched /\ \A e \in Deletions : ~Removed(e))
    <3>1. \A e \in Deletions : deletion'[e] = deletion[e] \/ deletion'[e].stage = "revoked"
      BY <1>0, <1>10, <2>3 DEF RemoveUser, Steps, Progress
    <3> QED BY <2>1, <3>1, Harmless
  <2> QED BY <2>2, <2>3
<1>11. ASSUME NEW d \in Deletions, CommitDeletion(d) PROVE DataInv'
  <2>1. /\ Removed(d) /\ exists' = FALSE /\ register' = TRUE /\ stored' = stored \ deletion[d].saw
        /\ deletion' = [Stale(Deletions \ {d}) EXCEPT ![d].stage = "deleted"] /\ write' = write
    BY <1>11 DEF CommitDeletion
  <2>2. stored' = {} BY <2>1 DEF DataInv, FreshSawAll
  <2>3. \A w \in SyncWrites : write[w] # "open" BY <2>1 DEF DataInv, OneRemoval
  <2>4. \A e \in Deletions : ~Removed(e)'
    <3> DEFINE st == Stale(Deletions \ {d})
    <3>1. st \in [Deletions -> Progress] BY StaleType
    <3>2. deletion' = [st EXCEPT ![d].stage = "deleted"] BY <2>1
    <3>3. \A e \in Deletions : st[e].stage = deletion[e].stage BY StaleOnly
    <3> HIDE DEF st
    <3>4. \A e \in Deletions : deletion'[e].stage = IF e = d THEN "deleted" ELSE deletion[e].stage
      BY <3>1, <3>2, <3>3 DEF Progress
    <3>5. \A e \in Deletions : e # d => ~Removed(e) BY <2>1 DEF DataInv, OneRemoval
    <3> QED BY <3>4, <3>5 DEF Removed
  <2> QED BY <2>1, <2>2, <2>3, <2>4 DEF DataInv, WritesHaveAccount, OneRemoval, FreshSawAll,
                                       NoDataOfTheDeleted, RegisteredWhenGone
<1>12. ASSUME NEW c \in Cases, StartChallenge(c) \/ CreateCase(c) \/ Verify(c) \/ CodeExpires(c)
       PROVE  DataInv'
  BY <1>12, Harmless DEF StartChallenge, CreateCase, Verify, CodeExpires, CaseStep
<1>13. CASE UNCHANGED accountVars
  BY <1>13, Harmless DEF accountVars
<1> QED
  BY <1>1, <1>2, <1>3, <1>4, <1>5, <1>6, <1>7, <1>8, <1>9, <1>10, <1>11, <1>12, <1>13 DEF DeletionNext

-----------------------------------------------------------------------------
(* The conjuncts about cases. *)
CaseInv == PendingIsNewest /\ PendingHasTries /\ CompletedMeansDeleted

(* No case is opened, given another try or completed. *)
LEMMA CasesRest ==
    ASSUME CaseInv, issued' = issued, exists' => exists, register => register',
           \A c \in Cases : /\ (case'[c].status = "pending" =>
                                   case[c].status = "pending" /\ case'[c].wrong = case[c].wrong)
                            /\ (case'[c].status = "completed" => case[c].status = "completed")
    PROVE  CaseInv'
<1>1. PendingIsNewest' BY DEF CaseInv, PendingIsNewest
<1>2. PendingHasTries' BY DEF CaseInv, PendingHasTries
<1>3. CompletedMeansDeleted' BY DEF CaseInv, CompletedMeansDeleted
<1> QED BY <1>1, <1>2, <1>3 DEF CaseInv

(* A case is completed, of an account that is gone. *)
LEMMA CaseCompleted ==
    ASSUME DeletionTypeOK, CaseInv, RegisteredWhenGone, ~exists, UNCHANGED <<exists, register, issued>>,
           NEW c, case' = [case EXCEPT ![c].status = "completed"]
    PROVE  CaseInv'
<1>0. case \in [Cases -> CaseFile] BY DEF DeletionTypeOK, CaseFile
<1>1. \A o \in Cases : case'[o].status = "pending" =>
        case[o].status = "pending" /\ case'[o].wrong = case[o].wrong
  BY <1>0 DEF CaseFile
<1>2. PendingIsNewest' BY <1>1 DEF CaseInv, PendingIsNewest
<1>3. PendingHasTries' BY <1>1 DEF CaseInv, PendingHasTries
<1>4. CompletedMeansDeleted' BY DEF CompletedMeansDeleted, RegisteredWhenGone
<1> QED BY <1>2, <1>3, <1>4 DEF CaseInv

LEMMA CaseStepKeeps ==
    ASSUME DeletionTypeOK, CaseInv, RegisteredWhenGone, [DeletionNext]_accountVars
    PROVE  CaseInv'
<1>0. case \in [Cases -> CaseFile] /\ issued \in Seq(Cases) BY DEF DeletionTypeOK, CaseFile
<1>1. ASSUME NEW w \in SyncWrites, AllowWrite(w) \/ TouchUser(w) \/ CommitWrite(w) PROVE CaseInv'
  BY <1>1, CasesRest DEF AllowWrite, TouchUser, CommitWrite
<1>2. CASE \/ SignInFinds \/ SignInCaptures \/ SignInOpensSession
           \/ AppDeletes \/ ExchangeCode \/ SaveToken
  BY <1>2, CasesRest DEF SignInFinds, SignInCaptures, SignInOpensSession, AppDeletes,
                         ExchangeCode, SaveToken
<1>3. CASE AdminDeletes
  <2>1. UNCHANGED <<exists, register, issued>> BY <1>3 DEF AdminDeletes
  <2>2. PICK c \in Cases :
          case' = case \/ (~exists /\ case' = [case EXCEPT ![c].status = "completed"])
    BY <1>3 DEF AdminDeletes
  <2> QED BY <2>1, <2>2, CasesRest, CaseCompleted
<1>4. CASE AdminCompletes
  <2>1. ~exists /\ UNCHANGED <<exists, register, issued>>
        /\ case' = [case EXCEPT ![deletion["admin"].of].status = "completed"]
    BY <1>4 DEF AdminCompletes, RecountsNone
  <2> QED BY <2>1, CaseCompleted
<1>5. ASSUME NEW d \in Deletions,
             \/ ReadToken(d) \/ Revoke(d) \/ DeletionStops(d)
             \/ BeginDeletion(d) \/ RemoveUser(d) \/ CommitDeletion(d)
      PROVE  CaseInv'
  <2>1. UNCHANGED <<case, issued>> /\ (exists' => exists) /\ (register => register')
    BY <1>5 DEF ReadToken, Revoke, DeletionStops, BeginDeletion, RemoveUser, CommitDeletion
  <2> QED BY <2>1, CasesRest
<1>6. ASSUME NEW c \in Cases, CreateCase(c) PROVE CaseInv'
  <2> DEFINE sup == Superseded(c)
             new == [NoCase EXCEPT !.status = "pending"]
  <2>1. /\ case' = [sup EXCEPT ![c] = new] /\ issued' = Append(issued, c)
        /\ UNCHANGED <<exists, register>>
    BY <1>6 DEF CreateCase, CaseStep
  <2>2. new.status = "pending" /\ new.wrong = 0 BY DEF NoCase
  <2>3. sup \in [Cases -> CaseFile]
        /\ \A o \in Cases : /\ sup[o].status # "pending"
                            /\ (sup[o].status = "completed" => case[o].status = "completed")
    <3>1. sup \in [Cases -> CaseFile] BY SupersededType
    <3>2. ASSUME NEW o \in Cases
          PROVE  sup[o].status # "pending" /\ (sup[o].status = "completed" => case[o].status = "completed")
      BY <1>0 DEF Superseded, CaseFile
    <3> QED BY <3>1, <3>2
  <2> HIDE DEF sup, new
  <2>4. \A o \in Cases : case'[o] = IF o = c THEN new ELSE sup[o] BY <2>1, <2>3
  <2>5. issued' # <<>> /\ issued'[Len(issued')] = c BY <1>0, <2>1
  <2>6. PendingIsNewest' BY <2>2, <2>3, <2>4, <2>5 DEF PendingIsNewest
  <2>7. PendingHasTries' BY <2>2, <2>3, <2>4, DeletionAssumption DEF PendingHasTries
  <2>8. CompletedMeansDeleted' BY <2>1, <2>2, <2>3, <2>4 DEF CaseInv, CompletedMeansDeleted
  <2> QED BY <2>6, <2>7, <2>8 DEF CaseInv
<1>7. ASSUME NEW c \in Cases, Verify(c) PROVE CaseInv'
  <2>1. case[c].status = "pending" /\ UNCHANGED <<exists, register, issued>>
        /\ (\/ case' = [case EXCEPT ![c].status = "verified"]
            \/ case' = [case EXCEPT ![c].wrong = @ + 1,
                          ![c].status = IF case[c].wrong + 1 = MaxWrong THEN "locked" ELSE @])
    BY <1>7 DEF Verify, CaseStep
  <2>2. case[c].wrong \in 0..MaxWrong BY <1>0 DEF CaseFile
  <2>3. /\ \A o \in Cases : o # c => case'[o] = case[o]
        /\ case'[c].status \in {"pending", "verified", "locked"}
        /\ (case'[c].status = "pending" => case'[c].wrong < MaxWrong)
    <3>1. ASSUME case' = [case EXCEPT ![c].status = "verified"]
          PROVE  /\ \A o \in Cases : o # c => case'[o] = case[o]
                 /\ case'[c].status = "verified"
      BY <1>0, <3>1 DEF CaseFile
    <3>2. ASSUME case' = [case EXCEPT ![c].wrong = @ + 1,
                          ![c].status = IF case[c].wrong + 1 = MaxWrong THEN "locked" ELSE @]
          PROVE  /\ \A o \in Cases : o # c => case'[o] = case[o]
                 /\ case'[c].status \in {"pending", "locked"}
                 /\ (case'[c].status = "pending" => case'[c].wrong < MaxWrong)
      <4> DEFINE file == [case[c] EXCEPT !.wrong = @ + 1,
                            !.status = IF case[c].wrong + 1 = MaxWrong THEN "locked" ELSE @]
      <4>1. case' = [case EXCEPT ![c] = file] BY <3>2
      <4>2. case[c].wrong < MaxWrong BY <2>1 DEF CaseInv, PendingHasTries
      <4>3. /\ file.status = IF case[c].wrong + 1 = MaxWrong THEN "locked" ELSE "pending"
            /\ file.wrong = case[c].wrong + 1
        BY <1>0, <2>1 DEF CaseFile
      <4> HIDE DEF file
      <4>4. case'[c] = file /\ \A o \in Cases : o # c => case'[o] = case[o] BY <1>0, <4>1
      <4> QED BY <2>2, <4>2, <4>3, <4>4, DeletionAssumption
    <3> QED BY <2>1, <3>1, <3>2
  <2>4. PendingIsNewest' BY <2>1, <2>3 DEF CaseInv, PendingIsNewest
  <2>5. PendingHasTries' BY <2>3 DEF CaseInv, PendingHasTries
  <2>6. CompletedMeansDeleted' BY <2>1, <2>3 DEF CaseInv, CompletedMeansDeleted
  <2> QED BY <2>4, <2>5, <2>6 DEF CaseInv
<1>8. ASSUME NEW c \in Cases, CodeExpires(c) PROVE CaseInv'
  <2>1. UNCHANGED <<exists, register, issued>> /\ case' = [case EXCEPT ![c].expired = TRUE]
    BY <1>8 DEF CodeExpires
  <2>2. \A o \in Cases : case'[o].status = case[o].status /\ case'[o].wrong = case[o].wrong
    BY <1>0, <2>1 DEF CaseFile
  <2> QED BY <2>1, <2>2, CasesRest
<1>9. ASSUME NEW c \in Cases, StartChallenge(c) PROVE CaseInv'
  <2>1. /\ UNCHANGED <<exists, register, issued>>
        /\ case[c].status = "none" /\ case' = [case EXCEPT ![c].status = "asked"]
    BY <1>9 DEF StartChallenge
  <2>2. \A o \in Cases : case'[o] = case[o] \/ case'[o].status = "asked"
    BY <1>0, <2>1 DEF CaseFile
  <2> QED BY <2>1, <2>2, CasesRest
<1>10. CASE UNCHANGED accountVars
  BY <1>10, CasesRest DEF accountVars
<1> QED
  BY <1>1, <1>2, <1>3, <1>4, <1>5, <1>6, <1>7, <1>8, <1>9, <1>10 DEF DeletionNext

LEMMA DeletionStep == DeletionInv /\ [DeletionNext]_accountVars => DeletionInv'
<1> SUFFICES ASSUME DeletionInv, [DeletionNext]_accountVars PROVE DeletionInv' OBVIOUS
<1>1. DeletionTypeOK' BY DeletionTypeStep DEF DeletionInv
<1>2. DataInv' BY DataStep DEF DeletionInv, DataInv
<1>3. CaseInv' BY CaseStepKeeps DEF DeletionInv, CaseInv
<1> QED BY <1>1, <1>2, <1>3 DEF DeletionInv, DataInv, CaseInv

(* However writes that were allowed in, sign-ins and deletions interleave, *)
(* nothing is stored for an account that is gone, for any number of writes.*)
THEOREM NothingLeftOfDeleted == DeletionSpec => []NoDataOfTheDeleted
<1>1. DeletionInv => NoDataOfTheDeleted BY DEF DeletionInv
<1> QED BY <1>1, DeletionInitially, DeletionStep, PTL DEF DeletionSpec

(* Whatever fails on the way, a completed case means that its account is   *)
(* gone and in the register.                                               *)
THEOREM CompletedIsDeleted == DeletionSpec => []CompletedMeansDeleted
<1>1. DeletionInv => CompletedMeansDeleted BY DEF DeletionInv
<1> QED BY <1>1, DeletionInitially, DeletionStep, PTL DEF DeletionSpec

(* A case is verified only while no newer one exists: the code given last  *)
(* is the only one that works, for any number of cases.                    *)
THEOREM OnlyNewestVerifies == DeletionSpec => NewestCodeVerifies
<1> DEFINE Newest(c) == case[c].status # "verified" /\ case'[c].status = "verified"
                          => c = issued[Len(issued)]
<1>1. DeletionInv /\ [DeletionNext]_accountVars => [\A c \in Cases : Newest(c)]_accountVars
  <2> SUFFICES ASSUME DeletionInv, DeletionNext, NEW c \in Cases,
                      case[c].status # "verified", case'[c].status = "verified"
               PROVE  c = issued[Len(issued)]
    OBVIOUS
  <2>0. case \in [Cases -> CaseFile] BY DEF DeletionInv, DeletionTypeOK, CaseFile
  <2>1. case' # case BY Zenon
  <2>2. ASSUME NEW o \in Cases, Verify(o) PROVE c = issued[Len(issued)]
    <3>1. case[o].status = "pending" BY <2>2 DEF Verify
    <3>2. c = o BY <2>0, <2>2 DEF Verify, CaseFile
    <3> QED BY <3>1, <3>2 DEF DeletionInv, PendingIsNewest
  <2>3. ASSUME NEW o \in Cases, CreateCase(o) PROVE FALSE
    <3> DEFINE sup == Superseded(o)
               new == [NoCase EXCEPT !.status = "pending"]
    <3>1. new.status = "pending" BY DEF NoCase
    <3>2. \A i \in Cases : sup[i].status = "verified" => case[i].status = "verified"
      BY <2>0 DEF Superseded, CaseFile
    <3>3. sup \in [Cases -> CaseFile] BY SupersededType DEF DeletionInv
    <3>4. case' = [sup EXCEPT ![o] = new] BY <2>3 DEF CreateCase
    <3> HIDE DEF sup, new
    <3> QED BY <3>1, <3>2, <3>3, <3>4
  <2>4. ASSUME NEW o \in Cases, StartChallenge(o) \/ CodeExpires(o) PROVE FALSE
    BY <2>0, <2>4 DEF StartChallenge, CodeExpires, CaseFile
  <2>5. CASE AdminDeletes
    BY <2>0, <2>1, <2>5 DEF AdminDeletes, CaseFile
  <2>6. CASE AdminCompletes
    BY <2>0, <2>6 DEF AdminCompletes, CaseFile
  <2>7. ASSUME NEW w \in SyncWrites, AllowWrite(w) \/ TouchUser(w) \/ CommitWrite(w) PROVE FALSE
    BY <2>1, <2>7 DEF AllowWrite, TouchUser, CommitWrite
  <2>8. CASE \/ SignInFinds \/ SignInCaptures \/ SignInOpensSession
             \/ AppDeletes \/ ExchangeCode \/ SaveToken
    BY <2>1, <2>8 DEF SignInFinds, SignInCaptures, SignInOpensSession, AppDeletes,
                      ExchangeCode, SaveToken
  <2>9. ASSUME NEW d \in Deletions,
               \/ ReadToken(d) \/ Revoke(d) \/ DeletionStops(d)
               \/ BeginDeletion(d) \/ RemoveUser(d) \/ CommitDeletion(d)
        PROVE  FALSE
    BY <2>1, <2>9 DEF ReadToken, Revoke, DeletionStops, BeginDeletion, RemoveUser, CommitDeletion
  <2> QED BY <2>2, <2>3, <2>4, <2>5, <2>6, <2>7, <2>8, <2>9 DEF DeletionNext
<1> QED BY <1>1, DeletionInitially, DeletionStep, PTL DEF DeletionSpec, NewestCodeVerifies
=============================================================================

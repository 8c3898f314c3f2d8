---------------------------- MODULE JobQueue_proofs ----------------------------
(* Proofs about JobQueue, for every set of jobs and processes and every bound. *)
EXTENDS JobQueue, TLAPS

USE DEF procVars

-----------------------------------------------------------------------------
(* Every variable keeps its type, whatever the processes do. *)
THEOREM TypeCorrect == Spec => []TypeOK
<1>1. Init => TypeOK
  BY ConstantsAssumption DEF Init, TypeOK, Row, Status, Lease, IdlePoll, Poll
<1>2. TypeOK /\ [Next]_vars => TypeOK'
  <2> SUFFICES ASSUME TypeOK, [Next]_vars PROVE TypeOK'
    OBVIOUS
  <2> USE DEF TypeOK, Row, Status, Lease
  <2>1. ASSUME NEW j \in Jobs, NEW k \in Keys \cup {NoKey}, NEW due \in BOOLEAN, Enqueue(j, k, due) PROVE TypeOK'
    BY <2>1 DEF Enqueue, Queued
  <2>2. ASSUME NEW w \in Workers, NEW p \in Periods, NEW j \in Jobs, TickSchedules(w, p, j) PROVE TypeOK'
    BY <2>2 DEF TickSchedules, EnqueueOnce, Queued
  <2>3. ASSUME NEW j \in Jobs, Prune(j) \/ BecomeDue(j) \/ LeaseLapses(j) PROVE TypeOK'
    <3>1. CASE Prune(j) BY ZenonT(60), <3>1 DEF Prune
    <3>2. CASE BecomeDue(j) BY ZenonT(60), <3>2 DEF BecomeDue
    <3>3. CASE LeaseLapses(j) BY ZenonT(60), <3>3 DEF LeaseLapses
    <3> QED BY <2>3, <3>1, <3>2, <3>3
  <2>4. ASSUME NEW w \in Workers, NEW s \in Slots, PollBegins(w, s) \/ PollFails(w, s) PROVE TypeOK'
    <3>1. CASE PollBegins(w, s) BY <3>1 DEF PollBegins, Poll
    <3>2. CASE PollFails(w, s) BY <3>2 DEF PollFails, Poll, IdlePoll
    <3> QED BY <2>4, <3>1, <3>2
  <2>5. ASSUME NEW w \in Workers, NEW s \in Slots, BuryExhausted(w, s) PROVE TypeOK'
    <3>1. row' \in [Jobs -> Row]
      BY ZenonT(60), <2>5 DEF BuryExhausted
    <3>2. poll' \in [Workers \X Slots -> Poll]
      BY <2>5 DEF BuryExhausted, Poll
    <3> QED BY <2>5, <3>1, <3>2 DEF BuryExhausted
  <2>6. ASSUME NEW S \in SUBSET Jobs, Claimed(S)
        PROVE row' \in [Jobs -> Row] /\ claims' \in [Jobs -> Nat]
    BY <2>6 DEF Claimed
  <2>7. ASSUME NEW w \in Workers, NEW s \in Slots, NEW S \in SUBSET Jobs, Claim(w, s, S) PROVE TypeOK'
    <3>1. {[j |-> j, att |-> row[j].attempts + 1, n |-> claims[j] + 1] : j \in S} \subseteq ClaimRec
      BY DEF ClaimRec
    <3> QED BY <2>6, <2>7, <3>1 DEF Claim, Poll
  <2>8. ASSUME NEW w \in Workers, NEW s \in Slots, NEW S \in SUBSET Jobs, ClaimAnswerLost(w, s, S) PROVE TypeOK'
    BY <2>6, <2>8 DEF ClaimAnswerLost, Poll, IdlePoll
  <2>9. ASSUME NEW w \in Workers, NEW s \in Slots, StartRuns(w, s) PROVE TypeOK'
    <3>1. poll[<<w, s>>].got \subseteq ClaimRec
      BY DEF Poll
    <3> QED BY <2>9, <3>1 DEF StartRuns, Poll, IdlePoll, Run, ClaimRec
  <2>10. ASSUME NEW r \in runs, Heartbeat(r) PROVE TypeOK'
    BY ZenonT(60), <2>10 DEF Heartbeat, Run
  <2>11. ASSUME NEW r \in runs, NEW ph \in {"ok", "error"}, HandlerEnds(r, ph) PROVE TypeOK'
    BY <2>11 DEF HandlerEnds, Run
  <2>12. ASSUME NEW r \in runs, Finish(r) \/ FinishFails(r) PROVE TypeOK'
    <3>1. Outcome(r) \in Row
      <4>1. r.j \in Jobs /\ row[r.j] \in Row
        BY DEF Run
      <4>2. /\ [row[r.j] EXCEPT !.status = "done", !.lease = "none"] \in Row
            /\ [row[r.j] EXCEPT !.status = "dead", !.lease = "none"] \in Row
            /\ [row[r.j] EXCEPT !.status = "queued", !.due = FALSE, !.lease = "none"] \in Row
        BY <4>1
      <4> QED BY <4>2 DEF Outcome
    <3>2. row' \in [Jobs -> Row] /\ RunOver(r)
      BY <2>12, <3>1 DEF Finish, FinishFails
    <3> QED BY <3>2 DEF RunOver, Run
  <2>13. ASSUME NEW w \in Workers, StopBegins(w) \/ Boot(w) PROVE TypeOK'
    <3>1. CASE StopBegins(w) BY <3>1 DEF StopBegins
    <3>2. CASE Boot(w) BY <3>2 DEF Boot
    <3> QED BY <2>13, <3>1, <3>2
  <2>14. ASSUME NEW w \in Workers, StopHandsBack(w) PROVE TypeOK'
    <3>1. \A j \in Jobs : HandedBack(j) \in Row
      BY DEF HandedBack
    <3> QED BY <2>14, <3>1 DEF StopHandsBack
  <2>15. ASSUME NEW w \in Workers, Exit(w) \/ Crash(w) PROVE TypeOK'
    <3>1. Gone(w) /\ crashes' \in Nat
      BY <2>15 DEF Exit, Crash
    <3> QED BY <3>1 DEF Gone, Poll, IdlePoll
  <2>16. CASE UNCHANGED vars
    BY <2>16 DEF vars
  <2> HIDE DEF TypeOK, Row, Status, Lease
  <2> QED
    BY <2>1, <2>2, <2>3, <2>4, <2>5, <2>7, <2>8, <2>9, <2>10, <2>11, <2>12, <2>13, <2>14, <2>15, <2>16 DEF Next
<1> QED BY <1>1, <1>2, PTL DEF Spec

-----------------------------------------------------------------------------
(* The attempt number of a row, and the one a run or a returned claim carries, never        *)
(* exceed the number of claims really made: handing back only lowers them.                  *)
AttemptsInv ==
  /\ \A j \in Jobs : row[j].attempts <= claims[j]
  /\ \A r \in runs : r.att <= r.n /\ r.n <= claims[r.j]
  /\ \A p \in Workers \X Slots : \A c \in poll[p].got : c.att <= c.n /\ c.n <= claims[c.j]
  /\ DeadOnlyAfterAllAttempts

LEMMA AttemptsStep == TypeOK /\ AttemptsInv /\ [Next]_vars => AttemptsInv'
<1> SUFFICES ASSUME TypeOK, AttemptsInv, [Next]_vars PROVE AttemptsInv'
  OBVIOUS
<1> USE ConstantsAssumption DEF AttemptsInv, DeadOnlyAfterAllAttempts
<1>t. /\ row \in [Jobs -> Row] /\ claims \in [Jobs -> Nat] /\ runs \subseteq Run
      /\ poll \in [Workers \X Slots -> Poll]
  BY DEF TypeOK
<1>1. ASSUME NEW j \in Jobs, NEW k \in Keys \cup {NoKey}, NEW due \in BOOLEAN, Enqueue(j, k, due) PROVE AttemptsInv'
  BY <1>1, <1>t DEF Enqueue, Queued, Row
<1>2. ASSUME NEW w \in Workers, NEW p \in Periods, NEW j \in Jobs, TickSchedules(w, p, j) PROVE AttemptsInv'
  BY <1>2, <1>t DEF TickSchedules, EnqueueOnce, Queued, Row
<1>3. ASSUME NEW j \in Jobs, Prune(j) \/ BecomeDue(j) \/ LeaseLapses(j) PROVE AttemptsInv'
  <2>1. \A i \in Jobs : row'[i].attempts = row[i].attempts
    BY <1>3, <1>t DEF Prune, BecomeDue, LeaseLapses, Row
  <2>2. \A i \in Jobs : row'[i].status = "dead" => row[i].status = "dead"
    BY <1>3, <1>t DEF Prune, BecomeDue, LeaseLapses, Row
  <2>3. runs' = runs /\ poll' = poll /\ claims' = claims
    BY <1>3 DEF Prune, BecomeDue, LeaseLapses
  <2> QED BY <2>1, <2>2, <2>3
<1>4. ASSUME NEW w \in Workers, NEW s \in Slots, PollBegins(w, s) \/ PollFails(w, s) PROVE AttemptsInv'
  <2>1. \A p \in Workers \X Slots : poll'[p].got \subseteq poll[p].got
    <3>1. CASE PollBegins(w, s) BY <3>1, <1>t DEF PollBegins, Poll
    <3>2. CASE PollFails(w, s) BY <3>2, <1>t DEF PollFails, IdlePoll
    <3> QED BY <1>4, <3>1, <3>2
  <2> QED BY <1>4, <2>1 DEF PollBegins, PollFails
<1>5. ASSUME NEW w \in Workers, NEW s \in Slots, BuryExhausted(w, s) PROVE AttemptsInv'
  <2>1. \A j \in Jobs : row'[j].attempts = row[j].attempts
    BY <1>5, <1>t DEF BuryExhausted, Row
  <2>2. \A j \in Jobs : row'[j].status = "dead" => row[j].status = "dead" \/ row[j].attempts >= MaxAttempts
    BY <1>5, <1>t DEF BuryExhausted, Exhausted, Row
  <2>3. \A j \in Jobs : row[j].attempts \in Nat /\ claims[j] \in Nat
    BY <1>t DEF Row
  <2>4. \A p \in Workers \X Slots : poll'[p].got = poll[p].got
    BY <1>5, <1>t DEF BuryExhausted, Poll
  <2> QED BY <1>5, <2>1, <2>2, <2>3, <2>4 DEF BuryExhausted
<1>6. ASSUME NEW S \in SUBSET Jobs, Claimed(S)
      PROVE \A j \in Jobs : /\ row'[j].attempts <= claims'[j] /\ claims[j] <= claims'[j]
                            /\ row'[j].status = "dead" => claims'[j] >= MaxAttempts
  BY <1>6, <1>t DEF Claimed, Row
<1>7. ASSUME NEW w \in Workers, NEW s \in Slots, NEW S \in SUBSET Jobs, Claim(w, s, S) PROVE AttemptsInv'
  <2>1. Claimed(S) /\ runs' = runs
    BY <1>7 DEF Claim
  <2>2. \A r \in runs : r.att <= r.n /\ r.n <= claims'[r.j]
    BY <1>6, <2>1, <1>t DEF Run, Claimed
  <2>3. ASSUME NEW p \in Workers \X Slots, NEW c \in poll'[p].got PROVE c.att <= c.n /\ c.n <= claims'[c.j]
    <3>1. CASE p = <<w, s>>
      <4>1. PICK j \in S : c = [j |-> j, att |-> row[j].attempts + 1, n |-> claims[j] + 1]
        BY <1>7, <1>t, <2>3, <3>1 DEF Claim
      <4>2. claims'[j] = claims[j] + 1 /\ row[j].attempts \in Nat /\ claims[j] \in Nat
        BY <2>1, <1>t DEF Claimed, Row
      <4> QED BY <4>1, <4>2
    <3>2. CASE p # <<w, s>>
      <4>1. c \in poll[p].got /\ c \in ClaimRec
        BY <1>7, <1>t, <2>3, <3>2 DEF Claim, Poll
      <4>2. claims[c.j] <= claims'[c.j] /\ claims'[c.j] \in Nat
        BY <4>1, <1>6, <2>1, <1>t DEF ClaimRec, Claimed
      <4> QED BY <4>1, <4>2, <1>t DEF ClaimRec
    <3> QED BY <3>1, <3>2
  <2> QED BY <1>6, <2>1, <2>2, <2>3
<1>8. ASSUME NEW w \in Workers, NEW s \in Slots, NEW S \in SUBSET Jobs, ClaimAnswerLost(w, s, S) PROVE AttemptsInv'
  <2>1. Claimed(S) /\ runs' = runs /\ \A p \in Workers \X Slots : poll'[p].got \subseteq poll[p].got
    BY <1>8, <1>t DEF ClaimAnswerLost, IdlePoll
  <2>2. \A r \in runs : r.att <= r.n /\ r.n <= claims'[r.j]
    BY <1>6, <2>1, <1>t DEF Run, Claimed
  <2>3. ASSUME NEW p \in Workers \X Slots, NEW c \in poll[p].got PROVE c.att <= c.n /\ c.n <= claims'[c.j]
    <3>1. c \in ClaimRec
      BY <1>t DEF Poll
    <3>2. claims[c.j] <= claims'[c.j] /\ claims'[c.j] \in Nat
      BY <3>1, <1>6, <2>1, <1>t DEF ClaimRec, Claimed
    <3> QED BY <3>1, <3>2, <1>t DEF ClaimRec
  <2> QED BY <1>6, <2>1, <2>2, <2>3
<1>9. ASSUME NEW w \in Workers, NEW s \in Slots, StartRuns(w, s) PROVE AttemptsInv'
  BY <1>9, <1>t DEF StartRuns, IdlePoll
<1>10. ASSUME NEW r \in runs, Heartbeat(r) PROVE AttemptsInv'
  BY <1>10, <1>t DEF Heartbeat, Run, Row
<1>11. ASSUME NEW r \in runs, NEW ph \in {"ok", "error"}, HandlerEnds(r, ph) PROVE AttemptsInv'
  BY <1>11, <1>t DEF HandlerEnds, Run
<1>12. ASSUME NEW r \in runs, Finish(r) PROVE AttemptsInv'
  <2>1. \A j \in Jobs : row'[j].attempts = row[j].attempts
    BY <1>12, <1>t DEF Finish, Outcome, Run, Row
  <2>2. \A j \in Jobs : row'[j].status = "dead" => row[j].status = "dead" \/ (j = r.j /\ r.att >= MaxAttempts)
    BY <1>12, <1>t DEF Finish, Outcome, Run, Row
  <2>3. r.j \in Jobs /\ r.att \in Nat /\ r.n \in Nat /\ claims[r.j] \in Nat
    BY <1>t DEF Run
  <2> QED BY <1>12, <2>1, <2>2, <2>3 DEF Finish, RunOver
<1>13. ASSUME NEW r \in runs, FinishFails(r) PROVE AttemptsInv'
  BY <1>13 DEF FinishFails, RunOver
<1>14. ASSUME NEW w \in Workers, StopBegins(w) \/ Boot(w) PROVE AttemptsInv'
  BY <1>14 DEF StopBegins, Boot
<1>15. ASSUME NEW w \in Workers, StopHandsBack(w) PROVE AttemptsInv'
  <2>1. \A j \in Jobs : row'[j].attempts <= row[j].attempts /\ row'[j].attempts \in Nat /\ row[j].attempts \in Nat
    BY <1>15, <1>t DEF StopHandsBack, HandedBack, Row
  <2>2. \A j \in Jobs : row'[j].status = "dead" => row[j].status = "dead"
    BY <1>15, <1>t DEF StopHandsBack, HandedBack, Row
  <2> QED BY <1>15, <1>t, <2>1, <2>2 DEF StopHandsBack
<1>16. ASSUME NEW w \in Workers, Exit(w) \/ Crash(w) PROVE AttemptsInv'
  BY <1>16, <1>t DEF Exit, Crash, Gone, IdlePoll
<1>17. CASE UNCHANGED vars
  BY <1>17 DEF vars
<1> QED
  BY <1>1, <1>2, <1>3, <1>4, <1>5, <1>7, <1>8, <1>9, <1>10, <1>11, <1>12, <1>13, <1>14, <1>15, <1>16, <1>17 DEF Next

(* A job is dead only after max_attempts claims of it, in every behaviour with any number   *)
(* of stops, crashes and stale runs.                                                        *)
THEOREM DeadAfterAllAttempts == Spec => []DeadOnlyAfterAllAttempts
<1>1. Init => AttemptsInv
  BY DEF Init, AttemptsInv, DeadOnlyAfterAllAttempts, IdlePoll
<1>2. AttemptsInv => DeadOnlyAfterAllAttempts
  BY DEF AttemptsInv
<1> QED BY <1>1, <1>2, TypeCorrect, AttemptsStep, PTL DEF Spec

-----------------------------------------------------------------------------
(* For a job no stop has handed back, only the latest claim ever writes its outcome: a run  *)
(* whose lease lapsed and whose job was claimed again changes nothing when it ends.         *)
THEOREM LatestClaimDecides == Spec => FencedUntilHandedBack
<1>1. Init => AttemptsInv
  BY DEF Init, AttemptsInv, DeadOnlyAfterAllAttempts, IdlePoll
<1>2. TypeOK /\ AttemptsInv /\ [Next]_vars
      => [\A r \in runs \ runs' :
            EveryAttemptKept(r.j) /\ row'[r.j] # row[r.j] => r.n = claims[r.j]]_vars
  <2> SUFFICES ASSUME TypeOK, AttemptsInv, Next, NEW r \in runs \ runs',
                      EveryAttemptKept(r.j), row'[r.j] # row[r.j]
               PROVE r.n = claims[r.j]
    BY DEF vars
  <2>t. /\ r \in Run /\ claims \in [Jobs -> Nat]
        /\ r.att <= r.n /\ r.n <= claims[r.j]
    BY DEF TypeOK, AttemptsInv
  <2>1. ASSUME NEW q \in runs, Finish(q) PROVE r.n = claims[r.j]
    <3>1. r = q /\ Mine(r)
      BY <2>1 DEF Finish, RunOver
    <3>2. r.att = claims[r.j]
      BY <3>1 DEF Mine, EveryAttemptKept
    <3> QED BY <3>2, <2>t DEF Run
  <2>2. CASE runs' = runs \/ row' = row
    BY <2>2
  <2>3. ASSUME NEW w \in Workers, NEW s \in Slots, StartRuns(w, s) PROVE FALSE
    BY <2>3 DEF StartRuns
  <2> QED
    BY <2>1, <2>2, <2>3 DEF Next, Enqueue, TickSchedules, Prune, procVars, BecomeDue, LeaseLapses, PollBegins,
       PollFails, BuryExhausted, Claim, ClaimAnswerLost, Heartbeat, HandlerEnds, FinishFails,
       StopBegins, StopHandsBack, Exit, Crash, Gone, Boot
<1> QED BY <1>1, <1>2, TypeCorrect, AttemptsStep, PTL DEF Spec, FencedUntilHandedBack

-----------------------------------------------------------------------------
(* What any step but the enqueueing ones may do to a row: it keeps its key, none comes to   *)
(* life again, none is forgotten, what is finished stays so until it is pruned, and "done"  *)
(* is written by a run that returned.                                                       *)
Finished == {"done", "dead", "pruned"}
Moves(j) ==
  /\ row'[j].key = row[j].key
  /\ row'[j].status \in {"queued", "running"} => Live(j)
  /\ row'[j].status = "absent" => row[j].status = "absent"
  /\ row[j].status \in Finished => row'[j].status \in {row[j].status, "pruned"}
  /\ row'[j].status = "done" => row[j].status = "done" \/ \E r \in runs : r.j = j /\ r.ph = "ok"

Enqueues == \/ \E j \in Jobs, k \in Keys \cup {NoKey}, due \in BOOLEAN : Enqueue(j, k, due)
            \/ \E w \in Workers, p \in Periods, j \in Jobs : TickSchedules(w, p, j)

LEMMA RowsMove == TypeOK /\ [Next]_vars => Enqueues \/ \A j \in Jobs : Moves(j)
<1> SUFFICES ASSUME TypeOK, [Next]_vars, ~Enqueues PROVE \A j \in Jobs : Moves(j)
  OBVIOUS
<1>t. row \in [Jobs -> Row] /\ runs \subseteq Run
  BY DEF TypeOK
<1> USE DEF Live, Moves, Finished
<1>1. CASE row' = row
  BY <1>1, <1>t
<1>2. ASSUME NEW i \in Jobs, Prune(i) \/ BecomeDue(i) \/ LeaseLapses(i) PROVE \A j \in Jobs : Moves(j)
  <2>1. CASE Prune(i) BY <2>1, <1>t DEF Prune, Row
  <2>2. CASE BecomeDue(i) BY <2>2, <1>t DEF BecomeDue, Row
  <2>3. CASE LeaseLapses(i) BY <2>3, <1>t DEF LeaseLapses, Row
  <2> QED BY <1>2, <2>1, <2>2, <2>3
<1>3. ASSUME NEW w \in Workers, NEW s \in Slots, BuryExhausted(w, s) PROVE \A j \in Jobs : Moves(j)
  <2>1. \A j \in Jobs : row'[j] = row[j] \/ (Exhausted(j) /\ row'[j] = [row[j] EXCEPT !.status = "dead"])
    BY <1>3 DEF BuryExhausted
  <2> QED BY ZenonT(60), <2>1, <1>t DEF Exhausted, Row
<1>4. ASSUME NEW w \in Workers, NEW s \in Slots, NEW S \in SUBSET Jobs, Claim(w, s, S) \/ ClaimAnswerLost(w, s, S)
      PROVE \A j \in Jobs : Moves(j)
  <2>1. Claimed(S) /\ \A j \in S : Claimable(j)
    BY <1>4 DEF Claim, ClaimAnswerLost, ClaimSet
  <2>2. \A j \in Jobs : row'[j] = row[j] \/ (Claimable(j) /\ row'[j].status = "running" /\ row'[j].key = row[j].key)
    BY <2>1 DEF Claimed
  <2> QED BY <2>2, <1>t DEF Claimable
<1>5. ASSUME NEW r \in runs, Heartbeat(r) PROVE \A j \in Jobs : Moves(j)
  BY <1>5, <1>t DEF Heartbeat, Mine, Run, Row
<1>6. ASSUME NEW r \in runs, Finish(r), row' # row PROVE \A j \in Jobs : Moves(j)
  <2>1. Mine(r) /\ r.j \in Jobs /\ r.ph # "working" /\ row' = [row EXCEPT ![r.j] = Outcome(r)]
    BY <1>6, <1>t DEF Finish, Run
  <2>2. /\ Outcome(r).key = row[r.j].key /\ Outcome(r).status \in {"done", "dead", "queued"}
        /\ Outcome(r).status = "done" => r.ph = "ok"
    BY <2>1, <1>t DEF Outcome, Row
  <2>3. row[r.j].status = "running"
    BY <2>1 DEF Mine
  <2>4. \A j \in Jobs : row'[j] = row[j] \/ (j = r.j /\ row'[j] = Outcome(r))
    BY <2>1, <1>t
  <2> QED BY <2>2, <2>3, <2>4, <1>t
<1>7. ASSUME NEW w \in Workers, StopHandsBack(w) PROVE \A j \in Jobs : Moves(j)
  <2>1. \A j \in Jobs : row'[j] = row[j] \/ (row[j].status = "running" /\ row'[j] = HandedBack(j))
    BY <1>7 DEF StopHandsBack
  <2>2. \A j \in Jobs : HandedBack(j).status = "queued" /\ HandedBack(j).key = row[j].key
    BY DEF HandedBack
  <2> QED BY <2>1, <2>2, <1>t
<1> QED
  BY <1>1, <1>2, <1>3, <1>4, <1>5, <1>6, <1>7 DEF Next, Enqueues, vars, PollBegins, PollFails, StartRuns, HandlerEnds, FinishFails,
     StopBegins, Exit, Crash, Gone, Boot

Queues(i) == /\ row[i].status = "absent" /\ row'[i].status = "queued"
             /\ row'[i].key # NoKey => \A j \in Jobs : row[j].key = row'[i].key => ~Live(j)
             /\ \A j \in Jobs : j # i => row'[j] = row[j]
             /\ UNCHANGED <<runs, succeeded>>

LEMMA EnqueueMoves == ASSUME TypeOK, Enqueues PROVE \E i \in Jobs : Queues(i)
<1>t. row \in [Jobs -> Row]
  BY DEF TypeOK
<1>1. ASSUME NEW i \in Jobs, NEW k, NEW due, row[i].status = "absent", row' = [row EXCEPT ![i] = Queued(k, due)],
             k # NoKey => \A j \in Jobs : row[j].key = k => ~Live(j), UNCHANGED <<runs, succeeded>>
      PROVE Queues(i)
  <2>1. row'[i] = Queued(k, due) /\ \A j \in Jobs : j # i => row'[j] = row[j]
    BY <1>1, <1>t
  <2>2. row'[i].status = "queued" /\ row'[i].key = k
    BY <2>1 DEF Queued
  <2> QED BY <1>1, <2>1, <2>2 DEF Queues
<1>2. ASSUME NEW j \in Jobs, NEW k \in Keys \cup {NoKey}, NEW due \in BOOLEAN, Enqueue(j, k, due) PROVE Queues(j)
  <2>1. /\ row[j].status = "absent" /\ row' = [row EXCEPT ![j] = Queued(k, due)] /\ UNCHANGED <<runs, succeeded>>
        /\ k # NoKey => \A d \in Jobs : row[d].key = k => ~Live(d)
    BY <1>2 DEF Enqueue, KeyFree
  <2> QED BY <1>1, <2>1
<1>3. ASSUME NEW w \in Workers, NEW p \in Periods, NEW j \in Jobs, TickSchedules(w, p, j) PROVE Queues(j)
  <2>1. row[j].status = "absent" /\ row' = [row EXCEPT ![j] = Queued(NoKey, TRUE)] /\ UNCHANGED <<runs, succeeded>>
    BY <1>3 DEF TickSchedules, EnqueueOnce
  <2> QED BY <1>1, <2>1
<1> QED BY <1>2, <1>3 DEF Enqueues

(* FinishedIsTrueAndFinal: a job is done only when a run of its handler returned, and what  *)
(* is finished stays finished, whatever lapses, stops and stale runs come after.            *)
OkRunsSucceeded == \A r \in runs : r.ph = "ok" => r.j \in succeeded

LEMMA OkRunsKept == TypeOK /\ OkRunsSucceeded /\ [Next]_vars => OkRunsSucceeded' /\ succeeded \subseteq succeeded'
<1> SUFFICES ASSUME TypeOK, OkRunsSucceeded, [Next]_vars PROVE OkRunsSucceeded' /\ succeeded \subseteq succeeded'
  OBVIOUS
<1> USE DEF OkRunsSucceeded
<1>1. CASE UNCHANGED <<runs, succeeded>>
  BY <1>1
<1>2. ASSUME NEW w \in Workers, NEW s \in Slots, StartRuns(w, s) PROVE OkRunsSucceeded' /\ succeeded' = succeeded
  BY <1>2 DEF StartRuns
<1>3. ASSUME NEW r \in runs, NEW ph \in {"ok", "error"}, HandlerEnds(r, ph)
      PROVE OkRunsSucceeded' /\ succeeded \subseteq succeeded'
  <2>0. r \in Run
    BY DEF TypeOK
  <2>1. [r EXCEPT !.ph = ph].ph = ph /\ [r EXCEPT !.ph = ph].j = r.j
    BY <2>0 DEF Run
  <2> QED BY <1>3, <2>1 DEF HandlerEnds
<1>4. CASE runs' \subseteq runs /\ succeeded' = succeeded
  BY <1>4
<1>5. ASSUME NEW r \in runs, Finish(r) \/ FinishFails(r) PROVE runs' \subseteq runs /\ succeeded' = succeeded
  BY <1>5 DEF Finish, FinishFails, RunOver
<1>6. ASSUME NEW w \in Workers, Exit(w) \/ Crash(w) PROVE runs' \subseteq runs /\ succeeded' = succeeded
  BY <1>6 DEF Exit, Crash, Gone
<1> QED
  BY <1>1, <1>2, <1>3, <1>4, <1>5, <1>6 DEF Next, vars, Enqueue, TickSchedules, Prune, BecomeDue, LeaseLapses, PollBegins,
     PollFails, BuryExhausted, Claim, ClaimAnswerLost, Heartbeat, StopBegins, StopHandsBack, Boot

THEOREM FinishedForGood == Spec => FinishedIsTrueAndFinal
<1> DEFINE I == OkRunsSucceeded /\ DoneOnlyIfHandled
<1>1. Init => I
  BY DEF Init, OkRunsSucceeded, DoneOnlyIfHandled
<1>2. TypeOK /\ I /\ [Next]_vars => I' /\ \A j \in Jobs : row[j].status \in Finished => row'[j].status \in {row[j].status, "pruned"}
  <2> SUFFICES ASSUME TypeOK, I, [Next]_vars
               PROVE  I' /\ \A j \in Jobs : row[j].status \in Finished => row'[j].status \in {row[j].status, "pruned"}
    OBVIOUS
  <2>1. OkRunsSucceeded' /\ succeeded \subseteq succeeded'
    BY OkRunsKept
  <2>2. CASE \A j \in Jobs : Moves(j)
    BY <2>1, <2>2 DEF Moves, DoneOnlyIfHandled, OkRunsSucceeded
  <2>3. CASE Enqueues
    <3>1. PICK i \in Jobs : /\ row[i].status = "absent" /\ row'[i].status = "queued"
                            /\ \A j \in Jobs : j # i => row'[j] = row[j]
      BY <2>3, EnqueueMoves DEF Queues
    <3>2. \A j \in Jobs : row'[j].status = "done" => row[j].status = "done"
      BY <3>1
    <3> QED BY <2>1, <3>1, <3>2 DEF DoneOnlyIfHandled, Finished
  <2> QED BY <2>2, <2>3, RowsMove
<1> QED BY <1>1, <1>2, TypeCorrect, PTL DEF Spec, FinishedIsTrueAndFinal, Finished

-----------------------------------------------------------------------------
(* A period is recorded for the job it queued, and a row not yet queued has none. *)
PeriodsRecorded ==
  \A j \in Jobs : /\ row[j].status = "absent" => periodOf[j] = NoPeriod
                  /\ periodOf[j] # NoPeriod => periodOf[j] \in scheduleRuns

(* NoDuplicateWork: two live jobs never share a unique key, and a period is queued once.    *)
THEOREM NeverTwice == Spec => []NoDuplicateWork
<1> DEFINE I == NoDuplicateWork /\ PeriodsRecorded
<1>1. Init => I
  BY DEF Init, NoDuplicateWork, PeriodsRecorded, Live
<1>2. TypeOK /\ I /\ [Next]_vars => I'
  <2> SUFFICES ASSUME TypeOK, I, [Next]_vars PROVE I'
    OBVIOUS
  <2>t. periodOf \in [Jobs -> Periods \cup {NoPeriod}] /\ row \in [Jobs -> Row]
    BY DEF TypeOK
  <2>1. CASE \A j \in Jobs : Moves(j)
    <3>1. CASE UNCHANGED <<scheduleRuns, periodOf>>
      BY <2>1, <3>1 DEF Moves, NoDuplicateWork, PeriodsRecorded, Live
    <3>2. CASE Enqueues
      <4>1. PICK i \in Jobs : row[i].status = "absent" /\ row'[i].status = "queued"
        BY <3>2, EnqueueMoves DEF Queues
      <4> QED BY <2>1, <4>1 DEF Moves, Live
    <3> QED
      BY <3>1, <3>2 DEF Next, Enqueues, vars, procVars, Prune, BecomeDue, LeaseLapses, PollBegins, BuryExhausted, Claim, ClaimAnswerLost,
         PollFails, StartRuns, Heartbeat, HandlerEnds, Finish, FinishFails, RunOver, StopBegins, StopHandsBack, Exit, Crash,
         Gone, Boot
  <2>2. CASE Enqueues
    <3>1. PICK i \in Jobs : /\ row[i].status = "absent" /\ row'[i].status = "queued"
                            /\ row'[i].key # NoKey => \A j \in Jobs : row[j].key = row'[i].key => ~Live(j)
                            /\ \A j \in Jobs : j # i => row'[j] = row[j]
      BY <2>2, EnqueueMoves DEF Queues
    <3>2. \A j, k \in Jobs : j # k /\ row'[j].key = row'[k].key /\ row'[j].key # NoKey => ~(Live(j)' /\ Live(k)')
      BY <3>1 DEF NoDuplicateWork, Live
    <3>3. /\ \A j \in Jobs : periodOf'[j] = periodOf[j] \/ (periodOf'[j] \notin scheduleRuns /\ periodOf'[j] \in scheduleRuns')
          /\ \A j, k \in Jobs : j # k => periodOf'[j] = periodOf[j] \/ periodOf'[k] = periodOf[k]
          /\ \A j \in Jobs : row'[j].status = "absent" => periodOf'[j] = periodOf[j]
          /\ scheduleRuns \subseteq scheduleRuns'
      <4>1. CASE \E j \in Jobs, k \in Keys \cup {NoKey}, due \in BOOLEAN : Enqueue(j, k, due)
        BY <4>1 DEF Enqueue
      <4>2. ASSUME NEW w \in Workers, NEW p \in Periods, NEW d \in Jobs, TickSchedules(w, p, d)
            PROVE /\ p \notin scheduleRuns /\ scheduleRuns' = scheduleRuns \cup {p} /\ periodOf' = [periodOf EXCEPT ![d] = p]
                  /\ row'[d].status = "queued"
        BY <4>2, <2>t DEF TickSchedules, EnqueueOnce, Queued
      <4> QED BY <2>2, <2>t, <4>1, <4>2 DEF Enqueues
    <3>4. PeriodsRecorded'
      BY <3>1, <3>3 DEF PeriodsRecorded
    <3>5. \A j, k \in Jobs : j # k /\ periodOf'[j] = periodOf'[k] => periodOf'[j] = NoPeriod
      BY <3>3 DEF PeriodsRecorded, NoDuplicateWork
    <3> QED BY <3>2, <3>4, <3>5 DEF NoDuplicateWork
  <2> QED BY <2>1, <2>2, RowsMove
<1> QED BY <1>1, <1>2, TypeCorrect, PTL DEF Spec
=============================================================================

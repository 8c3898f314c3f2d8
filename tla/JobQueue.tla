------------------------------- MODULE JobQueue -------------------------------
(***************************************************************************)
(* The background job queue: rows of the jobs table, the worker of every   *)
(* API process that claims and runs them, and the enqueueing side          *)
(* (apps/api/src/jobs: worker.ts, queue.ts, schedule.ts).                  *)
(*                                                                         *)
(* Wall-clock time is abstracted to the two things the code compares it    *)
(* with: whether a queued row is due (run_at <= now) and whether a running *)
(* row's lease has lapsed (locked_until < now).  A database statement is   *)
(* one step; everything between two awaits of a worker is one step.        *)
(***************************************************************************)
EXTENDS Naturals, FiniteSets

CONSTANTS
  Jobs,         \* ids a job row may have
  Workers,      \* processes that run a worker (API instances, worker services)
  Slots,        \* polls one process may have in flight: a timer starts one every pollMs
  Keys,         \* the unique keys in use
  NoKey,        \* a job without one
  Periods,      \* scheduled periods, the keys of job_schedule_runs
  NoPeriod,
  Concurrency,  \* WORKER_CONCURRENCY
  MaxAttempts,  \* max_attempts of every job
  MaxStops,     \* bound: graceful stops (deploys) in a behaviour
  MaxCrashes,   \* bound: process deaths in a behaviour
  MaxClaims     \* bound: a row whose attempts are used up is claimed again only below it

ASSUME ConstantsAssumption ==
  /\ NoKey \notin Keys
  /\ NoPeriod \notin Periods
  /\ Concurrency \in Nat \ {0}
  /\ MaxAttempts \in Nat \ {0}
  /\ MaxStops \in Nat /\ MaxCrashes \in Nat /\ MaxClaims \in Nat

VARIABLES
  row,          \* row[j]: the jobs row
  scheduleRuns, \* the rows of job_schedule_runs
  periodOf,     \* periodOf[j]: the scheduled period job j was queued for
  proc,         \* proc[w]: "up", "stopping" (in stop()), "stopped", "down"
  running,      \* running[w]: the keys of the worker's `running` map
  unfinished,   \* unfinished[w]: the keys stop() took before it waited
  poll,         \* poll[<<w, s>>]: where a poll in flight is, and the rows its claim returned
  runs,         \* the handler runs alive in the processes
  claims,       \* history: how often job j was claimed
  succeeded,    \* history: jobs of which a handler run returned without throwing
  stops, crashes

vars == <<row, scheduleRuns, periodOf, proc, running, unfinished, poll, runs,
          claims, succeeded, stops, crashes>>
procVars == <<proc, running, unfinished, poll, runs, stops, crashes>>

Status == {"absent", "queued", "running", "done", "dead", "pruned"}
Lease == {"none", "held", "lapsed"}
Row == [status : Status, key : Keys \cup {NoKey}, attempts : Nat, due : BOOLEAN, lease : Lease]

(* A claim as its worker remembers it: the attempt number the row carried when it was       *)
(* returned, and (history) which claim of the job it was.                                   *)
ClaimRec == [j : Jobs, att : Nat, n : Nat]
Run == [w : Workers, j : Jobs, att : Nat, n : Nat, ph : {"working", "ok", "error"}]
Poll == [pc : {"idle", "bury", "claim", "start"}, got : SUBSET ClaimRec]
IdlePoll == [pc |-> "idle", got |-> {}]

TypeOK ==
  /\ row \in [Jobs -> Row]
  /\ scheduleRuns \subseteq Periods
  /\ periodOf \in [Jobs -> Periods \cup {NoPeriod}]
  /\ proc \in [Workers -> {"up", "stopping", "stopped", "down"}]
  /\ running \in [Workers -> SUBSET Jobs]
  /\ unfinished \in [Workers -> SUBSET Jobs]
  /\ poll \in [Workers \X Slots -> Poll]
  /\ runs \subseteq Run
  /\ claims \in [Jobs -> Nat]
  /\ succeeded \subseteq Jobs
  /\ stops \in Nat /\ crashes \in Nat

Init ==
  /\ row = [j \in Jobs |-> [status |-> "absent", key |-> NoKey, attempts |-> 0, due |-> FALSE,
                           lease |-> "none"]]
  /\ scheduleRuns = {}
  /\ periodOf = [j \in Jobs |-> NoPeriod]
  /\ proc = [w \in Workers |-> "up"]
  /\ running = [w \in Workers |-> {}]
  /\ unfinished = [w \in Workers |-> {}]
  /\ poll = [p \in Workers \X Slots |-> IdlePoll]
  /\ runs = {}
  /\ claims = [j \in Jobs |-> 0]
  /\ succeeded = {}
  /\ stops = 0 /\ crashes = 0

-----------------------------------------------------------------------------
(* The enqueueing side. *)

Live(j) == row[j].status \in {"queued", "running"}

Queued(k, due) ==
  [status |-> "queued", key |-> k, attempts |-> 0, due |-> due, lease |-> "none"]

(* Mutant: the unique index covers waiting jobs only. *)
KeyFreeIfNotQueued(k) == k = NoKey \/ \A j \in Jobs : row[j].key = k => row[j].status # "queued"

KeyFree(k) == k = NoKey \/ \A j \in Jobs : row[j].key = k => ~Live(j)

(* enqueue: inserted unless the partial unique index finds a live job of the same key.      *)
(* It runs in the caller's transaction: a rolled-back one is no step.                       *)
Enqueue(j, k, due) ==
  /\ row[j].status = "absent"
  /\ KeyFree(k)
  /\ row' = [row EXCEPT ![j] = Queued(k, due)]
  /\ UNCHANGED <<scheduleRuns, periodOf, claims, succeeded, procVars>>

(* enqueueOnce: the period row and the job commit together, and a period whose row exists    *)
(* queues nothing.                                                                          *)
EnqueueOnce(p, j) ==
  /\ p \notin scheduleRuns
  /\ row[j].status = "absent"
  /\ scheduleRuns' = scheduleRuns \cup {p}
  /\ periodOf' = [periodOf EXCEPT ![j] = p]
  /\ row' = [row EXCEPT ![j] = Queued(NoKey, TRUE)]

(* Any instance that is up, for a period its clock is in. *)
TickSchedules(w, p, j) ==
  /\ proc[w] = "up"
  /\ EnqueueOnce(p, j)
  /\ UNCHANGED <<claims, succeeded, procVars>>

(* pruneJobs: a finished row is deleted (after 14 days, 90 when dead). *)
Prune(j) ==
  /\ row[j].status \in {"done", "dead"}
  /\ row' = [row EXCEPT ![j].status = "pruned"]
  /\ UNCHANGED <<scheduleRuns, periodOf, claims, succeeded, procVars>>

-----------------------------------------------------------------------------
(* Time. *)

BecomeDue(j) ==
  /\ row[j].status = "queued" /\ ~row[j].due
  /\ row' = [row EXCEPT ![j].due = TRUE]
  /\ UNCHANGED <<scheduleRuns, periodOf, claims, succeeded, procVars>>

(* A lease lapses when its holder has not renewed it for LEASE_MS: the holder is dead, its  *)
(* renewals failed, or its event loop stood still.                                          *)
LeaseLapses(j) ==
  /\ row[j].status = "running" /\ row[j].lease = "held"
  /\ row' = [row EXCEPT ![j].lease = "lapsed"]
  /\ UNCHANGED <<scheduleRuns, periodOf, claims, succeeded, procVars>>

-----------------------------------------------------------------------------
(* A worker's poll: poll(), buryExhausted(), claim(). *)

Exhausted(j) == /\ row[j].status = "running" /\ row[j].lease = "lapsed"
                /\ row[j].attempts >= MaxAttempts

(* Mutant: a claim takes queued rows only. *)
ClaimableQueuedOnly(j) == row[j].status = "queued" /\ row[j].due

Claimable(j) == \/ row[j].status = "queued" /\ row[j].due
                \/ row[j].status = "running" /\ row[j].lease = "lapsed"

PollBegins(w, s) ==
  /\ proc[w] = "up"
  /\ poll[<<w, s>>].pc = "idle"
  /\ Cardinality(running[w]) < Concurrency
  /\ poll' = [poll EXCEPT ![<<w, s>>].pc = "bury"]
  /\ UNCHANGED <<row, scheduleRuns, periodOf, claims, succeeded,
                 proc, running, unfinished, runs, stops, crashes>>

BuryExhausted(w, s) ==
  /\ proc[w] # "down"
  /\ poll[<<w, s>>].pc = "bury"
  /\ row' = [j \in Jobs |-> IF Exhausted(j) THEN [row[j] EXCEPT !.status = "dead"] ELSE row[j]]
  /\ poll' = [poll EXCEPT ![<<w, s>>].pc = "claim"]
  /\ UNCHANGED <<scheduleRuns, periodOf, claims, succeeded,
                 proc, running, unfinished, runs, stops, crashes>>

Claimed(S) ==
  /\ row' = [j \in Jobs |-> IF j \in S
               THEN [status |-> "running", key |-> row[j].key, attempts |-> row[j].attempts + 1,
                     due |-> row[j].due, lease |-> "held"]
               ELSE row[j]]
  /\ claims' = [j \in Jobs |-> IF j \in S THEN claims[j] + 1 ELSE claims[j]]

(* One UPDATE over rows picked with SKIP LOCKED: at most concurrency - running.size of the   *)
(* claimable rows, fewer when other statements hold some of them.  It looks at no attempt   *)
(* limit (buryExhausted ran before: a lease that lapses in between is claimed once more,    *)
(* which MaxClaims bounds) and not at `stopping` again.                                     *)
ClaimSet(w, S) ==
  /\ \A j \in S : Claimable(j) /\ (Exhausted(j) => claims[j] < MaxClaims)
  /\ Cardinality(S) + Cardinality(running[w]) <= Concurrency

Claim(w, s, S) ==
  /\ proc[w] # "down"
  /\ poll[<<w, s>>].pc = "claim"
  /\ S = {} \/ ClaimSet(w, S)
  /\ Claimed(S)
  /\ poll' = [poll EXCEPT ![<<w, s>>] =
                [pc |-> "start", got |-> {[j |-> j, att |-> row[j].attempts + 1, n |-> claims[j] + 1] : j \in S}]]
  /\ UNCHANGED <<scheduleRuns, periodOf, succeeded,
                 proc, running, unfinished, runs, stops, crashes>>

(* The statement committed but its answer was lost: 'job poll failed', rows claimed by nobody. *)
ClaimAnswerLost(w, s, S) ==
  /\ proc[w] # "down"
  /\ poll[<<w, s>>].pc = "claim"
  /\ S # {} /\ ClaimSet(w, S)
  /\ Claimed(S)
  /\ poll' = [poll EXCEPT ![<<w, s>>] = IdlePoll]
  /\ UNCHANGED <<scheduleRuns, periodOf, succeeded,
                 proc, running, unfinished, runs, stops, crashes>>

(* A statement of the poll failed before it changed anything. *)
PollFails(w, s) ==
  /\ proc[w] # "down"
  /\ poll[<<w, s>>].pc \in {"bury", "claim"}
  /\ poll' = [poll EXCEPT ![<<w, s>>] = IdlePoll]
  /\ UNCHANGED <<row, scheduleRuns, periodOf, claims, succeeded,
                 proc, running, unfinished, runs, stops, crashes>>

(* The claimed rows reach the process: run() starts each and the map gets its key. *)
StartRuns(w, s) ==
  /\ proc[w] # "down"
  /\ poll[<<w, s>>].pc = "start"
  /\ LET got == poll[<<w, s>>].got IN
       /\ runs' = runs \cup {[w |-> w, j |-> c.j, att |-> c.att, n |-> c.n, ph |-> "working"] : c \in got}
       /\ running' = [running EXCEPT ![w] = @ \cup {c.j : c \in got}]
  /\ poll' = [poll EXCEPT ![<<w, s>>] = IdlePoll]
  /\ UNCHANGED <<row, scheduleRuns, periodOf, claims, succeeded,
                 proc, unfinished, stops, crashes>>

-----------------------------------------------------------------------------
(* One run of a handler: run(), its heartbeat, finish(). *)

(* Mutant: the attempt number is not compared. *)
MineWhileRunning(r) == row[r.j].status = "running"
(* The row still carries the attempt number this run was given. *)
Mine(r) == row[r.j].status = "running" /\ row[r.j].attempts = r.att

Heartbeat(r) ==
  /\ r.ph = "working" /\ Mine(r)
  /\ row[r.j].lease = "lapsed"
  /\ row' = [row EXCEPT ![r.j].lease = "held"]
  /\ UNCHANGED <<scheduleRuns, periodOf, claims, succeeded, procVars>>

(* Mutant: what a handler threw is kept as it is, and a thrown undefined counts as success. *)
HandlerEndsUnguarded(r, ph) ==
  /\ r.ph = "working"
  /\ runs' = (runs \ {r}) \cup {[r EXCEPT !.ph = "ok"]}
  /\ succeeded' = IF ph = "ok" THEN succeeded \cup {r.j} ELSE succeeded
  /\ UNCHANGED <<row, scheduleRuns, periodOf, claims,
                 proc, running, unfinished, poll, stops, crashes>>

HandlerEnds(r, ph) ==
  /\ r.ph = "working"
  /\ runs' = (runs \ {r}) \cup {[r EXCEPT !.ph = ph]}
  /\ succeeded' = IF ph = "ok" THEN succeeded \cup {r.j} ELSE succeeded
  /\ UNCHANGED <<row, scheduleRuns, periodOf, claims,
                 proc, running, unfinished, poll, stops, crashes>>

(* Mutants: a status the enum does not have; the last attempt is never made. *)
OutcomeNamedFailed(r) ==
  [row[r.j] EXCEPT !.status = IF r.ph = "ok" THEN "done" ELSE "failed", !.lease = "none"]
OutcomeOneShort(r) ==
  [row[r.j] EXCEPT !.status = IF r.ph = "ok" THEN "done"
                              ELSE IF r.att + 1 >= MaxAttempts THEN "dead" ELSE "queued",
                   !.due = FALSE, !.lease = "none"]

Outcome(r) ==
  IF r.ph = "ok" THEN [row[r.j] EXCEPT !.status = "done", !.lease = "none"]
  ELSE IF r.att >= MaxAttempts THEN [row[r.j] EXCEPT !.status = "dead", !.lease = "none"]
  ELSE [row[r.j] EXCEPT !.status = "queued", !.due = FALSE, !.lease = "none"]

(* The run leaves the map by its job's id, whichever run of that job the entry stood for. *)
RunOver(r) ==
  /\ runs' = runs \ {r}
  /\ running' = [running EXCEPT ![r.w] = @ \ {r.j}]
  /\ UNCHANGED <<scheduleRuns, periodOf, claims, succeeded,
                 proc, unfinished, poll, stops, crashes>>

Finish(r) ==
  /\ r.ph # "working"
  /\ row' = IF Mine(r) THEN [row EXCEPT ![r.j] = Outcome(r)] ELSE row
  /\ RunOver(r)

(* The statement of finish() failed: an unhandled rejection, logged; the lease will lapse. *)
FinishFails(r) ==
  /\ r.ph # "working"
  /\ row' = row
  /\ RunOver(r)

-----------------------------------------------------------------------------
(* Process life: SIGTERM runs stop() and exits; a crash just ends it. *)

StopBegins(w) ==
  /\ proc[w] = "up" /\ stops < MaxStops
  /\ proc' = [proc EXCEPT ![w] = "stopping"]
  /\ unfinished' = [unfinished EXCEPT ![w] = running[w]]
  /\ stops' = stops + 1
  /\ UNCHANGED <<row, scheduleRuns, periodOf, claims, succeeded, running, poll, runs, crashes>>

(* The grace is over (or every run ended): what is left goes back to the queue, whoever     *)
(* holds it now, with the attempt given back.                                               *)
HandedBack(j) ==
  [status |-> "queued", key |-> row[j].key, due |-> row[j].due, lease |-> "none",
   attempts |-> IF row[j].attempts > 0 THEN row[j].attempts - 1 ELSE 0]

StopHandsBack(w) ==
  /\ proc[w] = "stopping"
  /\ row' = [j \in Jobs |->
               IF j \in unfinished[w] \cap running[w] /\ row[j].status = "running"
               THEN HandedBack(j) ELSE row[j]]
  /\ proc' = [proc EXCEPT ![w] = "stopped"]
  /\ UNCHANGED <<scheduleRuns, periodOf, claims, succeeded,
                 running, unfinished, poll, runs, stops, crashes>>

Gone(w) ==
  /\ proc' = [proc EXCEPT ![w] = "down"]
  /\ running' = [running EXCEPT ![w] = {}]
  /\ unfinished' = [unfinished EXCEPT ![w] = {}]
  /\ poll' = [p \in Workers \X Slots |-> IF p[1] = w THEN IdlePoll ELSE poll[p]]
  /\ runs' = {r \in runs : r.w # w}
  /\ UNCHANGED <<row, scheduleRuns, periodOf, claims, succeeded, stops>>

(* process.exit at the end of shutdown: handlers may still run until then. *)
Exit(w) == proc[w] = "stopped" /\ Gone(w) /\ UNCHANGED crashes

Crash(w) ==
  /\ proc[w] # "down" /\ crashes < MaxCrashes
  /\ Gone(w)
  /\ crashes' = crashes + 1

Boot(w) ==
  /\ proc[w] = "down"
  /\ proc' = [proc EXCEPT ![w] = "up"]
  /\ UNCHANGED <<row, scheduleRuns, periodOf, claims, succeeded,
                 running, unfinished, poll, runs, stops, crashes>>

-----------------------------------------------------------------------------
Next ==
  \/ \E j \in Jobs, k \in Keys \cup {NoKey}, due \in BOOLEAN : Enqueue(j, k, due)
  \/ \E w \in Workers, p \in Periods, j \in Jobs : TickSchedules(w, p, j)
  \/ \E j \in Jobs : Prune(j)
  \/ \E j \in Jobs : BecomeDue(j)
  \/ \E j \in Jobs : LeaseLapses(j)
  \/ \E w \in Workers, s \in Slots : PollBegins(w, s)
  \/ \E w \in Workers, s \in Slots : BuryExhausted(w, s)
  \/ \E w \in Workers, s \in Slots, S \in SUBSET Jobs : Claim(w, s, S)
  \/ \E w \in Workers, s \in Slots, S \in SUBSET Jobs : ClaimAnswerLost(w, s, S)
  \/ \E w \in Workers, s \in Slots : PollFails(w, s)
  \/ \E w \in Workers, s \in Slots : StartRuns(w, s)
  \/ \E r \in runs : Heartbeat(r)
  \/ \E r \in runs, ph \in {"ok", "error"} : HandlerEnds(r, ph)
  \/ \E r \in runs : Finish(r)
  \/ \E r \in runs : FinishFails(r)
  \/ \E w \in Workers : StopBegins(w)
  \/ \E w \in Workers : StopHandsBack(w)
  \/ \E w \in Workers : Exit(w)
  \/ \E w \in Workers : Crash(w)
  \/ \E w \in Workers : Boot(w)

Spec == Init /\ [][Next]_vars

(* Fairness.  Timers fire and the clock moves (BecomeDue, PollBegins, StopHandsBack), the   *)
(* platform restarts a process that is down (Boot), a handler's promise settles, and the    *)
(* database does not refuse one statement for ever (strong fairness of the statements a     *)
(* failing poll could skip each time).  A lease is only promised to lapse when no run is    *)
(* left to renew it.                                                                        *)
Abandoned(j) == ~\E r \in runs : r.ph = "working" /\ r.j = j /\ Mine(r)

HandlerSettles(w, j) == \E r \in runs : r.w = w /\ r.j = j /\ \E ph \in {"ok", "error"} : HandlerEnds(r, ph)
EndsRun(w, j) == \E r \in runs : r.w = w /\ r.j = j /\ (Finish(r) \/ FinishFails(r))
Claims(w, s) == \E S \in SUBSET Jobs : Claim(w, s, S)
ClaimsSome(w, s) == \E S \in SUBSET Jobs : S # {} /\ Claim(w, s, S)

Fairness ==
  /\ \A j \in Jobs : WF_vars(BecomeDue(j))
  /\ \A j \in Jobs : WF_vars(Abandoned(j) /\ LeaseLapses(j))
  /\ \A w \in Workers :
       /\ WF_vars(Boot(w)) /\ WF_vars(StopHandsBack(w)) /\ WF_vars(Exit(w))
       /\ \A j \in Jobs : WF_vars(HandlerSettles(w, j)) /\ WF_vars(EndsRun(w, j))
       /\ \A s \in Slots :
            /\ WF_vars(PollBegins(w, s)) /\ WF_vars(StartRuns(w, s))
            /\ WF_vars(Claims(w, s)) /\ SF_vars(BuryExhausted(w, s)) /\ SF_vars(ClaimsSome(w, s))

FairSpec == Spec /\ Fairness

-----------------------------------------------------------------------------
(* Properties. *)

(* No duplicate work: two live jobs never share a unique key, and no period ever has two    *)
(* jobs, also once the first one finished or was pruned (enqueue, enqueueOnce).             *)
NoDuplicateWork ==
  \A j, k \in Jobs : j # k =>
    /\ row[j].key = row[k].key /\ row[j].key # NoKey => ~(Live(j) /\ Live(k))
    /\ periodOf[j] = periodOf[k] => periodOf[j] = NoPeriod

(* A job is given up only after max_attempts real claims: handing a job back at shutdown    *)
(* returns the attempt and never costs one (stop, finish, buryExhausted).                   *)
DeadOnlyAfterAllAttempts ==
  \A j \in Jobs : row[j].status = "dead" => claims[j] >= MaxAttempts

(* A job is reported done only when one of its handler runs returned: no crash, lapse,      *)
(* stop or lost answer makes work that did not happen look finished (finish, run).          *)
DoneOnlyIfHandled ==
  \A j \in Jobs : row[j].status = "done" => j \in succeeded

(* Only the latest claim of a job writes its outcome: a run whose lease lapsed and whose    *)
(* job was claimed again changes nothing when it ends (what the comment on mine promises).  *)
OutcomeFromLatestClaim ==
  [][\A r \in runs \ runs' : row'[r.j] # row[r.j] => r.n = claims[r.j]]_vars

(* Handing a job back is the only thing that makes its attempts fall behind its claims. *)
EveryAttemptKept(j) == row[j].attempts = claims[j]

(* The same for every job no stop has ever handed back, whatever lapses, crashes and stops  *)
(* of other jobs happened (mine, finish).                                                   *)
FencedUntilHandedBack ==
  [][\A r \in runs \ runs' :
       EveryAttemptKept(r.j) /\ row'[r.j] # row[r.j] => r.n = claims[r.j]]_vars

(* What the table says of finished work is true, and stays said.                            *)
FinishedIsTrueAndFinal ==
  [][/\ DoneOnlyIfHandled'
     /\ \A j \in Jobs : row[j].status \in {"done", "dead", "pruned"} => row'[j].status \in {row[j].status, "pruned"}]_vars

(* Every queued job is eventually done or given up, through crashes, stops, lost answers    *)
(* and failed statements (poll, claim, buryExhausted, the lease).                           *)
EveryJobSettles ==
  \A j \in Jobs : row[j].status = "queued" ~> row[j].status \in {"done", "dead", "pruned"}

=============================================================================

------------------------------ MODULE MCSettles -------------------------------
(* What the server has taken on and must settle, as one instance for TLC: jobs   *)
(* (JobQueue) and the changes a device queued offline (SyncPush).  The two do    *)
(* not meet: focus says which a behaviour is of.                                 *)
EXTENDS JobQueue, TLC

CONSTANTS
  j1, w1, w2,
  parent, child, cParent, s1, s2  \* SyncPush: a create, an action on what it makes, its offline id, and pushes

VARIABLES
  focus,
  sRows, sMapped, sKey, sVersion, sMade, sLost, sPc, sTodo, sStale, sIds, sOutcome, sResults, sWaiting, sSettled, sEdits, sFaults

Changes == <<parent, child>>
Push == INSTANCE SyncPush WITH
  Queue <- Changes, Pushes <- {s1, s2}, Posts <- {parent, child}, Cids <- {cParent}, NoCid <- NoKey,
  CidOf <- (parent :> cParent @@ child :> NoKey), Uses <- (parent :> {} @@ child :> {cParent}),
  Base <- (parent :> 0 @@ child :> 0), NoBase <- 0, Invalid <- {}, MaxFaults <- 2, MaxEdits <- 0,
  sm <- sRows, mapped <- sMapped, ikey <- sKey, version <- sVersion, made <- sMade, lost <- sLost, pc <- sPc, todo <- sTodo,
  stale <- sStale, ids <- sIds, outcome <- sOutcome, results <- sResults, waiting <- sWaiting, settled <- sSettled,
  edits <- sEdits, faults <- sFaults

push == <<sRows, sMapped, sKey, sVersion, sMade, sLost, sPc, sTodo, sStale, sIds, sOutcome, sResults, sWaiting, sSettled,
          sEdits, sFaults>>

OnJobs(A) == focus = "jobs" /\ A /\ UNCHANGED <<focus, push>>
OnPush(A) == focus = "push" /\ A /\ UNCHANGED <<focus, vars>>
EachInit == focus \in {"jobs", "push"} /\ Init /\ Push!Init
EachNext == OnJobs(Next) \/ OnPush(Push!Next)

(* The fairness of each model, for the behaviours that are its own *)
JobsFairness ==
  /\ \A j \in Jobs : WF_vars(focus = "jobs" /\ BecomeDue(j)) /\ WF_vars(focus = "jobs" /\ Abandoned(j) /\ LeaseLapses(j))
  /\ \A w \in Workers :
       /\ WF_vars(focus = "jobs" /\ Boot(w)) /\ WF_vars(focus = "jobs" /\ StopHandsBack(w)) /\ WF_vars(focus = "jobs" /\ Exit(w))
       /\ \A j \in Jobs : WF_vars(focus = "jobs" /\ HandlerSettles(w, j)) /\ WF_vars(focus = "jobs" /\ EndsRun(w, j))
       /\ \A s \in Slots :
            /\ WF_vars(focus = "jobs" /\ PollBegins(w, s)) /\ WF_vars(focus = "jobs" /\ StartRuns(w, s))
            /\ WF_vars(focus = "jobs" /\ Claims(w, s)) /\ SF_vars(focus = "jobs" /\ BuryExhausted(w, s))
            /\ SF_vars(focus = "jobs" /\ ClaimsSome(w, s))
PushFairness ==
  /\ \A p \in {s1, s2} :
       /\ WF_push(focus = "push" /\ Push!Start(p)) /\ WF_push(focus = "push" /\ Push!Step(p))
       /\ WF_push(focus = "push" /\ Push!Answer(p)) /\ SF_push(focus = "push" /\ Push!TakesKeyOver(p))
  /\ \A i \in DOMAIN Changes : WF_push(focus = "push" /\ Push!ClaimGrowsOld(Changes[i]))
EachFairSpec == EachInit /\ [][EachNext]_<<focus, vars, push>> /\ JobsFairness /\ PushFairness

(* Every change queued offline is settled (SyncPush!EveryEntrySettles).                     *)
EveryEntrySettles == focus = "push" => Push!EveryEntrySettles
=============================================================================

------------------------------ MODULE Idempotency ------------------------------
(***************************************************************************)
(* The Idempotency-Key middleware (apps/api/src/http/idempotency.ts): any  *)
(* number of POST requests carrying one key of one user race through the   *)
(* preHandler, the route's handler and the onSend hook.  Each database     *)
(* statement of the hooks is one step.  Keys do not interact, so one key   *)
(* is the whole story.                                                     *)
(*                                                                         *)
(* The handler is external to this module: its transaction either commits  *)
(* (one effect) and answers 2xx, refuses with a 4xx, or fails with a 5xx.  *)
(***************************************************************************)
EXTENDS Naturals, FiniteSets

CONSTANTS
  Reqs,         \* the requests that ever carry the key
  Bodies,       \* what a request asks for (method, url and body: requestHash)
  BodyOf        \* BodyOf[r]: the body request r was sent with

ASSUME ConstantsAssumption == BodyOf \in [Reqs -> Bodies]

VARIABLES
  faults,   \* what can go wrong in this behaviour, see Faults
  key,      \* the idempotency_keys row, or NoRow
  asOf,     \* asOf[r]: how old the row that is there now was when r started: every age is taken by that clock
  pc,       \* pc[r]: where request r is
  keyed,    \* keyed[r]: req.idempotency is set, so onSend will store or free the key
  outcome,  \* outcome[r]: what the handler made of it
  answer,   \* answer[r]: what was sent back
  effects   \* history: the requests whose handler committed

vars == <<faults, key, asOf, pc, keyed, outcome, answer, effects>>

(* "late": a request may die after its handler committed; "fail": a handler may fail with a *)
(* 5xx; "expire": the 24 hours of TTL_MS may pass.  A behaviour has some of them throughout.*)
Faults == {"late", "fail", "expire"}
Outcomes == {"ok", "refused", "failed"}
NoRow == [body |-> "none"]
(* response "pending" is responseStatus null; stale is createdAt < now - STALE_CLAIM_MS;     *)
(* expired is expiresAt < now.                                                              *)
KeyRow == [body : Bodies, response : {"pending", "ok", "refused"}, stale : BOOLEAN, expired : BOOLEAN]
Age == [stale : BOOLEAN, expired : BOOLEAN]
NewToAll == [r \in Reqs |-> [stale |-> FALSE, expired |-> FALSE]]

(* Mutant: the claim carries a placeholder response. *)
ClaimPlaceholder(r) == [body |-> BodyOf[r], response |-> "failed", stale |-> FALSE, expired |-> FALSE]
Claim(r) == [body |-> BodyOf[r], response |-> "pending", stale |-> FALSE, expired |-> FALSE]

TypeOK ==
  /\ faults \subseteq Faults
  /\ key = NoRow \/ key \in KeyRow
  /\ asOf \in [Reqs -> Age]
  /\ pc \in [Reqs -> {"new", "select", "forget", "takeover", "handler", "send", "answered", "dead"}]
  /\ keyed \in [Reqs -> BOOLEAN]
  /\ outcome \in [Reqs -> Outcomes \cup {"none"}]
  /\ answer \in [Reqs -> Outcomes \cup {"none", "reused", "in progress"}]
  /\ effects \subseteq Reqs

Init ==
  /\ faults \in SUBSET Faults
  /\ key = NoRow /\ asOf = NewToAll
  /\ pc = [r \in Reqs |-> "new"]
  /\ keyed = [r \in Reqs |-> FALSE]
  /\ outcome = [r \in Reqs |-> "none"]
  /\ answer = [r \in Reqs |-> "none"]
  /\ effects = {}

Exists == key # NoRow
Goto(r, l) == pc' = [pc EXCEPT ![r] = l]
Run(r, withKey) == /\ Goto(r, "handler")
                   /\ keyed' = [keyed EXCEPT ![r] = withKey]
Answer(r, a) == /\ Goto(r, "answered")
                /\ answer' = [answer EXCEPT ![r] = a]

-----------------------------------------------------------------------------
(* preHandler *)

(* INSERT ... ON CONFLICT DO NOTHING: the first request claims the key. *)
Insert(r) ==
  /\ pc[r] = "new"
  /\ IF Exists
       THEN /\ Goto(r, "select")
            /\ asOf' = [asOf EXCEPT ![r] = [stale |-> key.stale, expired |-> key.expired]]
            /\ UNCHANGED <<key, keyed>>
       ELSE key' = Claim(r) /\ asOf' = NewToAll /\ Run(r, TRUE)
  /\ UNCHANGED <<outcome, answer, effects>>

(* The row another request left, read in a second statement: gone by now, expired, for a    *)
(* different body, unanswered, or answered.                                                 *)
Vanished(r) ==
  /\ pc[r] = "select" /\ ~Exists
  /\ Run(r, FALSE)
  /\ UNCHANGED <<key, asOf, outcome, answer, effects>>

FoundExpired(r) ==
  /\ pc[r] = "select" /\ Exists /\ asOf[r].expired
  /\ Goto(r, "forget")
  /\ UNCHANGED <<key, asOf, keyed, outcome, answer, effects>>

FoundOtherBody(r) ==
  /\ pc[r] = "select" /\ Exists /\ ~asOf[r].expired
  /\ key.body # BodyOf[r]
  /\ Answer(r, "reused")
  /\ UNCHANGED <<key, asOf, keyed, outcome, effects>>

(* Mutant: the body is compared only with an answered request's. *)
FoundPendingAnyBody(r) ==
  /\ pc[r] = "select" /\ Exists /\ ~asOf[r].expired
  /\ key.response = "pending"
  /\ Goto(r, "takeover")
  /\ UNCHANGED <<key, asOf, keyed, outcome, answer, effects>>

FoundPending(r) ==
  /\ pc[r] = "select" /\ Exists /\ ~asOf[r].expired
  /\ key.body = BodyOf[r] /\ key.response = "pending"
  /\ Goto(r, "takeover")
  /\ UNCHANGED <<key, asOf, keyed, outcome, answer, effects>>

(* Mutant: a replay always answers a refusal. *)
ReplayAsRefused(r) ==
  /\ pc[r] = "select" /\ Exists /\ ~asOf[r].expired
  /\ key.body = BodyOf[r] /\ key.response # "pending"
  /\ Answer(r, "refused")
  /\ UNCHANGED <<key, asOf, keyed, outcome, effects>>

Replay(r) ==
  /\ pc[r] = "select" /\ Exists /\ ~asOf[r].expired
  /\ key.body = BodyOf[r] /\ key.response # "pending"
  /\ Answer(r, key.response)
  /\ UNCHANGED <<key, asOf, keyed, outcome, effects>>

(* An expired key is forgotten, whatever row it names by now, and the request runs without. *)
Forget(r) ==
  /\ pc[r] = "forget"
  /\ key' = NoRow
  /\ Run(r, FALSE)
  /\ UNCHANGED <<asOf, outcome, answer, effects>>

(* One conditional UPDATE: the claim is taken over if the row passes its WHERE, else 409. *)
TakeOverTo(r, row, ages) ==
  /\ pc[r] = "takeover"
  /\ IF Exists /\ key.response = "pending" /\ asOf[r].stale
       THEN /\ key' = row /\ asOf' = ages
            /\ Run(r, TRUE)
            /\ UNCHANGED answer
       ELSE /\ Answer(r, "in progress")
            /\ UNCHANGED <<key, asOf, keyed>>
  /\ UNCHANGED <<outcome, effects>>

(* Mutant: the age of the claim stays.  *)
TakeOverNotRenewed(r) == TakeOverTo(r, key, asOf)

(* An unanswered claim STALE_CLAIM_MS old passes; it is of now from then on. *)
TakeOver(r) == TakeOverTo(r, [key EXCEPT !.stale = FALSE, !.expired = FALSE], NewToAll)

-----------------------------------------------------------------------------
(* The route's handler, and onSend. *)

Handle(r, o) ==
  /\ pc[r] = "handler"
  /\ o = "failed" => "fail" \in faults
  /\ Goto(r, "send")
  /\ outcome' = [outcome EXCEPT ![r] = o]
  /\ effects' = IF o = "ok" THEN effects \cup {r} ELSE effects
  /\ UNCHANGED <<key, asOf, keyed, answer>>

(* Mutant: the response is not stored. *)
SendWithoutStoring(r) ==
  /\ pc[r] = "send"
  /\ Answer(r, outcome[r])
  /\ UNCHANGED <<key, asOf, keyed, outcome, effects>>

(* onSend: a 5xx frees the key, anything else is stored in the row of this key, if any. *)
Send(r) ==
  /\ pc[r] = "send"
  /\ key' = IF ~keyed[r] \/ ~Exists THEN key
            ELSE IF outcome[r] = "failed" THEN NoRow
            ELSE [key EXCEPT !.response = outcome[r]]
  /\ Answer(r, outcome[r])
  /\ UNCHANGED <<asOf, keyed, outcome, effects>>

-----------------------------------------------------------------------------
(* Death and time. *)

Running(r) == pc[r] \in {"handler", "send"}

Die(r) ==
  /\ pc[r] \notin {"new", "answered", "dead"}
  /\ pc[r] = "send" => "late" \in faults
  /\ Goto(r, "dead")
  /\ UNCHANGED <<key, asOf, keyed, outcome, answer, effects>>

(* STALE_CLAIM_MS pass.  "No request runs this long": a request still running had its claim *)
(* made less than that ago.                                                                 *)
ClaimGrowsStale ==
  /\ Exists /\ ~key.stale
  /\ ~\E r \in Reqs : Running(r) /\ keyed[r]
  /\ key' = [key EXCEPT !.stale = TRUE]
  /\ UNCHANGED <<asOf, pc, keyed, outcome, answer, effects>>

KeyExpires ==
  /\ "expire" \in faults
  /\ Exists /\ ~key.expired /\ key.stale
  /\ key' = [key EXCEPT !.expired = TRUE]
  /\ UNCHANGED <<asOf, pc, keyed, outcome, answer, effects>>

(* purgeIdempotencyKeys, the hourly job. *)
Purge ==
  /\ Exists /\ key.expired
  /\ key' = NoRow
  /\ UNCHANGED <<asOf, pc, keyed, outcome, answer, effects>>

Done == \A r \in Reqs : pc[r] \in {"answered", "dead"}

Step ==
  \/ \E r \in Reqs : Insert(r)
  \/ \E r \in Reqs : Vanished(r)
  \/ \E r \in Reqs : FoundExpired(r)
  \/ \E r \in Reqs : FoundOtherBody(r)
  \/ \E r \in Reqs : FoundPending(r)
  \/ \E r \in Reqs : Replay(r)
  \/ \E r \in Reqs : Forget(r)
  \/ \E r \in Reqs : TakeOver(r)
  \/ \E r \in Reqs, o \in Outcomes : Handle(r, o)
  \/ \E r \in Reqs : Send(r)
  \/ \E r \in Reqs : Die(r)
  \/ ClaimGrowsStale
  \/ KeyExpires
  \/ Purge

Next == Step /\ UNCHANGED faults

Spec == Init /\ [][Next]_vars

-----------------------------------------------------------------------------
(* Properties. *)

(* However often and however concurrently a request is retried under its key, its handler   *)
(* commits at most once (the claim, the takeover and the replay of idempotency.ts), unless  *)
(* something failed behind the hooks' back: each fault alone already breaks this.           *)
AtMostOneEffect == faults = {} => \A r, q \in effects : r = q

(* The refinement: the key's call is decided by the one handler that ends, and every        *)
(* request answered with an outcome, its own or a replay, is told that one.  With faults    *)
(* nothing is claimed.                                                                      *)
Ended == {r \in Reqs : outcome[r] # "none"}
Decision == IF Ended = {} \/ faults # {} THEN "none" ELSE outcome[CHOOSE r \in Ended : TRUE]
Told == [r \in Reqs |-> IF faults # {} THEN "none" ELSE IF answer[r] \in {"reused", "in progress"} THEN "later" ELSE answer[r]]

Once == INSTANCE OnceOnly WITH Callers <- Reqs, Results <- {"ok", "refused"}, None <- "none",
                               PutOff <- "later", result <- Decision, told <- Told

ImplementsOnceOnly == Once!Spec

(* A key stands for one body as long as nothing frees it (a 5xx does, and expiry): a        *)
(* request that reuses it for another is never run under it, also when it races the first   *)
(* one's death, before or after its commit, and a retry's takeover.                         *)
OneBodyPerKey ==
  faults \subseteq {"late"} => \A r, q \in Reqs : keyed[r] /\ keyed[q] => BodyOf[r] = BodyOf[q]

(* No request is told of a success that did not happen, through deaths, failures and keys   *)
(* that vanish between two statements; and within the key's 24 hours it is a success of its *)
(* own body.  (Beyond them Forget can delete a running request's row, and that one's answer *)
(* end up in a row of another body: see the README.)                                         *)
NoPhantomSuccess ==
  \A r \in Reqs : answer[r] = "ok" =>
    \E q \in effects : "expire" \notin faults => BodyOf[q] = BodyOf[r]

(* Within the key's 24 hours two requests never run at once holding it: a takeover only     *)
(* ever replaces a request that died, also when two retries attempt it together.            *)
OneHolderRuns ==
  "expire" \notin faults =>
    \A r, q \in Reqs : Running(r) /\ keyed[r] /\ Running(q) /\ keyed[q] => r = q

(* Within the key's 24 hours a stored response is never replaced: what one retry was told   *)
(* is what every later one is.                                                              *)
ResponseKept == Exists /\ "expire" \notin faults /\ key.response # "pending" /\ ~key.expired => key'.response = key.response
StoredIsFinal == [][ResponseKept]_vars

(* What a client is told under a key: of its own request, of something that happened, and   *)
(* the same every time.                                                                     *)
AnswersHold == [][OneBodyPerKey' /\ NoPhantomSuccess' /\ ResponseKept]_vars
=============================================================================

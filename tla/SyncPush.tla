-------------------------------- MODULE SyncPush --------------------------------
(***************************************************************************)
(* POST /sync/push (apps/api/src/modules/sync/handlers.ts): one device's   *)
(* offline queue is replayed through the API's own routes, entry by entry. *)
(* A push the device gave up on may still run while the next one, with the *)
(* same entries, starts.                                                   *)
(*                                                                         *)
(* Each database statement of syncPush is one step.  The request injected  *)
(* for a POST is three: its Idempotency-Key is claimed, the route commits, *)
(* and its answer is stored under the key; the process can die, or the     *)
(* last of them fail, in between.  Edits, and actions on a version, are of *)
(* one document, "the document".                                           *)
(*                                                                         *)
(* The pushes of an entry fall within the 24 hours its key lives (what     *)
(* expiry does is in module Idempotency), and the entries are one user's.  *)
(***************************************************************************)
EXTENDS Naturals, Sequences

CONSTANTS
  Queue,      \* the entries of the device's outbox, in order
  Pushes,     \* the push requests that may be under way at once
  Posts,      \* the entries that are a POST; the rest are edits of the document
  Cids,       \* the ids minted offline (clientEntityId)
  CidOf,      \* CidOf[e]: the offline id of what POST e creates, or NoCid for an action
  NoCid,
  Uses,       \* Uses[e]: the offline ids in the path and body of e
  Base,       \* Base[e]: the baseVersion an edit or action was made on, or NoBase
  NoBase,
  Invalid,    \* entries the server refuses whenever it looks at them
  MaxFaults,  \* bound: deaths, failed statements, passing errors and client timeouts
  MaxEdits    \* bound: edits of the document by others

Entries == {Queue[i] : i \in DOMAIN Queue}

ASSUME ConstantsAssumption ==
  /\ Queue \in Seq(Entries)
  /\ Posts \subseteq Entries /\ Invalid \subseteq Entries
  /\ NoCid \notin Cids /\ CidOf \in [Posts -> Cids \cup {NoCid}]
  /\ \A d, e \in Posts : CidOf[d] = CidOf[e] /\ CidOf[d] # NoCid => d = e
  /\ Uses \in [Entries -> SUBSET Cids]
  /\ MaxFaults \in Nat /\ MaxEdits \in Nat

VARIABLES
  sm,       \* sm[e]: the sync_mutations row of entry e, or NoRow
  mapped,   \* the offline ids in client_id_mappings
  ikey,     \* ikey[e]: the idempotency key of entry e, or NoRow
  version,  \* the document's version
  made,     \* history: how often entry e took effect
  lost,     \* history: how often POST e took effect and its answer was not stored
  pc,       \* pc[p]: where push p is
  todo,     \* todo[p]: the entries push p still has to answer, in the order of the queue
  stale,    \* stale[p]: the entries whose claim push p finds CLAIM_TTL_MS old
  ids,      \* ids[p]: the offline ids push p can swap: read at its start, and its own creates
  outcome,  \* outcome[p]: what the entry it is at came to
  results,  \* results[p]: the answer it is putting together
  waiting,  \* the push the device waits for, or Nobody
  settled,  \* settled[e]: the answer the device has for entry e
  edits,    \* history: edits by others
  faults

server == <<sm, mapped, ikey, version, made, lost>>
push == <<pc, todo, stale, ids, outcome, results>>
device == <<waiting, settled>>
vars == <<server, push, device, edits, faults>>

NoRow == [result |-> "no row"]
Nobody == "nobody"
Answers == {"applied", "conflict", "rejected", "retry"}
Recorded == {"applied", "conflict", "rejected"}
\* old: appliedAt is CLAIM_TTL_MS ago.  A push compares it with the time it started (ctx.now).
SyncRow == [result : Recorded \cup {"none"}, old : BOOLEAN]
\* requestHash differs with the ids that were swapped into the request.
KeyRow == [hash : SUBSET Cids, response : Recorded \cup {"pending"}]

TypeOK ==
  /\ sm \in [Entries -> SyncRow \cup {NoRow}]
  /\ ikey \in [Entries -> KeyRow \cup {NoRow}]
  /\ mapped \subseteq Cids
  /\ version \in Nat /\ edits \in Nat /\ faults \in Nat
  /\ made \in [Entries -> Nat] /\ lost \in [Entries -> Nat]
  /\ pc \in [Pushes -> {"idle", "claim", "seen", "takeover", "run", "handle", "send", "map", "record", "done"}]
  /\ todo \in [Pushes -> SUBSET Entries]
  /\ stale \in [Pushes -> SUBSET Entries]
  /\ ids \in [Pushes -> SUBSET Cids]
  /\ outcome \in [Pushes -> Answers \cup {"none"}]
  /\ results \in [Pushes -> [Entries -> Answers \cup {"none"}]]
  /\ waiting \in Pushes \cup {Nobody}
  /\ settled \in [Entries -> Recorded \cup {"none"}]

NoResults == [e \in Entries |-> "none"]

Init ==
  /\ sm = [e \in Entries |-> NoRow] /\ ikey = [e \in Entries |-> NoRow]
  /\ mapped = {} /\ version = 1
  /\ made = [e \in Entries |-> 0] /\ lost = [e \in Entries |-> 0]
  /\ pc = [p \in Pushes |-> "idle"] /\ todo = [p \in Pushes |-> {}]
  /\ stale = [p \in Pushes |-> {}]
  /\ ids = [p \in Pushes |-> {}] /\ outcome = [p \in Pushes |-> "none"]
  /\ results = [p \in Pushes |-> NoResults]
  /\ waiting = Nobody /\ settled = NoResults
  /\ edits = 0 /\ faults = 0

(* The first of them. *)
IsNext(p, i) == Queue[i] \in todo[p] /\ \A j \in DOMAIN Queue : Queue[j] \in todo[p] => i <= j
At(p) == Queue[CHOOSE i \in DOMAIN Queue : IsNext(p, i)]
Goto(p, l) == pc' = [pc EXCEPT ![p] = l]
Came(p, o, l) == outcome' = [outcome EXCEPT ![p] = o] /\ Goto(p, l)
Fault == faults < MaxFaults /\ faults' = faults + 1

-----------------------------------------------------------------------------
(* The device (remote/sync.ts pushAll): one push at a time, with everything unsettled. *)

Unsettled == {e \in Entries : settled[e] = "none"}

Start(p) ==
  /\ pc[p] = "idle" /\ waiting = Nobody /\ Unsettled # {}
  /\ Goto(p, "claim")
  /\ todo' = [todo EXCEPT ![p] = Unsettled]
  /\ ids' = [ids EXCEPT ![p] = mapped]
  /\ stale' = [stale EXCEPT ![p] = {e \in Entries : sm[e] # NoRow /\ sm[e].old}]
  /\ results' = [results EXCEPT ![p] = NoResults]
  /\ outcome' = [outcome EXCEPT ![p] = "none"]
  /\ waiting' = p
  /\ UNCHANGED <<server, settled, edits, faults>>

(* The request timed out or its connection broke: the push goes on unheard. *)
GiveUp ==
  /\ waiting # Nobody
  /\ Fault
  /\ waiting' = Nobody
  /\ UNCHANGED <<server, push, settled, edits>>

Idle(p) ==
  /\ pc' = [pc EXCEPT ![p] = "idle"]
  /\ todo' = [todo EXCEPT ![p] = {}]
  /\ waiting' = IF waiting = p THEN Nobody ELSE waiting

(* "retry" leaves the entry pending under the same id; everything else settles it. *)
Answer(p) ==
  /\ pc[p] = "done"
  /\ Idle(p)
  /\ settled' = IF waiting # p THEN settled
                ELSE [e \in Entries |-> IF results[p][e] \in Recorded THEN results[p][e] ELSE settled[e]]
  /\ UNCHANGED <<server, stale, ids, outcome, results, edits, faults>>

(* What the route did is not known to anyone: its answer is not stored and not told. *)
Forgotten(p) ==
  lost' = IF pc[p] = "send" /\ outcome[p] = "applied" THEN [lost EXCEPT ![At(p)] = @ + 1] ELSE lost

(* A failed statement answers 500, a dead process nothing: either way no entry is settled. *)
Die(p) ==
  /\ pc[p] \notin {"idle", "done"}
  /\ Fault
  /\ Idle(p)
  /\ Forgotten(p)
  /\ UNCHANGED <<sm, mapped, ikey, version, made, stale, ids, outcome, results, settled, edits>>

-----------------------------------------------------------------------------
(* syncPush, for the entry it is at. *)

Answered(p, o) ==
  /\ results' = [results EXCEPT ![p][At(p)] = o]
  /\ todo' = [todo EXCEPT ![p] = @ \ {At(p)}]
  /\ Goto(p, IF todo[p] = {At(p)} THEN "done" ELSE "claim")
  /\ outcome' = [outcome EXCEPT ![p] = "none"]

ClaimRow == [result |-> "none", old |-> FALSE]
Renewed(e) == stale' = [q \in Pushes |-> stale[q] \ {e}]

(* INSERT ... ON CONFLICT DO NOTHING. *)
ClaimEntry(p) ==
  /\ pc[p] = "claim"
  /\ IF sm[At(p)] = NoRow
       THEN sm' = [sm EXCEPT ![At(p)] = ClaimRow] /\ Goto(p, "run") /\ Renewed(At(p))
       ELSE Goto(p, "seen") /\ UNCHANGED <<sm, stale>>
  /\ UNCHANGED <<mapped, ikey, version, made, lost, todo, ids, outcome, results, device, edits, faults>>

(* The other push's row is read: its result is reported, or the claim is still fresh. *)
Report(p) ==
  /\ pc[p] = "seen"
  /\ sm[At(p)] # NoRow
  /\ sm[At(p)].result # "none" \/ At(p) \notin stale[p]
  /\ Answered(p, IF sm[At(p)].result # "none" THEN sm[At(p)].result ELSE "retry")
  /\ UNCHANGED <<server, stale, ids, device, edits, faults>>

(* Mutant: a claim is never too old. *)
SeenOldRetried(p) ==
  /\ pc[p] = "seen"
  /\ sm[At(p)] # NoRow /\ sm[At(p)].result = "none" /\ At(p) \in stale[p]
  /\ Answered(p, "retry")
  /\ UNCHANGED <<server, stale, ids, device, edits, faults>>

SeenOld(p) ==
  /\ pc[p] = "seen"
  /\ sm[At(p)] # NoRow /\ sm[At(p)].result = "none" /\ At(p) \in stale[p]
  /\ Goto(p, "takeover")
  /\ UNCHANGED <<server, todo, stale, ids, outcome, results, device, edits, faults>>

(* The row was deleted between the two statements: seen is undefined and the push fails. *)
SeenGone(p) ==
  /\ pc[p] = "seen" /\ sm[At(p)] = NoRow
  /\ Idle(p)
  /\ UNCHANGED <<server, stale, ids, outcome, results, settled, edits, faults>>

(* The old claim is taken over by an UPDATE that asks for nothing but the id. *)
TakeOver(p) ==
  /\ pc[p] = "takeover"
  /\ sm' = IF sm[At(p)] = NoRow THEN sm ELSE [sm EXCEPT ![At(p)].old = FALSE]
  /\ Goto(p, "run") /\ Renewed(At(p))
  /\ UNCHANGED <<mapped, ikey, version, made, lost, todo, ids, outcome, results, device, edits, faults>>

Known(p) == At(p) \in Posts /\ CidOf[At(p)] \in ids[p]
Swapped(p) == Uses[At(p)] \cap ids[p]

(* Already created, as the ids this push read at its start know. *)
RunKnown(p) ==
  /\ pc[p] = "run" /\ Known(p)
  /\ Came(p, "applied", "record")
  /\ UNCHANGED <<server, todo, stale, ids, results, device, edits, faults>>

(* An edit is injected without a key. *)
RunEdit(p) ==
  /\ pc[p] = "run" /\ At(p) \notin Posts
  /\ Goto(p, "handle")
  /\ UNCHANGED <<server, todo, stale, ids, outcome, results, device, edits, faults>>

ToMap(p) == IF CidOf[At(p)] = NoCid THEN "record" ELSE "map"

(* A POST is injected with the key of its entry: claimed, answered, or refused for another  *)
(* body (422).                                                                              *)
RunPost(p) ==
  /\ pc[p] = "run" /\ At(p) \in Posts /\ ~Known(p)
  /\ \/ /\ ikey[At(p)] = NoRow
        /\ ikey' = [ikey EXCEPT ![At(p)] = [hash |-> Swapped(p), response |-> "pending"]]
        /\ Goto(p, "handle")
        /\ UNCHANGED outcome
     \/ /\ ikey[At(p)] # NoRow /\ ikey[At(p)].hash # Swapped(p)
        /\ Came(p, "rejected", "record")
        /\ UNCHANGED ikey
     \/ /\ ikey[At(p)] # NoRow /\ ikey[At(p)].hash = Swapped(p)
        /\ ikey[At(p)].response # "pending"
        /\ Came(p, ikey[At(p)].response, IF ikey[At(p)].response = "applied" THEN ToMap(p) ELSE "record")
        /\ UNCHANGED ikey
  /\ UNCHANGED <<sm, mapped, version, made, lost, todo, stale, ids, results, device, edits, faults>>

(* The request of push q is at the route of entry e, or its answer is on the way to the key. *)
AtRoute(q, e) == pc[q] \in {"handle", "send"} /\ At(q) = e

(* Mutant: a pending key is taken over at any age. *)
RunPendingAny(p) ==
  /\ pc[p] = "run" /\ At(p) \in Posts /\ ~Known(p)
  /\ ikey[At(p)] # NoRow /\ ikey[At(p)].hash = Swapped(p) /\ ikey[At(p)].response = "pending"
  /\ Goto(p, "handle")
  /\ UNCHANGED <<server, todo, stale, ids, outcome, results, device, edits, faults>>

(* The key's first request has not answered: 409, which is passing; or the request is dead  *)
(* and the key five minutes old, and it is taken over.                                      *)
RunPending(p) ==
  /\ pc[p] = "run" /\ At(p) \in Posts /\ ~Known(p)
  /\ ikey[At(p)] # NoRow /\ ikey[At(p)].hash = Swapped(p) /\ ikey[At(p)].response = "pending"
  /\ \/ Came(p, "retry", "record")
     \/ (\A q \in Pushes : ~AtRoute(q, At(p))) /\ Goto(p, "handle") /\ UNCHANGED outcome
  /\ UNCHANGED <<server, todo, stale, ids, results, device, edits, faults>>

TakesKeyOver(p) == RunPending(p) /\ pc'[p] = "handle"

(* The route: a reference to an id that was not swapped, or an invalid body, is refused; a   *)
(* change made on another version gets 412, checked and written in one transaction; a POST  *)
(* that took effect before may be found done, and refused, or take effect again.            *)
Refused(p) == At(p) \in Invalid \/ ~(Uses[At(p)] \subseteq ids[p])
AnotherVersion(p) == Base[At(p)] \notin {NoBase, version}
Outcomes(p) ==
  IF Refused(p) THEN {"rejected"}
  ELSE IF AnotherVersion(p) THEN {"conflict"}
  ELSE IF At(p) \in Posts /\ made[At(p)] > 0 THEN {"applied", "rejected"}
  ELSE {"applied"}
OfDocument(e) == e \notin Posts \/ Base[e] # NoBase

Handle(p) ==
  /\ pc[p] = "handle"
  /\ \E o \in Outcomes(p) :
       /\ Came(p, o, IF At(p) \in Posts THEN "send" ELSE "record")
       /\ made' = IF o = "applied" THEN [made EXCEPT ![At(p)] = @ + 1] ELSE made
       /\ version' = IF o = "applied" /\ OfDocument(At(p)) THEN version + 1 ELSE version
  /\ UNCHANGED <<sm, mapped, ikey, lost, todo, stale, ids, results, device, edits, faults>>

(* Its answer is stored under the key, in a transaction of its own. *)
StoreAs(p, row) ==
  /\ pc[p] = "send"
  /\ ikey' = [ikey EXCEPT ![At(p)] = row]
  /\ Goto(p, IF outcome[p] = "applied" THEN ToMap(p) ELSE "record")
  /\ UNCHANGED <<sm, mapped, version, made, lost, todo, stale, ids, outcome, results, device, edits, faults>>

(* Mutant: the key is freed after a success too. *)
StoreFrees(p) ==
  StoreAs(p, IF outcome[p] = "applied" THEN NoRow ELSE [ikey[At(p)] EXCEPT !.response = outcome[p]])
Store(p) == StoreAs(p, [ikey[At(p)] EXCEPT !.response = outcome[p]])

(* For a 5xx the key is freed, if that works. *)
Frees(p) == ikey' = ikey \/ ikey' = [ikey EXCEPT ![At(p)] = NoRow]

(* The answer cannot be stored and becomes a 500. *)
StoreFails(p) ==
  /\ pc[p] = "send"
  /\ Fault
  /\ Frees(p)
  /\ Forgotten(p)
  /\ Came(p, "retry", "record")
  /\ UNCHANGED <<sm, mapped, version, made, todo, stale, ids, results, device, edits>>

(* A passing error, before the key is looked at (401, 429) or of the route (5xx): nothing   *)
(* happened.                                                                                *)
RunFails(p) ==
  /\ pc[p] = "run" /\ ~Known(p)
  /\ Fault
  /\ Came(p, "retry", "record")
  /\ UNCHANGED <<server, todo, stale, ids, results, device, edits>>

HandleFails(p) ==
  /\ pc[p] = "handle"
  /\ Fault
  /\ IF At(p) \in Posts THEN Frees(p) ELSE UNCHANGED ikey
  /\ Came(p, "retry", "record")
  /\ UNCHANGED <<sm, mapped, version, made, lost, todo, stale, ids, results, device, edits>>

MapId(p) ==
  /\ pc[p] = "map"
  /\ mapped' = mapped \cup {CidOf[At(p)]}
  /\ ids' = [ids EXCEPT ![p] = @ \cup {CidOf[At(p)]}]
  /\ Goto(p, "record")
  /\ UNCHANGED <<sm, ikey, version, made, lost, todo, stale, outcome, results, device, edits, faults>>

RecordAs(p, o) ==
  /\ pc[p] = "record"
  /\ sm' = IF o = "retry" THEN [sm EXCEPT ![At(p)] = NoRow]
           ELSE IF sm[At(p)] = NoRow THEN sm
           ELSE [sm EXCEPT ![At(p)] = [result |-> o, old |-> FALSE]]
  /\ Answered(p, o)
  /\ UNCHANGED <<mapped, ikey, version, made, lost, stale, ids, device, edits, faults>>

(* Mutants: a passing error is recorded, as a status of its own or as a refusal.            *)
RecordUnclassified(p) == RecordAs(p, IF outcome[p] = "retry" THEN "error" ELSE outcome[p])
RecordPassing(p) == RecordAs(p, IF outcome[p] = "retry" THEN "rejected" ELSE outcome[p])
(* The result is written, or for a passing error the claim is deleted, in the row of this   *)
(* entry whoever claimed it by now.                                                         *)
Record(p) == RecordAs(p, outcome[p])

-----------------------------------------------------------------------------
(* CLAIM_TTL_MS pass: "a claim older than this belongs to a request that died".  *)
Working(p, e) == pc[p] \in {"run", "handle", "send", "map", "record"} /\ At(p) = e

ClaimGrowsOld(e) ==
  /\ sm[e] # NoRow /\ sm[e].result = "none" /\ ~sm[e].old
  /\ \A p \in Pushes : ~Working(p, e)
  /\ sm' = [sm EXCEPT ![e].old = TRUE]
  /\ UNCHANGED <<mapped, ikey, version, made, lost, push, device, edits, faults>>

(* Someone else saves the document. *)
EditByOther ==
  /\ edits < MaxEdits
  /\ edits' = edits + 1
  /\ version' = version + 1
  /\ UNCHANGED <<sm, mapped, ikey, made, lost, push, device, faults>>

Step(p) ==
  \/ ClaimEntry(p)
  \/ Report(p)
  \/ SeenOld(p)
  \/ SeenGone(p)
  \/ TakeOver(p)
  \/ RunKnown(p)
  \/ RunEdit(p)
  \/ RunPost(p)
  \/ RunPending(p)
  \/ Handle(p)
  \/ Store(p)
  \/ MapId(p)
  \/ Record(p)

Next ==
  \/ \E p \in Pushes : Start(p)
  \/ \E p \in Pushes : Step(p)
  \/ \E p \in Pushes : RunFails(p)
  \/ \E p \in Pushes : HandleFails(p)
  \/ \E p \in Pushes : StoreFails(p)
  \/ \E p \in Pushes : Answer(p)
  \/ \E p \in Pushes : Die(p)
  \/ GiveUp
  \/ \E e \in Entries : ClaimGrowsOld(e)
  \/ EditByOther

Spec == Init /\ [][Next]_vars

(* Fairness: the device pushes again while something is unsettled (its retry timer), the    *)
(* server goes on with a request it has, time passes.                                       *)
FairSpec ==
  /\ Spec
  /\ \A p \in Pushes : WF_vars(Start(p)) /\ WF_vars(Step(p)) /\ WF_vars(Answer(p))
  /\ \A e \in Entries : WF_vars(ClaimGrowsOld(e))
  /\ \A p \in Pushes : SF_vars(TakesKeyOver(p))

-----------------------------------------------------------------------------
(* Properties. *)

(* README.md:187: "the queue entry's id is the idempotency key, so a resend never applies    *)
(* twice".  It does when the first answer was not stored: see RepeatsOnlyWhatWasLost.       *)
NeverAppliedTwice == \A e \in Posts : made[e] <= 1

(* A POST takes effect again only for an answer lost on its way to the key: whatever pushes  *)
(* race, are given up and sent again, claim, key and mapping let no other effect through.   *)
RepeatsOnlyWhatWasLost == \A e \in Posts : made[e] <= 1 + lost[e]

(* "Applied" is never said of a change that did not happen. *)
AppliedIsTrue == \A p \in Pushes, e \in Entries : results[p][e] = "applied" => made[e] > 0

(* A POST that took effect is answered with a refusal or a conflict only if all that is known *)
(* of its effects was lost on the way to the key: one whose answer was stored never is.     *)
RefusalIsTrue ==
  \A p \in Pushes : \A e \in Posts :
    Uses[e] = {} /\ results[p][e] \in {"conflict", "rejected"} => made[e] = lost[e]

(* What a device is told of a change is what became of it, the first time and every other,   *)
(* as far as any answer of the change was stored.                                           *)
ReportsAreTrue == AppliedIsTrue /\ RefusalIsTrue

(* An entry is claimed before it runs: two pushes never run a POST at once, though a dead    *)
(* push's claim can be taken over by both (its Idempotency-Key decides; RunPending).        *)
PostRunByOne ==
  \A p, q \in Pushes : \A e \in Posts : AtRoute(p, e) /\ AtRoute(q, e) => p = q

(* Applied in order: an entry is not refused for an offline id that an earlier entry of the *)
(* queue creates, unless that entry was refused itself.                                     *)
OrderedAfterParents ==
  \A p \in Pushes, e \in Entries :
    results[p][e] = "rejected" /\ e \notin Invalid =>
      \E d \in Posts : CidOf[d] \in Uses[e] /\ d \in Invalid

(* Every queued change is settled in the end, through lost answers, deaths and claims left  *)
(* behind by them.                                                                          *)
EveryEntrySettles == \A e \in Entries : <>(settled[e] # "none")
=============================================================================

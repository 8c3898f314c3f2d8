---------------------------- MODULE Services_proofs -----------------------------
(***************************************************************************)
(* What the server agrees on with others, for every value of the constants *)
(* of the composition TLC checks: with its clients over a key              *)
(* (Idempotency), with itself over what is queued (JobQueue), with the     *)
(* gateway over plans (Subscriptions) and payments (OnlinePayments), with  *)
(* the portals over returns (Filing) and documents (Compliance).  JobQueue *)
(* is proved in a module of its own and carried over.                      *)
(***************************************************************************)
EXTENDS MCServices, Sequences, SumTheorems, SequenceTheorems

-----------------------------------------------------------------------------
(* Idempotency.  What fails and dies is left open wherever the result does not need it. *)

(* A request that reaches onSend has an outcome, which is what Send stores and answers. *)
SendHasOutcome == \A r \in Reqs : pc[r] = "send" => outcome[r] \in Outcomes
(* What a request sees of the row's age was so when it started, and ages only grow. *)
AsOfIsPast == \A r \in Reqs : Exists => (asOf[r].stale => key.stale) /\ (asOf[r].expired => key.expired)
TInv == TypeOK /\ SendHasOutcome /\ AsOfIsPast

(* What the middleware does to the row. *)
Renewed(k) == [k EXCEPT !.stale = FALSE, !.expired = FALSE]
GrownStale(k) == [k EXCEPT !.stale = TRUE]
GrownOld(k) == [k EXCEPT !.expired = TRUE]
Stored(k, o) == [k EXCEPT !.response = o]
(* All of it but its age, and all of it but its response. *)
SameCall(k, l) == l.body = k.body /\ l.response = k.response
SameAge(k, l) == l.stale = k.stale /\ l.expired = k.expired

LEMMA RowFields ==
  /\ NoRow \notin KeyRow
  /\ \A r \in Reqs : Claim(r) \in KeyRow
  /\ \A k \in KeyRow : Renewed(k) \in KeyRow /\ SameCall(k, Renewed(k)) /\ ~Renewed(k).stale /\ ~Renewed(k).expired
  /\ \A k \in KeyRow : GrownStale(k) \in KeyRow /\ SameCall(k, GrownStale(k))
                      /\ GrownStale(k).stale /\ GrownStale(k).expired = k.expired
  /\ \A k \in KeyRow : GrownOld(k) \in KeyRow /\ SameCall(k, GrownOld(k))
                      /\ GrownOld(k).expired /\ GrownOld(k).stale = k.stale
  /\ \A k \in KeyRow : \A o \in {"ok", "refused"} :
       Stored(k, o) \in KeyRow /\ Stored(k, o).response = o /\ Stored(k, o).body = k.body /\ SameAge(k, Stored(k, o))
<1>1. NoRow \notin KeyRow
  <2> SUFFICES ASSUME NoRow \in KeyRow PROVE FALSE
    OBVIOUS
  <2>1. "response" \in DOMAIN NoRow
    BY DEF KeyRow
  <2> QED BY <2>1 DEF NoRow
<1>2. \A r \in Reqs : Claim(r) \in KeyRow
  BY ConstantsAssumption DEF Claim, KeyRow
<1>3. \A k \in KeyRow : Renewed(k) \in KeyRow /\ SameCall(k, Renewed(k)) /\ ~Renewed(k).stale /\ ~Renewed(k).expired
  BY DEF KeyRow, Renewed, SameCall
<1>4. \A k \in KeyRow : GrownStale(k) \in KeyRow /\ SameCall(k, GrownStale(k))
                     /\ GrownStale(k).stale /\ GrownStale(k).expired = k.expired
  BY DEF KeyRow, GrownStale, SameCall
<1>5. \A k \in KeyRow : GrownOld(k) \in KeyRow /\ SameCall(k, GrownOld(k))
                     /\ GrownOld(k).expired /\ GrownOld(k).stale = k.stale
  BY DEF KeyRow, GrownOld, SameCall
<1>6. \A k \in KeyRow : \A o \in {"ok", "refused"} :
       Stored(k, o) \in KeyRow /\ Stored(k, o).response = o /\ Stored(k, o).body = k.body /\ SameAge(k, Stored(k, o))
  BY DEF KeyRow, Stored, SameAge
<1> QED BY <1>1, <1>2, <1>3, <1>4, <1>5, <1>6

LEMMA Aging ==
  \A k \in KeyRow : \A l : l = GrownStale(k) \/ l = GrownOld(k) =>
    l \in KeyRow /\ SameCall(k, l) /\ (k.stale => l.stale) /\ (k.expired => l.expired)
BY DEF KeyRow, GrownStale, GrownOld, SameCall

LEMMA Storing ==
  \A k \in KeyRow : \A l : (\E o \in {"ok", "refused"} : l = Stored(k, o)) =>
    l \in KeyRow /\ l.body = k.body /\ (k.stale => l.stale) /\ (k.expired => l.expired)
BY DEF KeyRow, Stored

LEMMA NewIsNotPast ==
  /\ NewToAll \in [Reqs -> Age]
  /\ \A r \in Reqs : ~NewToAll[r].stale /\ ~NewToAll[r].expired
BY DEF NewToAll, Age

(* A step that leaves the row and what is seen of its age alone keeps AsOfIsPast; so does   *)
(* one that only ages the row, forgets it, or stores an answer in it.                        *)
LEMMA PastStaysPast ==
  ASSUME AsOfIsPast, UNCHANGED asOf,
         key' = NoRow \/ key' = key
         \/ (Exists /\ (key.stale => key'.stale) /\ (key.expired => key'.expired))
  PROVE  AsOfIsPast'
BY DEF AsOfIsPast, Exists

LEMMA TypesKept == TInv /\ [Next]_vars => TInv'
<1> USE ConstantsAssumption DEF TInv, SendHasOutcome, TypeOK, Goto, Outcomes
<1> SUFFICES ASSUME TInv, [Next]_vars PROVE TInv'
  OBVIOUS
<1>0. faults' = faults
  BY DEF Next, vars
<1> USE <1>0
<1>1. CASE UNCHANGED vars
  BY <1>1 DEF vars, AsOfIsPast, Exists
<1>2. ASSUME NEW r \in Reqs, Insert(r) PROVE TInv'
  <2>1. CASE Exists
    <3>1. key \in KeyRow /\ [stale |-> key.stale, expired |-> key.expired] \in Age
      BY <2>1 DEF Exists, KeyRow, Age
    <3>2. key' = key /\ asOf' = [asOf EXCEPT ![r] = [stale |-> key.stale, expired |-> key.expired]]
      BY <1>2, <2>1 DEF Insert
    <3>3. asOf' \in [Reqs -> Age]
      BY <3>1, <3>2
    <3>4. AsOfIsPast'
      BY <3>2 DEF AsOfIsPast, Exists
    <3> QED BY <1>2, <2>1, <3>2, <3>3, <3>4 DEF Insert
  <2>2. CASE ~Exists
    <3>1. key' \in KeyRow /\ asOf' = NewToAll
      BY ZenonT(60), <1>2, <2>2, RowFields DEF Insert
    <3>2. AsOfIsPast'
      BY <3>1, NewIsNotPast DEF AsOfIsPast
    <3> QED BY <1>2, <2>2, <3>1, <3>2, NewIsNotPast DEF Insert, Run
  <2> QED BY <2>1, <2>2
<1>3. ASSUME NEW r \in Reqs, Vanished(r) PROVE TInv'
  BY <1>3, PastStaysPast DEF Vanished, Run
<1>4. ASSUME NEW r \in Reqs, FoundExpired(r) PROVE TInv'
  BY <1>4, PastStaysPast DEF FoundExpired
<1>5. ASSUME NEW r \in Reqs, FoundOtherBody(r) PROVE TInv'
  BY <1>5, PastStaysPast DEF FoundOtherBody, Answer
<1>6. ASSUME NEW r \in Reqs, FoundPending(r) PROVE TInv'
  BY <1>6, PastStaysPast DEF FoundPending
<1>7. ASSUME NEW r \in Reqs, Replay(r) PROVE TInv'
  <2>1. key \in KeyRow => key.response \in {"pending", "ok", "refused"}
    BY DEF KeyRow
  <2> QED BY <1>7, <2>1, PastStaysPast DEF Replay, Answer, Exists
<1>8. ASSUME NEW r \in Reqs, Forget(r) PROVE TInv'
  BY <1>8, PastStaysPast DEF Forget, Run
<1>9. ASSUME NEW r \in Reqs, TakeOver(r) PROVE TInv'
  <2> DEFINE Passes == Exists /\ key.response = "pending" /\ asOf[r].stale
  <2>1. CASE Passes
    <3>0. key' = Renewed(key) /\ asOf' = NewToAll /\ key \in KeyRow
      BY <1>9, <2>1 DEF TakeOver, TakeOverTo, Exists, Renewed
    <3>1. key' \in KeyRow /\ asOf' = NewToAll
      BY <3>0, RowFields
    <3>2. AsOfIsPast'
      BY <3>1, NewIsNotPast DEF AsOfIsPast
    <3> QED BY <1>9, <2>1, <3>1, <3>2, NewIsNotPast DEF TakeOver, TakeOverTo, Run
  <2>2. CASE ~Passes
    BY <1>9, <2>2, PastStaysPast DEF TakeOver, TakeOverTo, Answer
  <2> QED BY <2>1, <2>2
<1>10. ASSUME NEW r \in Reqs, NEW o \in Outcomes, Handle(r, o) PROVE TInv'
  BY <1>10, PastStaysPast DEF Handle
<1>11. ASSUME NEW r \in Reqs, Send(r) PROVE TInv'
  <2>1. key' = key \/ key' = NoRow \/ (key \in KeyRow /\ Exists /\ \E o \in {"ok", "refused"} : key' = Stored(key, o))
    BY <1>11 DEF Send, Exists, Stored
  <2>2. key' = key \/ key' = NoRow
        \/ (Exists /\ key' \in KeyRow /\ (key.stale => key'.stale) /\ (key.expired => key'.expired))
    BY <2>1, Storing
  <2>3. AsOfIsPast'
    BY <1>11, <2>2, PastStaysPast DEF Send
  <2> QED BY <1>11, <2>2, <2>3 DEF Send, Answer
<1>12. ASSUME NEW r \in Reqs, Die(r) PROVE TInv'
  BY <1>12, PastStaysPast DEF Die
<1>13. CASE ClaimGrowsStale \/ KeyExpires
  <2>1. Exists /\ key \in KeyRow /\ (key' = GrownStale(key) \/ key' = GrownOld(key))
    BY <1>13 DEF ClaimGrowsStale, KeyExpires, Exists, GrownStale, GrownOld
  <2>2. key' \in KeyRow /\ (key.stale => key'.stale) /\ (key.expired => key'.expired)
    BY <2>1, Aging
  <2>3. AsOfIsPast'
    BY <1>13, <2>1, <2>2, PastStaysPast DEF ClaimGrowsStale, KeyExpires
  <2> QED BY <1>13, <2>2, <2>3 DEF ClaimGrowsStale, KeyExpires
<1>14. CASE Purge
  BY <1>14, PastStaysPast DEF Purge
<1> QED
  BY <1>1, <1>2, <1>3, <1>4, <1>5, <1>6, <1>7, <1>8, <1>9, <1>10, <1>11, <1>12, <1>13, <1>14 DEF Next, Step

LEMMA TypesStart == Init => TInv
BY ConstantsAssumption, NewIsNotPast DEF Init, TInv, SendHasOutcome, AsOfIsPast, TypeOK, Faults

(* Type correctness of the middleware's state, whatever fails, dies and expires. *)
THEOREM TypeCorrect == Spec => []TypeOK
<1>1. TInv => TypeOK
  BY DEF TInv
<1> QED BY <1>1, TypesStart, TypesKept, PTL DEF Spec

-----------------------------------------------------------------------------
(* Within the 24 hours of a key: whoever runs holding it has a pending row that is not      *)
(* stale, so nobody can take it over, and nothing but its own Send touches the response.    *)
Fresh == Exists /\ key.response = "pending" /\ ~key.stale
HolderIsFresh == \A r \in Reqs : Running(r) /\ keyed[r] => Fresh
Lasting == (Exists => ~key.expired) /\ \A r \in Reqs : pc[r] # "forget"
OneHolder == \A r, q \in Reqs : Running(r) /\ keyed[r] /\ Running(q) /\ keyed[q] => r = q
HInv == TInv /\ Lasting /\ HolderIsFresh /\ OneHolder

(* A step that leaves the row alone and starts no holder keeps it. *)
LEMMA NoNewHolder ==
  ASSUME HInv, TInv', key' = key, \A r \in Reqs : pc'[r] # "forget",
         \A r \in Reqs : (Running(r) /\ keyed[r])' => Running(r) /\ keyed[r]
  PROVE  HInv'
BY DEF HInv, Lasting, HolderIsFresh, OneHolder, Fresh, Exists

(* A request that starts to run with the key, when nobody does, on a fresh row. *)
LEMMA NewHolder ==
  ASSUME HInv, TInv', NEW r \in Reqs, Run(r, TRUE), Fresh', ~key'.expired,
         \A q \in Reqs : ~(Running(q) /\ keyed[q])
  PROVE  HInv'
<1>1. \A q \in Reqs : q # r => pc'[q] = pc[q] /\ keyed'[q] = keyed[q]
  BY DEF Run, Goto, HInv, TInv, TypeOK
<1>2. pc'[r] = "handler"
  BY DEF Run, Goto, HInv, TInv, TypeOK
<1>3. \A q \in Reqs : (Running(q) /\ keyed[q])' => q = r
  BY <1>1 DEF Running
<1>4. \A q \in Reqs : pc'[q] # "forget"
  BY <1>1, <1>2 DEF HInv, Lasting
<1> QED BY <1>3, <1>4 DEF HInv, Lasting, HolderIsFresh, OneHolder

LEMMA HoldersKept ==
  ASSUME "expire" \notin faults, HInv, [Next]_vars
  PROVE  HInv'
<1>t. TInv /\ TInv' /\ Lasting
  BY TypesKept DEF HInv
<1> USE <1>t
<1>1. CASE UNCHANGED vars
  BY <1>1, NoNewHolder DEF vars, Running, Lasting
<1>2. ASSUME NEW r \in Reqs, Insert(r) PROVE HInv'
  <2>1. CASE Exists
    BY ZenonT(60), <1>2, <2>1, NoNewHolder DEF Insert, Goto, Running, TInv, TypeOK, Lasting
  <2>2. CASE ~Exists
    <3>1. key' = Claim(r) /\ Run(r, TRUE) /\ Claim(r) \in KeyRow
      BY <1>2, <2>2, ConstantsAssumption DEF Insert, Claim, KeyRow
    <3>2. Fresh' /\ ~key'.expired
      BY <3>1, RowFields DEF Fresh, Exists, Claim
    <3>3. \A q \in Reqs : ~(Running(q) /\ keyed[q])
      BY <2>2 DEF HInv, HolderIsFresh, Fresh
    <3> QED BY <3>1, <3>2, <3>3, NewHolder
  <2> QED BY <2>1, <2>2
<1>3. ASSUME NEW r \in Reqs, Vanished(r) PROVE HInv'
  BY <1>3, NoNewHolder DEF Vanished, Run, Goto, Running, TInv, TypeOK, Lasting
<1>4. ASSUME NEW r \in Reqs, FoundExpired(r) PROVE HInv'
  BY <1>4 DEF FoundExpired, Lasting, TInv, AsOfIsPast
<1>5. ASSUME NEW r \in Reqs, FoundOtherBody(r) \/ FoundPending(r) \/ Replay(r) PROVE HInv'
  <2>1. PICK l \in {"answered", "takeover"} : Goto(r, l)
    BY <1>5 DEF FoundOtherBody, FoundPending, Replay, Answer
  <2>2. UNCHANGED <<key, keyed>>
    BY <1>5 DEF FoundOtherBody, FoundPending, Replay
  <2> QED BY <2>1, <2>2, NoNewHolder DEF Goto, Running, TInv, TypeOK, Lasting
<1>6. ASSUME NEW r \in Reqs, Forget(r) PROVE HInv'
  BY <1>6 DEF Forget, Lasting
<1>7. ASSUME NEW r \in Reqs, TakeOver(r) PROVE HInv'
  <2> DEFINE Passes == Exists /\ key.response = "pending" /\ asOf[r].stale
  <2>1. CASE Passes
    <3>1. key' = Renewed(key) /\ Run(r, TRUE)
      BY <1>7, <2>1 DEF TakeOver, TakeOverTo, Renewed
    <3>2. key \in KeyRow
      BY <2>1 DEF TInv, TypeOK, Exists
    <3>3. Fresh' /\ ~key'.expired
      BY <2>1, <3>1, <3>2, RowFields DEF Fresh, Exists, SameCall
    <3>4. \A q \in Reqs : ~(Running(q) /\ keyed[q])
      BY <2>1 DEF HInv, HolderIsFresh, Fresh, TInv, AsOfIsPast
    <3> QED BY <3>1, <3>3, <3>4, NewHolder
  <2>2. CASE ~Passes
    <3>1. Goto(r, "answered") /\ UNCHANGED <<key, keyed>>
      BY <1>7, <2>2 DEF TakeOver, TakeOverTo, Answer
    <3> QED BY <3>1, NoNewHolder DEF Goto, Running, TInv, TypeOK, Lasting
  <2> QED BY <2>1, <2>2
<1>8. ASSUME NEW r \in Reqs, NEW o \in Outcomes, Handle(r, o) PROVE HInv'
  BY <1>8, NoNewHolder DEF Handle, Goto, Running, TInv, TypeOK, Lasting
<1>9. ASSUME NEW r \in Reqs, Send(r) PROVE HInv'
  <2>1. /\ \A q \in Reqs : pc'[q] # "forget"
        /\ \A q \in Reqs : (Running(q) /\ keyed[q])' => Running(q) /\ keyed[q] /\ q # r
    BY <1>9 DEF Send, Answer, Goto, Running, TInv, TypeOK, Lasting
  <2>2. CASE ~keyed[r] \/ ~Exists
    BY <1>9, <2>1, <2>2, NoNewHolder DEF Send
  <2>3. CASE keyed[r] /\ Exists
    <3>1. \A q \in Reqs : ~(Running(q) /\ keyed[q])'
      BY <1>9, <2>1, <2>3 DEF Send, Running, HInv, OneHolder
    <3>2. key' = NoRow \/ (key \in KeyRow /\ \E o \in {"ok", "refused"} : key' = Stored(key, o))
      BY <1>9, <2>3 DEF Send, TInv, TypeOK, SendHasOutcome, Outcomes, Exists, Stored
    <3>3. (Exists => ~key.expired)'
      <4>1. CASE key' = NoRow
        BY <4>1 DEF Exists
      <4>2. CASE key \in KeyRow /\ \E o \in {"ok", "refused"} : key' = Stored(key, o)
        BY <2>3, <4>2, RowFields DEF Lasting, SameAge
      <4> QED BY <3>2, <4>1, <4>2
    <3> QED BY <2>1, <3>1, <3>3 DEF HInv, Lasting, HolderIsFresh, OneHolder
  <2> QED BY <2>2, <2>3
<1>10. ASSUME NEW r \in Reqs, Die(r) PROVE HInv'
  BY <1>10, NoNewHolder DEF Die, Goto, Running, TInv, TypeOK, Lasting
<1>11. CASE ClaimGrowsStale
  <2>1. /\ \A q \in Reqs : ~(Running(q) /\ keyed[q])' /\ pc'[q] # "forget"
        /\ key \in KeyRow /\ Exists /\ key' = GrownStale(key)
    BY <1>11 DEF ClaimGrowsStale, Running, Lasting, TInv, TypeOK, Exists, GrownStale
  <2>2. (Exists => ~key.expired)'
    BY <2>1, RowFields DEF Lasting, Exists
  <2> QED BY <2>1, <2>2 DEF HInv, Lasting, HolderIsFresh, OneHolder
<1>12. CASE KeyExpires
  BY <1>12 DEF KeyExpires
<1>13. CASE Purge
  BY <1>13 DEF Purge, Lasting
<1> QED
  BY <1>1, <1>2, <1>3, <1>4, <1>5, <1>6, <1>7, <1>8, <1>9, <1>10, <1>11, <1>12, <1>13 DEF Next, Step

LEMMA HoldersStart == Init => HInv
BY TypesStart DEF Init, HInv, Lasting, HolderIsFresh, OneHolder, Running, Exists

(* The strengthening holds of every behaviour in which the key does not expire. *)
LEMMA HoldersAlways == Spec => []("expire" \notin faults => HInv)
<1> DEFINE I == "expire" \notin faults => HInv
<1>1. Init => I
  BY HoldersStart
<1>2. I /\ [Next]_vars => I'
  BY HoldersKept DEF Next, vars
<1> QED BY <1>1, <1>2, PTL DEF Spec

(* OneHolderRuns: within a key's 24 hours no two requests run holding it, whatever fails    *)
(* and dies.                                                                                *)
THEOREM OneHolderAtATime == Spec => []OneHolderRuns
<1>1. ("expire" \notin faults => HInv) => OneHolderRuns
  BY DEF HInv, OneHolder, OneHolderRuns
<1> QED BY <1>1, HoldersAlways, PTL

(* StoredIsFinal: within a key's 24 hours a stored response is never replaced or dropped.   *)
THEOREM ResponseIsFinal == Spec => StoredIsFinal
<1> DEFINE Final == Exists /\ "expire" \notin faults /\ key.response # "pending" /\ ~key.expired
                      => key'.response = key.response
<1>1. ("expire" \notin faults => HInv) /\ [Next]_vars => [Final]_vars
  <2> SUFFICES ASSUME "expire" \notin faults, HInv, Next, Exists, key.response # "pending"
               PROVE  key'.response = key.response
    OBVIOUS
  <2>1. key \in KeyRow /\ Lasting
    BY DEF HInv, TInv, TypeOK, Exists
  <2>2. ASSUME NEW r \in Reqs, Send(r) PROVE key' = key
    BY <2>2 DEF Send, HInv, HolderIsFresh, Fresh, Running
  <2>3. CASE ClaimGrowsStale
    BY <2>1, <2>3, RowFields DEF ClaimGrowsStale, GrownStale, SameCall
  <2>4. ASSUME NEW r \in Reqs, TakeOver(r) PROVE key' = key
    BY <2>4 DEF TakeOver, TakeOverTo
  <2>5. ASSUME NEW r \in Reqs, Insert(r) PROVE key' = key
    BY <2>5 DEF Insert
  <2>6. CASE KeyExpires \/ Purge \/ \E r \in Reqs : Forget(r)
    BY <2>1, <2>6 DEF KeyExpires, Purge, Forget, Lasting
  <2> QED
    BY <2>2, <2>3, <2>4, <2>5, <2>6
    DEF Next, Step, Vanished, FoundExpired, FoundOtherBody, FoundPending, Replay, Handle, Die
<1> QED BY <1>1, HoldersAlways, PTL DEF Spec, StoredIsFinal, ResponseKept

-----------------------------------------------------------------------------
(* When no handler fails and no request dies after its commit, the row is there from the    *)
(* first request on, everyone who runs holds it, and an effect is stored before anyone      *)
(* could run again.                                                                         *)
RowStays == \A r \in Reqs : pc[r] \in {"select", "takeover"} => Exists
RunnersHold == \A r \in Reqs : Running(r) => keyed[r]
Decides == \A r \in Reqs : (pc[r] = "handler" => effects = {}) /\ (pc[r] = "send" => outcome[r] # "failed")
EffectIsHeld == /\ ~Exists => effects = {}
                /\ Exists /\ key.response = "pending" => \A q \in effects : pc[q] = "send"
OneEffect == \A r, q \in effects : r = q
EInv == HInv /\ RowStays /\ RunnersHold /\ Decides /\ EffectIsHeld /\ OneEffect

LEMMA EffectsKept ==
  ASSUME faults = {}, EInv, [Next]_vars
  PROVE  EInv'
<1>h. HInv /\ HInv' /\ Lasting /\ TInv
  BY HoldersKept DEF EInv, HInv
<1> USE <1>h
<1> USE DEF EInv, RowStays, RunnersHold, Decides, EffectIsHeld, OneEffect, Running
<1>1. CASE UNCHANGED vars
  BY <1>1 DEF vars, Exists
<1>2. ASSUME NEW r \in Reqs, Insert(r) PROVE EInv'
  <2>1. CASE Exists
    BY ZenonT(60), <1>2, <2>1 DEF Insert, Goto, TInv, TypeOK, Exists
  <2>2. CASE ~Exists
    <3>0. effects = {} /\ effects' = {} /\ key' = Claim(r)
      BY <1>2, <2>2 DEF Insert
    <3>1. Exists'
      BY <3>0, RowFields DEF Exists
    <3> QED BY <1>2, <2>2, <3>0, <3>1 DEF Insert, Run, Goto, TInv, TypeOK, Exists
  <2> QED BY <2>1, <2>2
<1>3. ASSUME NEW r \in Reqs, Vanished(r) PROVE EInv'
  BY <1>3 DEF Vanished
<1>4. ASSUME NEW r \in Reqs, FoundExpired(r) \/ Forget(r) PROVE EInv'
  BY <1>4 DEF FoundExpired, Forget, Lasting, TInv, AsOfIsPast
<1>5. ASSUME NEW r \in Reqs, FoundOtherBody(r) \/ FoundPending(r) \/ Replay(r) PROVE EInv'
  <2>1. PICK l \in {"answered", "takeover"} : Goto(r, l)
    BY <1>5 DEF FoundOtherBody, FoundPending, Replay, Answer
  <2>2. UNCHANGED <<key, keyed, outcome, effects>> /\ pc[r] = "select"
    BY <1>5 DEF FoundOtherBody, FoundPending, Replay
  <2> QED BY <2>1, <2>2 DEF Goto, TInv, TypeOK, Exists
<1>6. ASSUME NEW r \in Reqs, TakeOver(r) PROVE EInv'
  <2> DEFINE Passes == Exists /\ key.response = "pending" /\ asOf[r].stale
  <2>1. CASE Passes
    <3>1. key' = Renewed(key) /\ Run(r, TRUE) /\ UNCHANGED <<outcome, effects>>
      BY <1>6, <2>1 DEF TakeOver, TakeOverTo, Renewed
    <3>2. effects = {}
      BY <2>1 DEF HInv, HolderIsFresh, Fresh, TInv, TypeOK, AsOfIsPast
    <3>3. key \in KeyRow
      BY <2>1 DEF TInv, TypeOK, Exists
    <3>4. Exists'
      BY <3>1, <3>3, RowFields DEF Exists
    <3> QED BY <3>1, <3>2, <3>4 DEF Run, Goto, TInv, TypeOK
  <2>2. CASE ~Passes
    BY ZenonT(60), <1>6, <2>2 DEF TakeOver, TakeOverTo, Answer, Goto, TInv, TypeOK, Exists
  <2> QED BY <2>1, <2>2
<1>7. ASSUME NEW r \in Reqs, NEW o \in Outcomes, Handle(r, o) PROVE EInv'
  <2>1. \A q \in Reqs : Running(q) => q = r
    BY <1>7 DEF Handle, HInv, OneHolder
  <2>2. effects = {} /\ effects' \subseteq {r} /\ pc'[r] = "send" /\ Exists /\ o # "failed"
    BY ZenonT(60), <1>7 DEF Handle, Goto, TInv, TypeOK, HInv, HolderIsFresh, Fresh
  <2> QED BY <1>7, <2>1, <2>2 DEF Handle, Goto, TInv, TypeOK, Exists
<1>8. ASSUME NEW r \in Reqs, Send(r) PROVE EInv'
  <2>1. \A q \in Reqs : Running(q) => q = r
    BY <1>8 DEF Send, HInv, OneHolder
  <2>2. key \in KeyRow /\ outcome[r] \in {"ok", "refused"} /\ key' = Stored(key, outcome[r])
    BY <1>8 DEF Send, HInv, HolderIsFresh, Fresh, TInv, SendHasOutcome, Outcomes, TypeOK, Exists, Stored
  <2>3. Exists' /\ key'.response # "pending"
    BY <2>2, RowFields DEF Exists
  <2> QED BY <1>8, <2>1, <2>3 DEF Send, Answer, Goto, TInv, TypeOK
<1>9. ASSUME NEW r \in Reqs, Die(r) PROVE EInv'
  BY <1>9 DEF Die, Goto, TInv, TypeOK, Exists
<1>10. CASE ClaimGrowsStale
  <2>1. key \in KeyRow /\ Exists /\ key' = GrownStale(key)
    BY <1>10 DEF ClaimGrowsStale, TInv, TypeOK, Exists, GrownStale
  <2>2. Exists' /\ key'.response = key.response
    BY <2>1, RowFields DEF Exists, SameCall
  <2> QED BY <1>10, <2>1, <2>2 DEF ClaimGrowsStale
<1>11. CASE KeyExpires \/ Purge
  BY <1>11 DEF KeyExpires, Purge, Lasting
<1> QED
  BY <1>1, <1>2, <1>3, <1>4, <1>5, <1>6, <1>7, <1>8, <1>9, <1>10, <1>11 DEF Next, Step

LEMMA EffectsStart == Init => EInv
BY HoldersStart DEF Init, EInv, RowStays, RunnersHold, Decides, EffectIsHeld, OneEffect, Running, Exists

(* AtMostOneEffect: however often and concurrently a request is retried, its handler        *)
(* commits at most once.                                                                    *)
THEOREM AtMostOnce == Spec => []AtMostOneEffect
<1> DEFINE I == faults = {} => EInv
<1>1. Init => I
  BY EffectsStart
<1>2. I /\ [Next]_vars => I'
  BY EffectsKept DEF Next, vars
<1>3. I => AtMostOneEffect
  BY DEF EInv, OneEffect, AtMostOneEffect
<1> QED BY <1>1, <1>2, <1>3, PTL DEF Spec

-----------------------------------------------------------------------------
(* What requests are told is of something that happened: a handler that ended well has its  *)
(* effect, and a stored success is one of them, within the 24 hours of the row's own body,  *)
(* because whoever runs holding the key, or may still take it over, asked for that body.    *)
SuccessIsEffect == \A r \in Reqs : outcome[r] = "ok" => r \in effects
StoredSuccess == Exists /\ key.response = "ok" => \E q \in effects : "expire" \notin faults => BodyOf[q] = key.body
HolderBody == \A r \in Reqs : Running(r) /\ keyed[r] => key.body = BodyOf[r]
TakerBody == \A r \in Reqs : pc[r] = "takeover" /\ asOf[r].stale /\ Exists => key.body = BodyOf[r]
BodiesKept == "expire" \notin faults => HInv /\ HolderBody /\ TakerBody
PInv == TInv /\ SuccessIsEffect /\ StoredSuccess /\ NoPhantomSuccess /\ BodiesKept

(* A step that starts nobody and leaves the row's call alone keeps what is known of bodies. *)
LEMMA BodiesStay ==
  ASSUME HolderBody, TakerBody, HInv', asOf' = asOf,
         key' = key \/ ~Exists' \/ (Exists /\ key'.body = key.body),
         \A r \in Reqs : (Running(r) /\ keyed[r])' => Running(r) /\ keyed[r] /\ Exists,
         \A r \in Reqs : pc'[r] = "takeover" => pc[r] = "takeover"
  PROVE  (HolderBody /\ TakerBody)'
<1>1. HolderBody'
  BY DEF HolderBody, HInv, HolderIsFresh, Fresh
<1>2. TakerBody'
  BY DEF TakerBody, Exists
<1> QED BY <1>1, <1>2

(* A request that starts to run on a row of its own body, when every age is anew. *)
LEMMA BodiesAnew ==
  ASSUME TInv, NEW r \in Reqs, Run(r, TRUE), asOf' = NewToAll, key'.body = BodyOf[r],
         \A q \in Reqs : ~(Running(q) /\ keyed[q])
  PROVE  (HolderBody /\ TakerBody)'
<1>1. \A q \in Reqs : q # r => pc'[q] = pc[q] /\ keyed'[q] = keyed[q]
  BY DEF Run, Goto, TInv, TypeOK
<1>2. HolderBody'
  BY <1>1 DEF HolderBody, Running
<1>3. TakerBody'
  BY NewIsNotPast DEF TakerBody
<1> QED BY <1>2, <1>3

(* What is answered and stored stays true when nothing new is answered or stored. *)
LEMMA NothingTold ==
  ASSUME SuccessIsEffect, StoredSuccess, NoPhantomSuccess, UNCHANGED <<faults, outcome, answer, effects>>,
         key' = key \/ ~Exists' \/ key'.response # "ok"
         \/ (Exists /\ key'.response = key.response /\ key'.body = key.body)
  PROVE  (SuccessIsEffect /\ StoredSuccess /\ NoPhantomSuccess)'
BY DEF SuccessIsEffect, StoredSuccess, NoPhantomSuccess, Exists

LEMMA BodiesAlways == PInv /\ [Next]_vars => PInv'
<1> SUFFICES ASSUME PInv, [Next]_vars PROVE PInv'
  OBVIOUS
<1>t. TInv /\ TInv' /\ faults' = faults
  BY TypesKept DEF PInv, Next, vars
<1>h. "expire" \notin faults => HInv /\ HInv' /\ HolderBody /\ TakerBody
  BY HoldersKept DEF PInv, BodiesKept
<1>s. SuccessIsEffect /\ StoredSuccess /\ NoPhantomSuccess
  BY DEF PInv
<1> USE <1>t, <1>h, <1>s
<1>1. CASE UNCHANGED vars
  <2>1. ("expire" \notin faults => HolderBody /\ TakerBody)'
    BY <1>1 DEF vars, HolderBody, TakerBody, Running, Exists
  <2> QED BY <1>1, <2>1, NothingTold DEF vars, PInv, BodiesKept
<1>2. ASSUME NEW r \in Reqs, Insert(r) PROVE PInv'
  <2>1. CASE Exists
    <3>0. UNCHANGED <<key, keyed, outcome, answer, effects>> /\ Goto(r, "select")
          /\ \A q \in Reqs : q # r => asOf'[q] = asOf[q]
      BY <1>2, <2>1 DEF Insert, TInv, TypeOK
    <3>1. (SuccessIsEffect /\ StoredSuccess /\ NoPhantomSuccess)'
      BY <3>0, NothingTold
    <3>2. ("expire" \notin faults => HolderBody /\ TakerBody)'
      BY <3>0 DEF HolderBody, TakerBody, Running, Goto, TInv, TypeOK, Exists
    <3> QED BY <3>1, <3>2 DEF PInv, BodiesKept
  <2>2. CASE ~Exists
    <3>0. UNCHANGED <<outcome, answer, effects>> /\ key' = Claim(r) /\ asOf' = NewToAll /\ Run(r, TRUE)
      BY <1>2, <2>2 DEF Insert
    <3>1. key'.response # "ok" /\ key'.body = BodyOf[r]
      BY <3>0 DEF Claim
    <3>2. (SuccessIsEffect /\ StoredSuccess /\ NoPhantomSuccess)'
      BY <3>0, <3>1, NothingTold
    <3>3. ("expire" \notin faults => HolderBody /\ TakerBody)'
      BY <2>2, <3>0, <3>1, BodiesAnew DEF HInv, HolderIsFresh, Fresh
    <3> QED BY <3>2, <3>3 DEF PInv, BodiesKept
  <2> QED BY <2>1, <2>2
<1>3. ASSUME NEW r \in Reqs, Vanished(r) \/ FoundExpired(r) \/ FoundOtherBody(r) \/ Die(r) PROVE PInv'
  <2>0. /\ UNCHANGED <<key, asOf, outcome, effects>>
        /\ \/ UNCHANGED answer
           \/ answer' = [answer EXCEPT ![r] = "reused"]
    BY <1>3 DEF Vanished, FoundExpired, FoundOtherBody, Die, Answer
  <2>1. (SuccessIsEffect /\ StoredSuccess /\ NoPhantomSuccess)'
    BY ZenonT(60), <2>0 DEF SuccessIsEffect, StoredSuccess, NoPhantomSuccess, TInv, TypeOK, Exists
  <2>2. /\ \A q \in Reqs : (Running(q) /\ keyed[q])' => Running(q) /\ keyed[q]
        /\ \A q \in Reqs : pc'[q] = "takeover" => pc[q] = "takeover"
    BY ZenonT(60), <1>3 DEF Vanished, FoundExpired, FoundOtherBody, Die, Answer, Run, Goto, Running, TInv, TypeOK
  <2>3. ("expire" \notin faults => HolderBody /\ TakerBody)'
    BY <2>0, <2>2, BodiesStay DEF HInv, HolderIsFresh, Fresh
  <2> QED BY <2>1, <2>3 DEF PInv, BodiesKept
<1>4. ASSUME NEW r \in Reqs, FoundPending(r) PROVE PInv'
  <2>0. UNCHANGED <<key, asOf, keyed, outcome, answer, effects>> /\ Goto(r, "takeover") /\ key.body = BodyOf[r]
    BY <1>4 DEF FoundPending
  <2>1. (SuccessIsEffect /\ StoredSuccess /\ NoPhantomSuccess)'
    BY <2>0, NothingTold
  <2>2. ("expire" \notin faults => HolderBody /\ TakerBody)'
    BY <2>0 DEF HolderBody, TakerBody, Running, Goto, TInv, TypeOK, Exists
  <2> QED BY <2>1, <2>2 DEF PInv, BodiesKept
<1>5. ASSUME NEW r \in Reqs, Replay(r) PROVE PInv'
  <2>0. UNCHANGED <<key, asOf, keyed, outcome, effects>> /\ Answer(r, key.response) /\ Exists /\ key.body = BodyOf[r]
    BY <1>5 DEF Replay
  <2>1. (SuccessIsEffect /\ StoredSuccess)'
    BY <2>0 DEF SuccessIsEffect, StoredSuccess, Exists
  <2>2. NoPhantomSuccess'
    BY <2>0 DEF NoPhantomSuccess, StoredSuccess, Answer, TInv, TypeOK
  <2>3. /\ \A q \in Reqs : (Running(q) /\ keyed[q])' => Running(q) /\ keyed[q]
        /\ \A q \in Reqs : pc'[q] = "takeover" => pc[q] = "takeover"
    BY <2>0 DEF Answer, Goto, Running, TInv, TypeOK
  <2>4. ("expire" \notin faults => HolderBody /\ TakerBody)'
    BY <2>0, <2>3, BodiesStay
  <2> QED BY <2>1, <2>2, <2>4 DEF PInv, BodiesKept
<1>6. ASSUME NEW r \in Reqs, Forget(r) PROVE PInv'
  <2>1. (SuccessIsEffect /\ StoredSuccess /\ NoPhantomSuccess)'
    BY <1>6, NothingTold DEF Forget, Exists
  <2>2. "expire" \in faults
    BY <1>6 DEF Forget, HInv, Lasting
  <2> QED BY <2>1, <2>2 DEF PInv, BodiesKept
<1>7. ASSUME NEW r \in Reqs, TakeOver(r) PROVE PInv'
  <2> DEFINE Passes == Exists /\ key.response = "pending" /\ asOf[r].stale
  <2>1. CASE Passes
    <3>0. UNCHANGED <<outcome, answer, effects>> /\ key' = Renewed(key) /\ asOf' = NewToAll /\ Run(r, TRUE)
      BY <1>7, <2>1 DEF TakeOver, TakeOverTo, Renewed
    <3>1. key \in KeyRow
      BY <2>1 DEF TInv, TypeOK, Exists
    <3>2. key'.response = key.response /\ key'.body = key.body
      BY <3>0, <3>1, RowFields DEF SameCall
    <3>3. (SuccessIsEffect /\ StoredSuccess /\ NoPhantomSuccess)'
      BY <2>1, <3>0, <3>2, NothingTold
    <3>4. "expire" \notin faults => key.body = BodyOf[r] /\ \A q \in Reqs : ~(Running(q) /\ keyed[q])
      BY <1>7, <2>1 DEF TakeOver, TakeOverTo, TakerBody, HInv, HolderIsFresh, Fresh, TInv, AsOfIsPast
    <3>5. ("expire" \notin faults => HolderBody /\ TakerBody)'
      BY <3>0, <3>2, <3>4, BodiesAnew
    <3> QED BY <3>3, <3>5 DEF PInv, BodiesKept
  <2>2. CASE ~Passes
    <3>0. UNCHANGED <<key, asOf, keyed, outcome, effects>> /\ Answer(r, "in progress")
      BY <1>7, <2>2 DEF TakeOver, TakeOverTo
    <3>1. (SuccessIsEffect /\ StoredSuccess /\ NoPhantomSuccess)'
      BY <3>0 DEF SuccessIsEffect, StoredSuccess, NoPhantomSuccess, Answer, TInv, TypeOK, Exists
    <3>2. /\ \A q \in Reqs : (Running(q) /\ keyed[q])' => Running(q) /\ keyed[q]
          /\ \A q \in Reqs : pc'[q] = "takeover" => pc[q] = "takeover"
      BY <3>0 DEF Answer, Goto, Running, TInv, TypeOK
    <3>3. ("expire" \notin faults => HolderBody /\ TakerBody)'
      BY <3>0, <3>2, BodiesStay DEF HInv, HolderIsFresh, Fresh
    <3> QED BY <3>1, <3>3 DEF PInv, BodiesKept
  <2> QED BY <2>1, <2>2
<1>8. ASSUME NEW r \in Reqs, NEW o \in Outcomes, Handle(r, o) PROVE PInv'
  <2>0. /\ UNCHANGED <<key, asOf, keyed, answer>> /\ Goto(r, "send") /\ pc[r] = "handler"
        /\ outcome' = [outcome EXCEPT ![r] = o] /\ effects \subseteq effects' /\ (o = "ok" => r \in effects')
    BY <1>8 DEF Handle
  <2>1. (SuccessIsEffect /\ StoredSuccess /\ NoPhantomSuccess)'
    BY <2>0 DEF SuccessIsEffect, StoredSuccess, NoPhantomSuccess, TInv, TypeOK, Exists
  <2>2. /\ \A q \in Reqs : (Running(q) /\ keyed[q])' => Running(q) /\ keyed[q]
        /\ \A q \in Reqs : pc'[q] = "takeover" => pc[q] = "takeover"
    BY <2>0 DEF Goto, Running, TInv, TypeOK
  <2>3. ("expire" \notin faults => HolderBody /\ TakerBody)'
    BY <2>0, <2>2, BodiesStay DEF HInv, HolderIsFresh, Fresh
  <2> QED BY <2>1, <2>3 DEF PInv, BodiesKept
<1>9. ASSUME NEW r \in Reqs, Send(r) PROVE PInv'
  <2>0. UNCHANGED <<asOf, keyed, outcome, effects>> /\ Answer(r, outcome[r]) /\ pc[r] = "send"
    BY <1>9 DEF Send
  <2>1. SuccessIsEffect' /\ NoPhantomSuccess'
    BY <2>0 DEF SuccessIsEffect, NoPhantomSuccess, Answer, TInv, TypeOK
  <2>2. /\ \A q \in Reqs : (Running(q) /\ keyed[q])' => Running(q) /\ keyed[q]
        /\ \A q \in Reqs : pc'[q] = "takeover" => pc[q] = "takeover"
    BY <2>0 DEF Answer, Goto, Running, TInv, TypeOK
  <2>3. CASE key' = key
    BY <2>0, <2>1, <2>2, <2>3, BodiesStay DEF PInv, BodiesKept, StoredSuccess, Exists, HInv, HolderIsFresh, Fresh
  <2>4. CASE key' = NoRow
    BY <2>0, <2>1, <2>2, <2>4, BodiesStay DEF PInv, BodiesKept, StoredSuccess, Exists, HInv, HolderIsFresh, Fresh
  <2>5. CASE Exists /\ keyed[r] /\ outcome[r] \in {"ok", "refused"} /\ key' = Stored(key, outcome[r])
    <3>1. key \in KeyRow
      BY <2>5 DEF TInv, TypeOK, Exists
    <3>2. key'.body = key.body /\ key'.response = outcome[r]
      BY <2>5, <3>1, RowFields
    <3>3. "expire" \notin faults => key.body = BodyOf[r]
      BY <2>0, <2>5 DEF HolderBody, Running
    <3>4. StoredSuccess'
      BY <2>0, <3>2, <3>3 DEF StoredSuccess, SuccessIsEffect
    <3>5. ("expire" \notin faults => HolderBody /\ TakerBody)'
      BY <2>0, <2>2, <2>5, <3>2, BodiesStay
    <3> QED BY <2>1, <3>4, <3>5 DEF PInv, BodiesKept
  <2>6. key' = key \/ key' = NoRow
        \/ (Exists /\ keyed[r] /\ outcome[r] \in {"ok", "refused"} /\ key' = Stored(key, outcome[r]))
    BY <1>9 DEF Send, TInv, SendHasOutcome, Outcomes, Stored
  <2> QED BY <2>3, <2>4, <2>5, <2>6
<1>10. CASE ClaimGrowsStale \/ KeyExpires
  <2>0. /\ Exists /\ key \in KeyRow /\ (key' = GrownStale(key) \/ key' = GrownOld(key))
        /\ UNCHANGED <<asOf, pc, keyed, outcome, answer, effects>>
    BY <1>10 DEF ClaimGrowsStale, KeyExpires, TInv, TypeOK, Exists, GrownStale, GrownOld
  <2>1. key'.response = key.response /\ key'.body = key.body
    BY <2>0, Aging DEF SameCall
  <2>2. (SuccessIsEffect /\ StoredSuccess /\ NoPhantomSuccess)'
    BY <2>0, <2>1, NothingTold
  <2>3. ("expire" \notin faults => HolderBody /\ TakerBody)'
    BY <2>0, <2>1, BodiesStay DEF Running
  <2> QED BY <2>2, <2>3 DEF PInv, BodiesKept
<1>11. CASE Purge
  <2>0. key' = NoRow /\ UNCHANGED <<asOf, pc, keyed, outcome, answer, effects>>
    BY <1>11 DEF Purge
  <2>1. (SuccessIsEffect /\ StoredSuccess /\ NoPhantomSuccess)'
    BY <2>0, NothingTold DEF Exists
  <2>2. "expire" \in faults
    BY <1>11 DEF Purge, HInv, Lasting
  <2> QED BY <2>1, <2>2 DEF PInv, BodiesKept
<1> QED
  BY <1>1, <1>2, <1>3, <1>4, <1>5, <1>6, <1>7, <1>8, <1>9, <1>10, <1>11 DEF Next, Step

LEMMA BodiesStart == Init => PInv
BY TypesStart, HoldersStart
DEF Init, PInv, SuccessIsEffect, StoredSuccess, NoPhantomSuccess, BodiesKept, HolderBody, TakerBody, Running, Exists

-----------------------------------------------------------------------------
(* As long as nothing frees the key, whoever ever got it asked for the row's body: the row  *)
(* stays, so it is claimed once, and later holders only took the claim over.                *)
KeyedIsMine == \A r \in Reqs : keyed[r] => Exists /\ key.body = BodyOf[r]
TakerIsMine == \A r \in Reqs : pc[r] = "takeover" => Exists /\ key.body = BodyOf[r]
NoneFailed == \A r \in Reqs : pc[r] = "send" => outcome[r] # "failed"
KInv == HInv /\ KeyedIsMine /\ TakerIsMine /\ NoneFailed

(* A step that keeps the row's body and keys nobody new but for that body. *)
LEMMA KeepsBody ==
  ASSUME KInv, HInv', Exists => Exists' /\ key'.body = key.body, NoneFailed',
         \A r \in Reqs : keyed'[r] => keyed[r] \/ (Exists' /\ key'.body = BodyOf[r]),
         \A r \in Reqs : pc'[r] = "takeover" => pc[r] = "takeover" \/ (Exists' /\ key'.body = BodyOf[r])
  PROVE  KInv'
BY DEF KInv, KeyedIsMine, TakerIsMine

LEMMA OneBodyKept ==
  ASSUME faults \subseteq {"late"}, KInv, [Next]_vars
  PROVE  KInv'
<1>t. /\ HInv /\ HInv' /\ TInv /\ Lasting /\ "expire" \notin faults /\ "fail" \notin faults
      /\ KeyedIsMine /\ TakerIsMine /\ NoneFailed
  BY HoldersKept DEF KInv, HInv
<1> USE <1>t
<1>1. CASE UNCHANGED vars
  BY <1>1 DEF vars, KInv, KeyedIsMine, TakerIsMine, NoneFailed, Exists
<1>2. ASSUME NEW r \in Reqs, Insert(r) PROVE KInv'
  <2>1. NoneFailed'
    BY <1>2 DEF Insert, Run, Goto, NoneFailed, TInv, TypeOK
  <2>2. CASE Exists
    BY <1>2, <2>1, <2>2, KeepsBody DEF Insert, Goto, TInv, TypeOK, Exists
  <2>3. CASE ~Exists
    <3>1. key' = Claim(r) /\ Run(r, TRUE) /\ Claim(r) \in KeyRow
      BY <1>2, <2>3, RowFields DEF Insert
    <3>2. Exists' /\ key'.body = BodyOf[r]
      BY <3>1, RowFields DEF Exists, Claim
    <3> QED BY <2>1, <2>3, <3>1, <3>2, KeepsBody DEF Run, Goto, TInv, TypeOK, KeyedIsMine
  <2> QED BY <2>2, <2>3
<1>3. ASSUME NEW r \in Reqs, Vanished(r) \/ FoundExpired(r) \/ FoundOtherBody(r) \/ Replay(r) \/ Die(r) PROVE KInv'
  <2>1. key' = key /\ outcome' = outcome
    BY <1>3 DEF Vanished, FoundExpired, FoundOtherBody, Replay, Die
  <2>2. \A q \in Reqs : (keyed'[q] => keyed[q]) /\ (pc'[q] \in {"takeover", "send"} => pc'[q] = pc[q])
    BY <1>3 DEF Vanished, FoundExpired, FoundOtherBody, Replay, Die, Answer, Run, Goto, TInv, TypeOK
  <2> QED BY <2>1, <2>2, KeepsBody DEF NoneFailed, Exists
<1>4. ASSUME NEW r \in Reqs, FoundPending(r) PROVE KInv'
  BY <1>4, KeepsBody DEF FoundPending, Goto, TInv, TypeOK, NoneFailed, Exists
<1>5. ASSUME NEW r \in Reqs, Forget(r) PROVE KInv'
  BY <1>5 DEF Forget, Lasting
<1>6. ASSUME NEW r \in Reqs, TakeOver(r) PROVE KInv'
  <2>0. NoneFailed' /\ \A q \in Reqs : pc'[q] # "takeover" \/ pc[q] = "takeover"
    BY ZenonT(60), <1>6 DEF TakeOver, TakeOverTo, Run, Answer, Goto, NoneFailed, TInv, TypeOK
  <2> DEFINE Passes == Exists /\ key.response = "pending" /\ asOf[r].stale
  <2>1. CASE Passes
    <3>1. key' = Renewed(key) /\ Run(r, TRUE) /\ key \in KeyRow /\ key.body = BodyOf[r]
      BY <1>6, <2>1 DEF TakeOver, TakeOverTo, Renewed, TakerIsMine, TInv, TypeOK, Exists
    <3>2. Exists' /\ key'.body = key.body
      BY <3>1, RowFields DEF Exists, SameCall
    <3> QED BY <2>0, <3>1, <3>2, KeepsBody DEF Run, TInv, TypeOK
  <2>2. CASE ~Passes
    BY <1>6, <2>0, <2>2, KeepsBody DEF TakeOver, TakeOverTo, Exists
  <2> QED BY <2>1, <2>2
<1>7. ASSUME NEW r \in Reqs, NEW o \in Outcomes, Handle(r, o) PROVE KInv'
  <2>1. NoneFailed'
    BY <1>7 DEF Handle, Goto, NoneFailed, TInv, TypeOK
  <2> QED BY <1>7, <2>1, KeepsBody DEF Handle, Goto, TInv, TypeOK, Exists
<1>8. ASSUME NEW r \in Reqs, Send(r) PROVE KInv'
  <2>0. NoneFailed' /\ keyed' = keyed /\ \A q \in Reqs : pc'[q] # "takeover" \/ pc[q] = "takeover"
    BY <1>8 DEF Send, Answer, Goto, NoneFailed, TInv, TypeOK
  <2>1. key' = key \/ (Exists /\ outcome[r] \in {"ok", "refused"} /\ key' = Stored(key, outcome[r]))
    BY <1>8 DEF Send, NoneFailed, TInv, SendHasOutcome, Outcomes, Stored
  <2>2. ASSUME Exists PROVE Exists' /\ key'.body = key.body
    <3>1. CASE key' = key
      BY <2>2, <3>1 DEF Exists
    <3>2. CASE outcome[r] \in {"ok", "refused"} /\ key' = Stored(key, outcome[r])
      <4>1. key' \in KeyRow /\ key'.body = key.body
        BY <2>2, <3>2, RowFields DEF TInv, TypeOK, Exists
      <4> QED BY <4>1, RowFields DEF Exists
    <3> QED BY <2>1, <3>1, <3>2
  <2> QED BY <2>0, <2>2, KeepsBody
<1>9. CASE ClaimGrowsStale
  <2>1. key \in KeyRow /\ key' = GrownStale(key) /\ UNCHANGED <<pc, keyed, outcome>>
    BY <1>9 DEF ClaimGrowsStale, TInv, TypeOK, Exists, GrownStale
  <2>2. Exists' /\ key'.body = key.body
    BY <2>1, Aging, RowFields DEF SameCall, Exists
  <2> QED BY <2>1, <2>2, KeepsBody DEF NoneFailed
<1>10. CASE KeyExpires \/ Purge
  BY <1>10 DEF KeyExpires, Purge, Lasting
<1> QED
  BY <1>1, <1>2, <1>3, <1>4, <1>5, <1>6, <1>7, <1>8, <1>9, <1>10 DEF Next, Step

(* AnswersHold: the key stands for one body, what a client is told happened (to its own     *)
(* body), and a stored answer is the same every time.                                       *)
THEOREM AnswersAlwaysHold == Spec => AnswersHold
<1> DEFINE K == faults \subseteq {"late"} => KInv
<1>1. Init => K
  BY HoldersStart DEF Init, KInv, KeyedIsMine, TakerIsMine, NoneFailed
<1>2. K /\ [Next]_vars => K'
  BY OneBodyKept DEF Next, vars
<1>3. K => OneBodyPerKey
  BY DEF KInv, KeyedIsMine, OneBodyPerKey
<1>4. PInv => NoPhantomSuccess
  BY DEF PInv
<1>5. [ResponseKept /\ OneBodyPerKey' /\ NoPhantomSuccess']_vars
        => [OneBodyPerKey' /\ NoPhantomSuccess' /\ ResponseKept]_vars
  OBVIOUS
<1> QED BY <1>1, <1>2, <1>3, <1>4, BodiesStart, BodiesAlways, ResponseIsFinal, PTL DEF Spec, AnswersHold, StoredIsFinal

-----------------------------------------------------------------------------
(* The refinement of OnceOnly.  When nothing fails, the one handler that ends decides, what *)
(* it decided is in the row or about to be sent, and nobody was told anything else.         *)
Final == {"ok", "refused"}
EndedIsKept == \A q \in Ended : outcome[q] \in Final /\ (pc[q] = "send" \/ (Exists /\ key.response = outcome[q]))
EndsOnce == \A q, s \in Ended : q = s
ToldIsStored == \A r \in Reqs : answer[r] # "failed" /\ (answer[r] \in Final => Exists /\ key.response = answer[r])
StoredIsEnded == Exists /\ key.response # "pending" => \E q \in Ended : outcome[q] = key.response
ToldAtTheEnd == \A r \in Reqs : answer[r] # "none" => pc[r] = "answered"
DInv == EInv /\ EndedIsKept /\ EndsOnce /\ ToldIsStored /\ StoredIsEnded /\ ToldAtTheEnd

LEMMA DecisionIs ==
  ASSUME faults = {}, EndsOnce, NEW q \in Ended
  PROVE  Decision = outcome[q]
<1>1. (CHOOSE r \in Ended : TRUE) \in Ended
  OBVIOUS
<1> QED BY <1>1 DEF Decision, EndsOnce

LEMMA SameDecision ==
  ASSUME UNCHANGED <<faults, outcome>>
  PROVE  Ended' = Ended /\ Decision' = Decision
<1>1. Ended' = Ended
  BY DEF Ended
<1> QED BY <1>1 DEF Decision

(* Nothing is decided and nobody told, and the row holds no other answer than before. *)
LEMMA NothingDecided ==
  ASSUME DInv, EInv', UNCHANGED <<faults, outcome, answer>>,
         \A q \in Reqs : pc[q] \in {"send", "answered"} => pc'[q] = pc[q],
         key' = key \/ (~Exists /\ key'.response = "pending") \/ (Exists /\ Exists' /\ key'.response = key.response)
  PROVE  DInv' /\ UNCHANGED <<Decision, Told>>
<1>1. Ended' = Ended
  BY SameDecision
<1>2. UNCHANGED <<Decision, Told>>
  BY SameDecision DEF Told
<1>3. EndedIsKept'
  <2> SUFFICES ASSUME NEW q \in Ended
                  PROVE outcome[q] \in Final /\ (pc'[q] = "send" \/ (Exists' /\ key'.response = outcome[q]))
    BY <1>1 DEF EndedIsKept
  <2>1. q \in Reqs /\ outcome[q] \in Final /\ (pc[q] = "send" \/ (Exists /\ key.response = outcome[q]))
    BY DEF DInv, EndedIsKept, Ended
  <2> QED BY <2>1 DEF Exists
<1>4. EndsOnce'
  BY <1>1 DEF DInv, EndsOnce
<1>5. ToldIsStored' /\ ToldAtTheEnd'
  BY DEF DInv, ToldIsStored, ToldAtTheEnd, Exists
<1>6. StoredIsEnded'
  BY <1>1 DEF DInv, StoredIsEnded, Exists
<1> QED BY <1>2, <1>3, <1>4, <1>5, <1>6 DEF DInv

(* One request is answered without an outcome. *)
LEMMA PutOff ==
  ASSUME faults = {}, DInv, EInv', NEW r \in Reqs, UNCHANGED <<faults, key, outcome>>,
         pc[r] \in {"select", "takeover"}, NEW a \in {"reused", "in progress"}, Answer(r, a)
  PROVE  DInv' /\ Once!Next
<1>0. TInv /\ ToldAtTheEnd
  BY DEF DInv, EInv, HInv
<1> USE <1>0
<1>1. Ended' = Ended /\ Decision' = Decision
  BY SameDecision
<1>2. answer[r] = "none" /\ answer' = [answer EXCEPT ![r] = a]
  BY DEF ToldAtTheEnd, Answer
<1>3. Told[r] = "none" /\ Told' = [Told EXCEPT ![r] = "later"]
  BY <1>2 DEF Told, TInv, TypeOK
<1>4. EndedIsKept'
  <2> SUFFICES ASSUME NEW q \in Ended
                  PROVE outcome[q] \in Final /\ (pc'[q] = "send" \/ (Exists /\ key.response = outcome[q]))
    BY <1>1 DEF EndedIsKept, Exists
  <2>1. q \in Reqs /\ outcome[q] \in Final /\ (pc[q] = "send" \/ (Exists /\ key.response = outcome[q]))
    BY DEF DInv, EndedIsKept, Ended
  <2> QED BY <2>1 DEF Answer, Goto, TInv, TypeOK
<1>5. EndsOnce' /\ StoredIsEnded'
  BY <1>1 DEF DInv, EndsOnce, StoredIsEnded, Exists
<1>6. ToldIsStored' /\ ToldAtTheEnd'
  BY ZenonT(60), <1>2 DEF DInv, ToldIsStored, ToldAtTheEnd, Exists, Answer, Goto, TInv, TypeOK, Final
<1> QED BY <1>1, <1>3, <1>4, <1>5, <1>6 DEF DInv, Once!Next, Once!Defer

(* One request is answered what was decided, which is in the row by then. *)
LEMMA ToldTheDecision ==
  ASSUME faults = {}, DInv, EInv', NEW r \in Reqs, UNCHANGED <<faults, outcome>>, NEW q \in Ended,
         pc[r] # "answered", outcome[q] \in Final, Answer(r, outcome[q]), Exists', key'.response = outcome[q]
  PROVE  DInv' /\ Once!Next
<1>0. TInv /\ ToldAtTheEnd /\ EndsOnce
  BY DEF DInv, EInv, HInv
<1> USE <1>0
<1>1. Ended' = Ended /\ Decision' = Decision /\ Decision = outcome[q] /\ outcome[q] # "none"
  BY SameDecision, DecisionIs DEF Ended
<1>2. answer[r] = "none" /\ answer' = [answer EXCEPT ![r] = outcome[q]]
  BY DEF ToldAtTheEnd, Answer
<1>3. Told[r] = "none" /\ Told' = [Told EXCEPT ![r] = outcome[q]]
  BY <1>2 DEF Told, TInv, TypeOK, Final
<1>4. \A s \in Reqs : answer[s] \in Final => answer[s] = outcome[q]
  <2> SUFFICES ASSUME NEW s \in Reqs, answer[s] \in Final PROVE answer[s] = outcome[q]
    OBVIOUS
  <2>1. Exists /\ key.response = answer[s]
    BY DEF DInv, ToldIsStored
  <2>2. \E p \in Ended : outcome[p] = answer[s]
    BY <2>1 DEF DInv, StoredIsEnded, Final
  <2> QED BY <2>2 DEF EndsOnce
<1>5. EndedIsKept' /\ EndsOnce' /\ StoredIsEnded'
  BY <1>1 DEF EndedIsKept, EndsOnce, StoredIsEnded
<1>6. ToldIsStored' /\ ToldAtTheEnd'
  BY ZenonT(60), <1>2, <1>4 DEF DInv, ToldIsStored, ToldAtTheEnd, Answer, Goto, TInv, TypeOK, Final
<1> QED BY <1>1, <1>3, <1>5, <1>6 DEF DInv, Once!Next, Once!Tell

LEMMA StepRefines ==
  ASSUME faults = {}, DInv, [Next]_vars
  PROVE  DInv' /\ [Once!Next]_<<Decision, Told>>
<1>t. /\ EInv /\ EInv' /\ HInv /\ TInv /\ Lasting /\ RowStays /\ RunnersHold /\ Decides /\ HolderIsFresh
      /\ EndedIsKept /\ EndsOnce /\ StoredIsEnded /\ faults' = faults
  BY EffectsKept DEF DInv, EInv, HInv, Next, vars
<1> USE <1>t
<1>1. CASE UNCHANGED vars
  BY <1>1, NothingDecided DEF vars
<1>2. ASSUME NEW r \in Reqs, Insert(r) PROVE DInv' /\ UNCHANGED <<Decision, Told>>
  <2>1. /\ UNCHANGED <<outcome, answer>>
        /\ key' = key \/ (~Exists /\ key'.response = "pending")
        /\ \A q \in Reqs : pc[q] \in {"send", "answered"} => pc'[q] = pc[q]
    <3>1. UNCHANGED <<outcome, answer>> /\ (key' = key \/ (~Exists /\ key' = Claim(r)))
      BY <1>2 DEF Insert
    <3>2. \A q \in Reqs : pc[q] \in {"send", "answered"} => pc'[q] = pc[q]
      BY <1>2 DEF Insert, Run, Goto, TInv, TypeOK
    <3>3. Claim(r).response = "pending"
      BY DEF Claim
    <3> QED BY <3>1, <3>2, <3>3
  <2> QED BY <2>1, NothingDecided
<1>3. ASSUME NEW r \in Reqs, Vanished(r) \/ FoundExpired(r) \/ FoundPending(r) \/ Die(r)
      PROVE DInv' /\ UNCHANGED <<Decision, Told>>
  <2>1. /\ UNCHANGED <<key, outcome, answer>>
        /\ \A q \in Reqs : pc[q] \in {"send", "answered"} => pc'[q] = pc[q]
    BY <1>3 DEF Vanished, FoundExpired, FoundPending, Die, Run, Goto, TInv, TypeOK
  <2> QED BY <2>1, NothingDecided
<1>4. ASSUME NEW r \in Reqs, FoundOtherBody(r) PROVE DInv' /\ Once!Next
  <2>1. pc[r] \in {"select", "takeover"} /\ UNCHANGED <<key, outcome>> /\ Answer(r, "reused")
    BY <1>4 DEF FoundOtherBody
  <2> QED BY <2>1, PutOff
<1>5. ASSUME NEW r \in Reqs, Replay(r) PROVE DInv' /\ Once!Next
  <2>1. Exists /\ key.response # "pending" /\ pc[r] # "answered" /\ Answer(r, key.response)
      /\ UNCHANGED <<key, outcome>>
    BY <1>5 DEF Replay
  <2>2. PICK q \in Ended : outcome[q] = key.response
    BY <2>1 DEF StoredIsEnded
  <2>3. outcome[q] \in Final /\ Exists' /\ key'.response = outcome[q] /\ Answer(r, outcome[q])
    BY <2>1, <2>2 DEF EndedIsKept, Exists
  <2> QED BY <2>1, <2>3, ToldTheDecision
<1>6. ASSUME NEW r \in Reqs, Forget(r) PROVE FALSE
  BY <1>6 DEF Forget, Lasting
<1>7. ASSUME NEW r \in Reqs, TakeOver(r) PROVE DInv' /\ [Once!Next]_<<Decision, Told>>
  <2> DEFINE Passes == Exists /\ key.response = "pending" /\ asOf[r].stale
  <2>1. CASE Passes
    <3>1. /\ UNCHANGED <<outcome, answer>> /\ key' = Renewed(key) /\ key \in KeyRow
          /\ \A q \in Reqs : pc[q] \in {"send", "answered"} => pc'[q] = pc[q]
      BY <1>7, <2>1 DEF TakeOver, TakeOverTo, Renewed, Run, Goto, TInv, TypeOK, Exists
    <3>2. Exists' /\ key'.response = key.response
      BY <3>1, RowFields DEF Exists, SameCall
    <3> QED BY <2>1, <3>1, <3>2, NothingDecided
  <2>2. CASE ~Passes
    <3>1. pc[r] \in {"select", "takeover"} /\ UNCHANGED <<key, outcome>> /\ Answer(r, "in progress")
      BY <1>7, <2>2 DEF TakeOver, TakeOverTo
    <3> QED BY <3>1, PutOff
  <2> QED BY <2>1, <2>2
<1>8. ASSUME NEW r \in Reqs, NEW o \in Outcomes, Handle(r, o) PROVE DInv' /\ Once!Next
  <2>1. \A q \in Reqs : Running(q) => q = r
    BY <1>8 DEF Handle, HInv, OneHolder, RunnersHold, Running
  <2>2. Exists /\ key.response = "pending"
    BY <1>8 DEF Handle, HolderIsFresh, Fresh, RunnersHold, Running
  <2>3. Ended = {}
    BY <1>8, <2>1, <2>2 DEF Handle, EndedIsKept, Ended, Running, Final
  <2>4. /\ o \in Final /\ UNCHANGED <<key, answer>> /\ outcome' = [outcome EXCEPT ![r] = o]
        /\ Goto(r, "send") /\ pc[r] = "handler"
    BY <1>8 DEF Handle, Outcomes, Final
  <2>5. Ended' = {r} /\ outcome'[r] = o
    BY <2>3, <2>4 DEF Ended, TInv, TypeOK, Final
  <2>6. Decision = "none" /\ Decision' = o
    BY <2>3, <2>4, <2>5 DEF Decision
  <2>7. Told' = Told
    BY <2>4 DEF Told
  <2>8. EndedIsKept' /\ EndsOnce' /\ ToldIsStored' /\ StoredIsEnded' /\ ToldAtTheEnd'
    BY <2>2, <2>4, <2>5 DEF DInv, EndedIsKept, EndsOnce, ToldIsStored, StoredIsEnded, ToldAtTheEnd, Exists,
       Goto, TInv, TypeOK
  <2> QED BY <2>4, <2>6, <2>7, <2>8 DEF DInv, Once!Next, Once!Decide, Final
<1>9. ASSUME NEW r \in Reqs, Send(r) PROVE DInv' /\ Once!Next
  <2>1. Running(r) /\ keyed[r] /\ Exists /\ outcome[r] \in Final
    BY <1>9 DEF Send, Running, RunnersHold, HolderIsFresh, Fresh, Decides, TInv, SendHasOutcome, Outcomes, Final
  <2>2. key \in KeyRow /\ key' = Stored(key, outcome[r])
    BY <1>9, <2>1 DEF Send, Stored, Final, TInv, TypeOK, Exists
  <2>3. Exists' /\ key'.response = outcome[r]
    BY <2>1, <2>2, RowFields DEF Exists, Final
  <2>4. r \in Ended /\ pc[r] # "answered" /\ Answer(r, outcome[r]) /\ UNCHANGED outcome
    BY <1>9, <2>1 DEF Send, Ended, Final
  <2> QED BY <2>1, <2>3, <2>4, ToldTheDecision
<1>10. CASE ClaimGrowsStale
  <2>1. UNCHANGED <<pc, outcome, answer>> /\ Exists /\ key \in KeyRow /\ key' = GrownStale(key)
    BY <1>10 DEF ClaimGrowsStale, GrownStale, TInv, TypeOK, Exists
  <2>2. Exists' /\ key'.response = key.response
    BY <2>1, Aging, RowFields DEF Exists, SameCall
  <2> QED BY <2>1, <2>2, NothingDecided
<1>11. CASE KeyExpires \/ Purge
  BY <1>11 DEF KeyExpires, Purge, Lasting
<1> QED
  BY <1>1, <1>2, <1>3, <1>4, <1>5, <1>6, <1>7, <1>8, <1>9, <1>10, <1>11 DEF Next, Step

(* ImplementsOnceOnly: the middleware implements OnceOnly for any number of requests and    *)
(* bodies: one decision, and whoever is told an outcome is told that one.                   *)
THEOREM OneDecision == Spec => ImplementsOnceOnly
<1> DEFINE I == faults = {} => DInv
<1>1. Init => I /\ Once!Init
  BY EffectsStart DEF Init, DInv, EndedIsKept, EndsOnce, ToldIsStored, StoredIsEnded, ToldAtTheEnd, Ended,
     Exists, Decision, Told, Once!Init, Final
<1>2. I /\ [Next]_vars => I' /\ [Once!Next]_<<Decision, Told>>
  <2> SUFFICES ASSUME I, [Next]_vars PROVE I' /\ [Once!Next]_<<Decision, Told>>
    OBVIOUS
  <2>1. faults' = faults
    BY DEF Next, vars
  <2>2. CASE faults = {}
    BY <2>1, <2>2, StepRefines
  <2>3. CASE faults # {}
    BY <2>1, <2>3 DEF Decision, Told
  <2> QED BY <2>2, <2>3
<1> QED BY <1>1, <1>2, PTL DEF Spec, ImplementsOnceOnly, Once!Spec

-----------------------------------------------------------------------------
(* JobQueue *)

QueueP == INSTANCE JobQueue_proofs WITH
  row <- jRow, scheduleRuns <- jScheduleRuns, periodOf <- jPeriodOf, proc <- jProc, running <- jRunning,
  unfinished <- jUnfinished, poll <- jPoll, runs <- jRuns, claims <- jClaims, succeeded <- jSucceeded,
  stops <- jStops, crashes <- jCrashes

(* The composition takes the steps the proofs are about. *)
LEMMA QueueNext == Queue!Next => QueueP!Next
<1> SUFFICES ASSUME Queue!Next PROVE QueueP!Next
  OBVIOUS
<1>1. ASSUME NEW j \in Jobs,
             Queue!Prune(j) \/ Queue!BecomeDue(j) \/ Queue!LeaseLapses(j)
      PROVE  QueueP!Prune(j) \/ QueueP!BecomeDue(j) \/ QueueP!LeaseLapses(j)
  BY <1>1 DEF Queue!Prune, Queue!procVars, Queue!BecomeDue, Queue!LeaseLapses, QueueP!Prune, QueueP!procVars,
      QueueP!BecomeDue, QueueP!LeaseLapses
<1>2. ASSUME NEW j \in Jobs, NEW k \in Keys \cup {NoKey}, NEW due \in BOOLEAN,
             Queue!Enqueue(j, k, due)
      PROVE  QueueP!Enqueue(j, k, due)
  BY <1>2 DEF Queue!Enqueue, Queue!KeyFree, Queue!Live, Queue!Queued, Queue!procVars, QueueP!Enqueue, QueueP!KeyFree,
      QueueP!Live, QueueP!Queued, QueueP!procVars
<1>3. ASSUME NEW w \in Workers, NEW p \in Periods, NEW j \in Jobs,
             Queue!TickSchedules(w, p, j)
      PROVE  QueueP!TickSchedules(w, p, j)
  BY <1>3 DEF Queue!TickSchedules, Queue!EnqueueOnce, Queue!Queued, Queue!procVars, QueueP!TickSchedules,
      QueueP!EnqueueOnce, QueueP!Queued, QueueP!procVars
<1>4. ASSUME NEW w \in Workers, NEW s \in Slots,
             Queue!PollBegins(w, s) \/ Queue!BuryExhausted(w, s) \/ Queue!PollFails(w, s)
             \/ Queue!StartRuns(w, s)
      PROVE  QueueP!PollBegins(w, s) \/ QueueP!BuryExhausted(w, s) \/ QueueP!PollFails(w, s)
             \/ QueueP!StartRuns(w, s)
  BY <1>4 DEF Queue!PollBegins, Queue!BuryExhausted, Queue!Exhausted, Queue!PollFails, Queue!IdlePoll,
      Queue!StartRuns, Queue!Cardinality, QueueP!PollBegins, QueueP!BuryExhausted, QueueP!Exhausted,
      QueueP!PollFails, QueueP!IdlePoll, QueueP!StartRuns, QueueP!Cardinality
<1>5. ASSUME NEW w \in Workers, NEW s \in Slots, NEW S \in SUBSET Jobs,
             Queue!Claim(w, s, S) \/ Queue!ClaimAnswerLost(w, s, S)
      PROVE  QueueP!Claim(w, s, S) \/ QueueP!ClaimAnswerLost(w, s, S)
  BY <1>5 DEF Queue!Claim, Queue!ClaimSet, Queue!Claimable, Queue!Exhausted, Queue!Claimed, Queue!ClaimAnswerLost,
      Queue!IdlePoll, Queue!Cardinality, QueueP!Claim, QueueP!ClaimSet, QueueP!Claimable, QueueP!Exhausted,
      QueueP!Claimed, QueueP!ClaimAnswerLost, QueueP!IdlePoll, QueueP!Cardinality
<1>6. ASSUME NEW r \in jRuns,
             Queue!Heartbeat(r) \/ Queue!Finish(r) \/ Queue!FinishFails(r)
      PROVE  QueueP!Heartbeat(r) \/ QueueP!Finish(r) \/ QueueP!FinishFails(r)
  BY <1>6 DEF Queue!Heartbeat, Queue!Mine, Queue!procVars, Queue!Finish, Queue!Outcome, Queue!RunOver,
      Queue!FinishFails, QueueP!Heartbeat, QueueP!Mine, QueueP!procVars, QueueP!Finish, QueueP!Outcome,
      QueueP!RunOver, QueueP!FinishFails
<1>7. ASSUME NEW r \in jRuns, NEW ph \in {"ok", "error"}, Queue!HandlerEnds(r, ph) PROVE QueueP!HandlerEnds(r, ph)
  BY <1>7 DEF Queue!HandlerEnds, QueueP!HandlerEnds
<1>8. ASSUME NEW w \in Workers,
             Queue!StopBegins(w) \/ Queue!StopHandsBack(w) \/ Queue!Exit(w) \/ Queue!Crash(w)
             \/ Queue!Boot(w)
      PROVE  QueueP!StopBegins(w) \/ QueueP!StopHandsBack(w) \/ QueueP!Exit(w) \/ QueueP!Crash(w)
             \/ QueueP!Boot(w)
  BY <1>8 DEF Queue!StopBegins, Queue!StopHandsBack, Queue!HandedBack, Queue!Exit, Queue!Gone, Queue!IdlePoll,
      Queue!Crash, Queue!Boot, QueueP!StopBegins, QueueP!StopHandsBack, QueueP!HandedBack, QueueP!Exit,
      QueueP!Gone, QueueP!IdlePoll, QueueP!Crash, QueueP!Boot
<1> QED BY <1>1, <1>2, <1>3, <1>4, <1>5, <1>6, <1>7, <1>8 DEF Queue!Next, QueueP!Next

LEMMA QueueRuns == AllSpec => QueueP!Spec
<1>1. AllInit => QueueP!Init
  BY DEF AllInit, Queue!Init, Queue!IdlePoll, QueueP!Init, QueueP!IdlePoll
<1>2. [AllNext]_<<focus, idem, jobs, gst, billing, online, filing>> => [QueueP!Next]_QueueP!vars
  BY QueueNext DEF AllNext, jobs, QueueP!vars
<1> QED BY <1>1, <1>2, PTL DEF AllSpec, QueueP!Spec

(* The work of one period is queued once and no key has two live jobs, for any jobs, keys, workers and bounds. *)
THEOREM QueuedOnce == AllSpec => []NoDuplicateWork
<1>1. QueueP!Spec => []QueueP!NoDuplicateWork
  BY PartsAssumption, QueueP!NeverTwice
<1>2. QueueP!NoDuplicateWork => NoDuplicateWork
  BY DEF NoDuplicateWork, Queue!NoDuplicateWork, Queue!Live, QueueP!NoDuplicateWork, QueueP!Live
<1> QED BY <1>1, <1>2, QueueRuns, PTL

-----------------------------------------------------------------------------
(* Subscriptions *)

BillingProcs == Checkouts \cup Deliveries
SubStatuses == {"created", "offered", "live", "ending", "ended"}
BillingBounded == {MaxSubs, MaxSent, MaxEvents} \subseteq Nat

(* The gateway's subscription of an open checkout is new, and that checkout's alone. *)
CheckoutIsNew ==
  /\ \A p \in BillingProcs : sTask[p].op = "checkout" => sSubs[sTask[p].n].status = "created"
  /\ \A p, q \in BillingProcs : sTask[p].op = "checkout" /\ sTask[q].op = "checkout" /\ sTask[p].n = sTask[q].n
       => p = q

(* A cancellation the gateway has answered is about a subscription that is ending. *)
CancelledIsEnding ==
  \A p \in BillingProcs : sTask[p].op = "cancelled" => sSubs[sTask[p].n].status \in {"ending", "ended"}

ActiveHasSub == sRow.status = "active" => sRow.sub # Billing!NoSub

BillingInv == Billing!TypeOK /\ CheckoutIsNew /\ CancelledIsEnding /\ ActiveHasSub /\ Billing!PlanAgreesWithRow
    /\ Billing!CancelledStopsBilling

(* What appending does to a sequence *)
LEMMA Appended ==
  ASSUME NEW S, NEW s \in Seq(S), NEW e \in S
  PROVE  /\ Append(s, e) \in Seq(S) /\ Len(Append(s, e)) = Len(s) + 1
         /\ DOMAIN Append(s, e) = DOMAIN s \cup {Len(s) + 1} /\ Len(s) + 1 \notin DOMAIN s
         /\ \A i \in DOMAIN s : Append(s, e)[i] = s[i]
         /\ Append(s, e)[Len(s) + 1] = e
<1>1. Len(s) \in Nat /\ DOMAIN s = 1 .. Len(s)
  OBVIOUS
<1>2. Append(s, e) \in Seq(S) /\ Len(Append(s, e)) = Len(s) + 1
  OBVIOUS
<1>3. DOMAIN Append(s, e) = 1 .. Len(s) + 1
  BY <1>1, <1>2
<1> QED BY <1>1, <1>2, <1>3

(* The gateway moves one subscription on. *)
LEMMA MovedOn ==
  ASSUME NEW s \in Seq(Billing!SubsAt), NEW n \in DOMAIN s, NEW st \in SubStatuses
  PROVE  LET t == [s EXCEPT ![n].status = st] IN
         /\ t \in Seq(Billing!SubsAt) /\ Len(t) = Len(s) /\ DOMAIN t = DOMAIN s
         /\ t[n].status = st
         /\ \A i \in DOMAIN s : i # n => t[i] = s[i]
         /\ \A i \in DOMAIN s : t[i].plan \in Plans
<1> DEFINE e == [s[n] EXCEPT !.status = st]
           t == [s EXCEPT ![n] = e]
<1>1. n \in 1 .. Len(s) /\ DOMAIN s = 1 .. Len(s)
  OBVIOUS
<1>2. s[n] \in Billing!SubsAt
  BY <1>1, ElementOfSeq
<1>3. e \in Billing!SubsAt /\ e.status = st
  BY <1>2 DEF Billing!SubsAt, SubStatuses
<1>4. t \in Seq(Billing!SubsAt) /\ Len(t) = Len(s)
  BY <1>1, <1>3, ExceptSeq
<1>5. DOMAIN t = DOMAIN s
  OBVIOUS
<1>6. \A i \in DOMAIN s : t[i] \in Billing!SubsAt
  BY <1>1, <1>4, ElementOfSeq
<1>7. \A i \in DOMAIN s : t[i].plan \in Plans
  BY <1>6 DEF Billing!SubsAt
<1>8. t[n].status = st
  BY <1>1, <1>3
<1> QED BY <1>4, <1>5, <1>7, <1>8

LEMMA BillingStarts == ASSUME BillingBounded, Billing!Init PROVE BillingInv
<1>1. Billing!NoRow \in Billing!Rows
  BY DEF Billing!NoRow, Billing!Rows, Billing!Statuses, Billing!NoSub
<1>2. Billing!Idle \in [op : Billing!Ops, n : Nat, known : Billing!Rows]
  BY <1>1 DEF Billing!Idle, Billing!Ops
<1>3. Billing!TypeOK
  BY <1>1, <1>2 DEF Billing!Init, Billing!TypeOK, BillingBounded, Billing!NoRow, Billing!NoSub, Billing!Idle
<1>4. CheckoutIsNew /\ CancelledIsEnding /\ ActiveHasSub /\ Billing!PlanAgreesWithRow
        /\ Billing!CancelledStopsBilling
  BY DEF Billing!Init, Billing!NoRow, Billing!Idle, BillingProcs, CheckoutIsNew, CancelledIsEnding,
      ActiveHasSub, Billing!PlanAgreesWithRow, Billing!CancelledStopsBilling
<1> QED BY <1>3, <1>4 DEF BillingInv

(* What a process is at stays well typed while it goes on, and while the gateway's lists grow. *)
BillingTaskOK(p) ==
  sTask[p].n \in (CASE sTask[p].op = "none" -> {0} [] sTask[p].op = "webhook" -> DOMAIN sSent [] OTHER -> DOMAIN sSubs)

LEMMA BillingTaskMoves ==
  ASSUME Billing!TypeOK, NEW p \in BillingProcs, NEW t \in [op : Billing!Ops, n : Nat, known : Billing!Rows],
         sTask' = [sTask EXCEPT ![p] = t], DOMAIN sSubs \subseteq DOMAIN sSubs',
         DOMAIN sSent \subseteq DOMAIN sSent',
         t.n \in (CASE t.op = "none" -> {0} [] t.op = "webhook" -> DOMAIN sSent' [] OTHER -> DOMAIN sSubs')
  PROVE  /\ sTask' \in [BillingProcs -> [op : Billing!Ops, n : Nat, known : Billing!Rows]]
         /\ \A q \in BillingProcs : BillingTaskOK(q)'
<1>1. sTask \in [BillingProcs -> [op : Billing!Ops, n : Nat, known : Billing!Rows]]
  BY DEF Billing!TypeOK, BillingProcs
<1>2. ASSUME NEW q \in BillingProcs PROVE BillingTaskOK(q)'
  <2>1. CASE q = p
    BY <1>1, <2>1 DEF BillingTaskOK
  <2>2. CASE q # p
    <3>1. BillingTaskOK(q)
      BY DEF Billing!TypeOK, BillingTaskOK, BillingProcs
    <3>2. sTask'[q] = sTask[q]
      BY <1>1, <2>2
    <3> QED BY <3>1, <3>2 DEF BillingTaskOK
  <2> QED BY <2>1, <2>2
<1> QED BY <1>1, <1>2

LEMMA IdleType == Billing!Idle \in [op : Billing!Ops, n : Nat, known : Billing!Rows]
  BY DEF Billing!Idle, Billing!NoRow, Billing!Rows, Billing!Ops, Billing!Statuses, Billing!NoSub

LEMMA BillingTaskEnds ==
  ASSUME Billing!TypeOK, NEW p \in BillingProcs, Billing!Ends(p),
         DOMAIN sSubs \subseteq DOMAIN sSubs', DOMAIN sSent \subseteq DOMAIN sSent'
  PROVE  /\ sTask' \in [BillingProcs -> [op : Billing!Ops, n : Nat, known : Billing!Rows]]
         /\ \A q \in BillingProcs : BillingTaskOK(q)'
         /\ sTask'[p].op = "none" /\ \A q \in BillingProcs : q # p => sTask'[q] = sTask[q]
<1>1. sTask \in [BillingProcs -> [op : Billing!Ops, n : Nat, known : Billing!Rows]]
  BY DEF Billing!TypeOK, BillingProcs
<1>2. Billing!Idle.n = 0 /\ Billing!Idle.op = "none"
  BY DEF Billing!Idle
<1>3. sTask' \in [BillingProcs -> [op : Billing!Ops, n : Nat, known : Billing!Rows]]
        /\ \A q \in BillingProcs : BillingTaskOK(q)'
  <2> DEFINE t == Billing!Idle
  <2>1. t.n \in (CASE t.op = "none" -> {0} [] t.op = "webhook" -> DOMAIN sSent' [] OTHER -> DOMAIN sSubs')
    BY <1>2
  <2> QED BY <2>1, IdleType, BillingTaskMoves DEF Billing!Ends
<1> QED BY <1>1, <1>2, <1>3 DEF Billing!Ends

(* The gateway's list is kept or moved on at n: who holds an open checkout still holds one of its own. *)
LEMMA GatewayMoves ==
  ASSUME BillingInv, NEW n \in DOMAIN sSubs, NEW st \in SubStatuses, sSubs' = [sSubs EXCEPT ![n].status = st]
  PROVE  /\ sSubs' \in Seq(Billing!SubsAt) /\ Len(sSubs') = Len(sSubs) /\ Len(sSubs') <= MaxSubs
              /\ DOMAIN sSubs' = DOMAIN sSubs
         /\ sSubs'[n].status = st
         /\ \A i \in DOMAIN sSubs : i # n => sSubs'[i] = sSubs[i]
<1> QED BY MovedOn DEF BillingInv, Billing!TypeOK

LEMMA HoldsOf ==
  ASSUME Billing!TypeOK, NEW p \in BillingProcs
  PROVE  /\ sTask[p].op \in {"checkout", "cancel", "cancelled"} => sTask[p].n \in DOMAIN sSubs
         /\ sTask[p].op = "webhook" => sTask[p].n \in DOMAIN sSent
         /\ sTask[p].known \in Billing!Rows
<1>1. sTask[p].n \in
        (CASE sTask[p].op = "none" -> {0} [] sTask[p].op = "webhook" -> DOMAIN sSent [] OTHER -> DOMAIN sSubs)
  BY DEF Billing!TypeOK, BillingProcs
<1>2. sTask[p] \in [op : Billing!Ops, n : Nat, known : Billing!Rows]
  BY DEF Billing!TypeOK, BillingProcs
<1> QED BY <1>1, <1>2

LEMMA StartCheckoutStep ==
  ASSUME BillingBounded, BillingInv, NEW p \in Checkouts, NEW asked \in Plans, Billing!StartCheckout(p, asked)
  PROVE  BillingInv'
<1> DEFINE new == [plan |-> asked, status |-> "created"]
           t == [op |-> "checkout", n |-> Len(sSubs'), known |-> [sRow EXCEPT !.plan = sPlan]]
<1>1. p \in BillingProcs /\ Billing!TypeOK /\ sSubs \in Seq(Billing!SubsAt) /\ new \in Billing!SubsAt
  BY DEF BillingProcs, BillingInv, Billing!TypeOK, Billing!SubsAt
<1>2. /\ sSubs' = Append(sSubs, new) /\ sTask[p] = Billing!Idle /\ sTask' = [sTask EXCEPT ![p] = t]
      /\ UNCHANGED <<sRow, sPlan, sSent, sSeen, sRaces, sEvents>> /\ Len(sSubs) < MaxSubs
  BY DEF Billing!StartCheckout, Billing!Begins
<1>3. /\ sSubs' \in Seq(Billing!SubsAt) /\ Len(sSubs') = Len(sSubs) + 1
      /\ DOMAIN sSubs' = DOMAIN sSubs \cup {Len(sSubs) + 1} /\ Len(sSubs) + 1 \notin DOMAIN sSubs
      /\ \A i \in DOMAIN sSubs : sSubs'[i] = sSubs[i]
      /\ sSubs'[Len(sSubs) + 1] = new
  BY <1>1, <1>2, Appended
<1>4. Len(sSubs') <= MaxSubs /\ Len(sSubs') \in Nat
  BY <1>1, <1>2, <1>3 DEF BillingBounded
<1>5. t \in [op : Billing!Ops, n : Nat, known : Billing!Rows]
  BY <1>1, <1>4 DEF Billing!TypeOK, Billing!Rows, Billing!Ops
<1>6. sTask' \in [BillingProcs -> [op : Billing!Ops, n : Nat, known : Billing!Rows]]
        /\ \A q \in BillingProcs : BillingTaskOK(q)'
  <2>1. t.n \in (CASE t.op = "none" -> {0} [] t.op = "webhook" -> DOMAIN sSent' [] OTHER -> DOMAIN sSubs')
    BY <1>3
  <2>2. DOMAIN sSubs \subseteq DOMAIN sSubs' /\ DOMAIN sSent \subseteq DOMAIN sSent'
    BY <1>2, <1>3
  <2> QED BY <1>1, <1>2, <1>5, <2>1, <2>2, BillingTaskMoves
<1>7. Billing!TypeOK'
  BY <1>1, <1>2, <1>3, <1>4, <1>6 DEF Billing!TypeOK, BillingTaskOK, BillingProcs
<1>8. sTask'[p] = t /\ \A q \in BillingProcs : q # p => sTask'[q] = sTask[q]
  BY <1>1, <1>2 DEF Billing!TypeOK, BillingProcs
<1>9. CheckoutIsNew'
  <2>1. \A q \in BillingProcs : q # p /\ sTask'[q].op = "checkout" => sTask'[q].n \in DOMAIN sSubs
    BY <1>1, <1>8, HoldsOf
  <2>2. \A q \in BillingProcs : sTask'[q].op = "checkout" => sSubs'[sTask'[q].n].status = "created"
    BY <1>3, <1>8, <2>1 DEF BillingInv, CheckoutIsNew
  <2>3. \A q \in BillingProcs : q # p /\ sTask'[q].op = "checkout" => sTask'[q].n # sTask'[p].n
    BY <1>3, <1>8, <2>1
  <2> QED BY <1>8, <2>2, <2>3 DEF BillingInv, CheckoutIsNew
<1>10. CancelledIsEnding'
  <2>1. \A q \in BillingProcs : sTask'[q].op = "cancelled" => q # p /\ sTask'[q].n \in DOMAIN sSubs
    BY <1>1, <1>8, HoldsOf
  <2> QED BY <1>3, <1>8, <2>1 DEF BillingInv, CancelledIsEnding
<1>11. (ActiveHasSub /\ Billing!PlanAgreesWithRow)'
  BY <1>2 DEF BillingInv, ActiveHasSub, Billing!PlanAgreesWithRow
<1>12. Billing!CancelledStopsBilling'
  BY <1>2, <1>3 DEF BillingInv, Billing!CancelledStopsBilling, Billing!TypeOK, ActiveHasSub
<1> QED BY <1>7, <1>9, <1>10, <1>11, <1>12 DEF BillingInv

LEMMA RememberCheckoutStep ==
  ASSUME BillingBounded, BillingInv, NEW p \in Checkouts, Billing!RememberCheckout(p)
  PROVE  BillingInv'
<1> DEFINE t == sTask[p]
<1>1. p \in BillingProcs /\ Billing!TypeOK /\ t.op = "checkout"
        /\ sSubs' = [sSubs EXCEPT ![t.n].status = "offered"] /\ Billing!Ends(p)
      /\ UNCHANGED <<sPlan, sSent, sSeen, sEvents>>
  BY DEF BillingProcs, BillingInv, Billing!RememberCheckout
<1>2. t.n \in DOMAIN sSubs /\ t.known \in Billing!Rows
  BY <1>1, HoldsOf
<1>3. /\ sSubs' \in Seq(Billing!SubsAt) /\ Len(sSubs') <= MaxSubs /\ DOMAIN sSubs' = DOMAIN sSubs
      /\ \A i \in DOMAIN sSubs : i # t.n => sSubs'[i] = sSubs[i]
  BY <1>1, <1>2, GatewayMoves DEF SubStatuses
<1>4. sSubs[t.n].status = "created" /\ \A q \in BillingProcs : q # p /\ sTask[q].op = "checkout"
        => sTask[q].n # t.n
  BY <1>1 DEF BillingInv, CheckoutIsNew
<1>5. /\ sTask' \in [BillingProcs -> [op : Billing!Ops, n : Nat, known : Billing!Rows]]
           /\ \A q \in BillingProcs : BillingTaskOK(q)'
      /\ sTask'[p].op = "none" /\ \A q \in BillingProcs : q # p => sTask'[q] = sTask[q]
  BY <1>1, <1>3, BillingTaskEnds
<1>6. \/ t.known.status = "active" /\ UNCHANGED <<sRow, sRaces>>
      \/ /\ t.known.status # "active" /\ sRow' = [t.known EXCEPT !.sub = t.n, !.atEnd = sRow.atEnd]
         /\ sRaces' = IF sRow.status = "active" THEN sRaces \cup {"overtaken"} ELSE sRaces
  BY DEF Billing!RememberCheckout, Billing!Noting
<1>7. sRow' \in Billing!Rows /\ sRow'.sub \in {Billing!NoSub} \cup DOMAIN sSubs
        /\ sRaces' \subseteq {"overtaken", "late", "misplaced"}
  <2>1. sRow \in Billing!Rows /\ DOMAIN sSubs \subseteq Billing!Subs
    <3>1. sRow \in Billing!Rows /\ sSubs \in Seq(Billing!SubsAt) /\ Len(sSubs) <= MaxSubs /\ MaxSubs \in Nat
      BY <1>1 DEF Billing!TypeOK, BillingBounded
    <3>2. DOMAIN sSubs = 1 .. Len(sSubs) /\ Len(sSubs) \in Nat
      BY <3>1
    <3> QED BY <3>1, <3>2 DEF Billing!Subs
  <2> QED BY <1>1, <1>2, <1>6, <2>1 DEF Billing!TypeOK, Billing!Rows
<1>8. Billing!TypeOK'
  BY <1>1, <1>3, <1>5, <1>7 DEF Billing!TypeOK, BillingTaskOK, BillingProcs
<1>9. CheckoutIsNew'
  <2>1. \A q \in BillingProcs : sTask'[q].op = "checkout" => q # p /\ sTask'[q].n \in DOMAIN sSubs
          /\ sTask'[q].n # t.n
    BY <1>1, <1>4, <1>5, HoldsOf
  <2> QED BY <1>3, <1>5, <2>1 DEF BillingInv, CheckoutIsNew
<1>10. CancelledIsEnding'
  <2>1. \A q \in BillingProcs : sTask'[q].op = "cancelled" => q # p /\ sTask'[q].n \in DOMAIN sSubs
          /\ sTask'[q].n # t.n
    BY <1>1, <1>4, <1>5, HoldsOf DEF BillingInv, CancelledIsEnding
  <2> QED BY <1>3, <1>5, <2>1 DEF BillingInv, CancelledIsEnding
<1>11. ActiveHasSub' /\ Billing!PlanAgreesWithRow' /\ Billing!CancelledStopsBilling'
  <2>1. CASE UNCHANGED <<sRow, sRaces>>
    <3>1. sRow.status = "active" /\ sRow.atEnd /\ "misplaced" \notin sRaces => sRow.sub # t.n
            /\ sRow.sub \in DOMAIN sSubs
      BY <1>4 DEF BillingInv, Billing!CancelledStopsBilling, ActiveHasSub, Billing!TypeOK
    <3> QED BY <1>1, <1>3, <2>1, <3>1 DEF BillingInv, ActiveHasSub, Billing!PlanAgreesWithRow,
        Billing!CancelledStopsBilling
  <2>2. CASE t.known.status # "active" /\ sRow' = [t.known EXCEPT !.sub = t.n, !.atEnd = sRow.atEnd]
             /\ sRaces' = IF sRow.status = "active" THEN sRaces \cup {"overtaken"} ELSE sRaces
    <3>1. sRow'.status # "active"
      BY <1>2, <2>2 DEF Billing!Rows
    <3> QED BY <1>1, <2>2, <3>1 DEF BillingInv, ActiveHasSub, Billing!PlanAgreesWithRow,
        Billing!CancelledStopsBilling
  <2> QED BY <1>6, <2>1, <2>2
<1> QED BY <1>8, <1>9, <1>10, <1>11 DEF BillingInv

LEMMA AskCancelStep ==
  ASSUME BillingInv, NEW p \in Checkouts, Billing!AskCancel(p)
  PROVE  BillingInv'
<1> DEFINE t == [op |-> "cancel", n |-> sRow.sub, known |-> sRow]
<1>1. /\ p \in BillingProcs /\ Billing!TypeOK /\ sTask' = [sTask EXCEPT ![p] = t]
           /\ UNCHANGED <<sRow, sPlan, sSubs, sSent, sSeen, sRaces, sEvents>>
      /\ sRow.sub # Billing!NoSub
  BY DEF BillingProcs, BillingInv, Billing!AskCancel, Billing!Begins
<1>2. sRow.sub \in DOMAIN sSubs /\ sRow \in Billing!Rows /\ sRow.sub \in Nat
  BY <1>1 DEF Billing!TypeOK, Billing!Rows, Billing!Subs, Billing!NoSub
<1>3. sTask' \in [BillingProcs -> [op : Billing!Ops, n : Nat, known : Billing!Rows]]
        /\ \A q \in BillingProcs : BillingTaskOK(q)'
  <2>1. t \in [op : Billing!Ops, n : Nat, known : Billing!Rows]
    BY <1>2 DEF Billing!Ops
  <2>2. t.n \in (CASE t.op = "none" -> {0} [] t.op = "webhook" -> DOMAIN sSent' [] OTHER -> DOMAIN sSubs')
    BY <1>1, <1>2
  <2>3. DOMAIN sSubs \subseteq DOMAIN sSubs' /\ DOMAIN sSent \subseteq DOMAIN sSent'
    BY <1>1
  <2> QED BY <1>1, <2>1, <2>2, <2>3, BillingTaskMoves
<1>4. Billing!TypeOK'
  BY <1>1, <1>3 DEF Billing!TypeOK, BillingTaskOK, BillingProcs
<1>5. sTask'[p].op = "cancel" /\ \A q \in BillingProcs : q # p => sTask'[q] = sTask[q]
  BY <1>1 DEF Billing!TypeOK, BillingProcs
<1>6. CheckoutIsNew' /\ CancelledIsEnding'
  BY <1>1, <1>5 DEF BillingInv, CheckoutIsNew, CancelledIsEnding
<1>7. ActiveHasSub' /\ Billing!PlanAgreesWithRow' /\ Billing!CancelledStopsBilling'
  BY <1>1 DEF BillingInv, ActiveHasSub, Billing!PlanAgreesWithRow, Billing!CancelledStopsBilling
<1> QED BY <1>4, <1>6, <1>7 DEF BillingInv

(* A request or a delivery that is over, with the gateway and the events as they were: all that is left to show *)
(* is the row, the plan and the races.                                                                         *)
LEMMA EndedTask ==
  ASSUME BillingInv, NEW p \in BillingProcs, Billing!Ends(p), UNCHANGED <<sSubs, sSent>>
  PROVE  /\ sTask' \in [BillingProcs -> [op : Billing!Ops, n : Nat, known : Billing!Rows]]
              /\ \A q \in BillingProcs : BillingTaskOK(q)'
         /\ CheckoutIsNew' /\ CancelledIsEnding'
<1>1. Billing!TypeOK /\ DOMAIN sSubs \subseteq DOMAIN sSubs' /\ DOMAIN sSent \subseteq DOMAIN sSent'
  BY DEF BillingInv
<1>2. /\ sTask' \in [BillingProcs -> [op : Billing!Ops, n : Nat, known : Billing!Rows]]
           /\ \A q \in BillingProcs : BillingTaskOK(q)'
      /\ sTask'[p].op = "none" /\ \A q \in BillingProcs : q # p => sTask'[q] = sTask[q]
  BY <1>1, BillingTaskEnds
<1> QED BY <1>2 DEF BillingInv, CheckoutIsNew, CancelledIsEnding

LEMMA CallCancelStep ==
  ASSUME BillingBounded, BillingInv, NEW p \in Checkouts, Billing!CallCancel(p)
  PROVE  BillingInv'
<1> DEFINE n == sTask[p].n
           t == [sTask[p] EXCEPT !.op = "cancelled"]
<1>1. p \in BillingProcs /\ Billing!TypeOK /\ sTask[p].op = "cancel"
        /\ UNCHANGED <<sRow, sPlan, sSent, sSeen, sRaces>>
  BY DEF BillingProcs, BillingInv, Billing!CallCancel
<1>2. n \in DOMAIN sSubs
  BY <1>1, HoldsOf
<1>3. ActiveHasSub' /\ Billing!PlanAgreesWithRow'
  BY <1>1 DEF BillingInv, ActiveHasSub, Billing!PlanAgreesWithRow
<1>4. CASE sSubs[n].status = "live" /\ sSubs' = [sSubs EXCEPT ![n].status = "ending"]
           /\ \/ sTask' = [sTask EXCEPT ![p].op = "cancelled"] /\ UNCHANGED sEvents
              \/ Billing!Happens /\ Billing!Ends(p)
  <2>1. /\ sSubs' \in Seq(Billing!SubsAt) /\ Len(sSubs') <= MaxSubs /\ DOMAIN sSubs' = DOMAIN sSubs
        /\ sSubs'[n].status = "ending" /\ \A i \in DOMAIN sSubs : i # n => sSubs'[i] = sSubs[i]
    BY <1>2, <1>4, GatewayMoves DEF SubStatuses
  <2>2. /\ sTask' \in [BillingProcs -> [op : Billing!Ops, n : Nat, known : Billing!Rows]]
             /\ \A q \in BillingProcs : BillingTaskOK(q)'
        /\ \A q \in BillingProcs : q # p => sTask'[q] = sTask[q]
        /\ sTask'[p].op \in {"none", "cancelled"} /\ (sTask'[p].op = "cancelled" => sTask'[p].n = n)
    <3>1. DOMAIN sSubs \subseteq DOMAIN sSubs' /\ DOMAIN sSent \subseteq DOMAIN sSent'
      BY <1>1, <2>1
    <3>2. CASE Billing!Ends(p)
      BY <1>1, <3>1, <3>2, BillingTaskEnds
    <3>3. CASE sTask' = [sTask EXCEPT ![p].op = "cancelled"]
      <4>1. sTask \in [BillingProcs -> [op : Billing!Ops, n : Nat, known : Billing!Rows]]
        BY <1>1 DEF Billing!TypeOK, BillingProcs
      <4>2. t \in [op : Billing!Ops, n : Nat, known : Billing!Rows] /\ t.op = "cancelled" /\ t.n = n
              /\ sTask' = [sTask EXCEPT ![p] = t]
        BY <1>1, <3>3, <4>1 DEF Billing!Ops
      <4>3. t.n \in (CASE t.op = "none" -> {0} [] t.op = "webhook" -> DOMAIN sSent' [] OTHER -> DOMAIN sSubs')
        BY <1>2, <2>1, <4>2
      <4>4. sTask' \in [BillingProcs -> [op : Billing!Ops, n : Nat, known : Billing!Rows]]
              /\ \A q \in BillingProcs : BillingTaskOK(q)'
        BY <1>1, <3>1, <4>2, <4>3, BillingTaskMoves
      <4> QED BY <4>1, <4>2, <4>4
    <3> QED BY <1>4, <3>2, <3>3
  <2>3. sEvents' \in 0 .. MaxEvents
    BY <1>1, <1>4 DEF Billing!TypeOK, Billing!Happens, BillingBounded
  <2>4. Billing!TypeOK'
    BY <1>1, <2>1, <2>2, <2>3 DEF Billing!TypeOK, BillingTaskOK, BillingProcs
  <2>5. CheckoutIsNew'
    <3>1. \A q \in BillingProcs : sTask'[q].op = "checkout" => q # p /\ sTask'[q].n \in DOMAIN sSubs
            /\ sTask'[q].n # n
      BY <1>1, <1>4, <2>2, HoldsOf DEF BillingInv, CheckoutIsNew
    <3> QED BY <2>1, <2>2, <3>1 DEF BillingInv, CheckoutIsNew
  <2>6. CancelledIsEnding'
    <3>1. \A q \in BillingProcs : q # p /\ sTask'[q].op = "cancelled" => sTask'[q].n \in DOMAIN sSubs
      BY <1>1, <2>2, HoldsOf
    <3> QED BY <2>1, <2>2, <3>1 DEF BillingInv, CancelledIsEnding
  <2>7. Billing!CancelledStopsBilling'
    <3>1. sRow.status = "active" => sRow.sub \in DOMAIN sSubs
      BY <1>1 DEF BillingInv, ActiveHasSub, Billing!TypeOK
    <3> QED BY <1>1, <2>1, <3>1 DEF BillingInv, Billing!CancelledStopsBilling
  <2> QED BY <1>3, <2>4, <2>5, <2>6, <2>7 DEF BillingInv
<1>5. CASE Billing!Ends(p) /\ UNCHANGED <<sSubs, sEvents>>
  <2>1. /\ sTask' \in [BillingProcs -> [op : Billing!Ops, n : Nat, known : Billing!Rows]]
             /\ \A q \in BillingProcs : BillingTaskOK(q)'
        /\ CheckoutIsNew' /\ CancelledIsEnding'
    BY <1>1, <1>5, EndedTask
  <2>2. Billing!TypeOK' /\ Billing!CancelledStopsBilling'
    BY <1>1, <1>5, <2>1 DEF Billing!TypeOK, BillingTaskOK, BillingProcs, BillingInv,
        Billing!CancelledStopsBilling
  <2> QED BY <1>3, <2>1, <2>2 DEF BillingInv
<1> QED BY <1>4, <1>5 DEF Billing!CallCancel

LEMMA MarkAtEndStep ==
  ASSUME BillingInv, NEW p \in Checkouts, Billing!MarkAtEnd(p)
  PROVE  BillingInv'
<1>1. /\ p \in BillingProcs /\ Billing!TypeOK /\ sTask[p].op = "cancelled"
           /\ sRow' = [sRow EXCEPT !.atEnd = TRUE] /\ Billing!Ends(p)
      /\ sRaces' = IF sRow.sub # sTask[p].n THEN sRaces \cup {"misplaced"} ELSE sRaces
      /\ UNCHANGED <<sPlan, sSubs, sSent, sSeen, sEvents>>
  BY DEF BillingProcs, BillingInv, Billing!MarkAtEnd, Billing!Noting
<1>2. /\ sTask' \in [BillingProcs -> [op : Billing!Ops, n : Nat, known : Billing!Rows]]
           /\ \A q \in BillingProcs : BillingTaskOK(q)'
      /\ CheckoutIsNew' /\ CancelledIsEnding'
  BY <1>1, EndedTask
<1>3. sRow' \in Billing!Rows /\ sRow'.sub = sRow.sub /\ sRow'.status = sRow.status /\ sRow'.plan = sRow.plan
  BY <1>1 DEF Billing!TypeOK, Billing!Rows
<1>4. Billing!TypeOK'
  BY <1>1, <1>2, <1>3 DEF Billing!TypeOK, BillingTaskOK, BillingProcs
<1>5. ActiveHasSub' /\ Billing!PlanAgreesWithRow'
  BY <1>1, <1>3 DEF BillingInv, ActiveHasSub, Billing!PlanAgreesWithRow
<1>6. Billing!CancelledStopsBilling'
  BY <1>1, <1>3 DEF BillingInv, CancelledIsEnding, Billing!CancelledStopsBilling
<1> QED BY <1>2, <1>4, <1>5, <1>6 DEF BillingInv

(* The gateway charges, halts or ends a subscription that was offered. *)
LEMMA GatewayStep ==
  ASSUME BillingBounded, BillingInv, NEW n \in DOMAIN sSubs, Billing!ChargeSub(n) \/ Billing!HaltSub(n)
      \/ Billing!EndSub(n)
  PROVE  BillingInv'
<1>1. Billing!TypeOK /\ sSubs[n].status # "created"
  BY DEF BillingInv, Billing!ChargeSub, Billing!HaltSub, Billing!EndSub
<1>2. PICK kind \in {"charged", "halted", "ended"}, st \in SubStatuses :
        /\ sSent' = Append(sSent, [is |-> kind, sub |-> n]) /\ sSubs' = [sSubs EXCEPT ![n].status = st]
        /\ UNCHANGED <<sRow, sPlan, sSeen, sTask, sRaces, sEvents>> /\ Len(sSent) < MaxSent
        /\ sSubs[n].status \in {"ending", "ended"} => st \in {"ending", "ended"}
  BY DEF Billing!ChargeSub, Billing!HaltSub, Billing!EndSub, Billing!Sends, SubStatuses
<1>3. /\ sSubs' \in Seq(Billing!SubsAt) /\ Len(sSubs') <= MaxSubs /\ DOMAIN sSubs' = DOMAIN sSubs
      /\ sSubs'[n].status = st /\ \A i \in DOMAIN sSubs : i # n => sSubs'[i] = sSubs[i]
  BY <1>2, GatewayMoves
<1>4. /\ sSent' \in Seq(Billing!Events) /\ DOMAIN sSent' = DOMAIN sSent \cup {Len(sSent) + 1}
           /\ Len(sSent) + 1 \notin DOMAIN sSent
      /\ sSent'[Len(sSent) + 1].sub = n /\ \A i \in DOMAIN sSent : sSent'[i] = sSent[i]
  <2> DEFINE e == [is |-> kind, sub |-> n]
  <2>1. n \in Billing!Subs
    <3>1. sSubs \in Seq(Billing!SubsAt) /\ Len(sSubs) <= MaxSubs /\ DOMAIN sSubs = 1 .. Len(sSubs)
      BY <1>1 DEF Billing!TypeOK
    <3>2. Len(sSubs) \in Nat /\ n \in 1 .. Len(sSubs) /\ MaxSubs \in Nat
      BY <3>1 DEF BillingBounded
    <3> QED BY <3>1, <3>2 DEF Billing!Subs
  <2>2. e \in Billing!Events /\ sSent \in Seq(Billing!Events)
    BY <1>1, <2>1 DEF Billing!Events, Billing!TypeOK
  <2> QED BY <1>2, <2>2, Appended
<1>5. \A q \in BillingProcs : BillingTaskOK(q)'
  <2>1. \A q \in BillingProcs : BillingTaskOK(q)
    BY <1>1 DEF Billing!TypeOK, BillingTaskOK, BillingProcs
  <2> QED BY <1>2, <1>3, <1>4, <2>1 DEF BillingTaskOK
<1>6. Billing!TypeOK'
  BY <1>1, <1>2, <1>3, <1>4, <1>5 DEF Billing!TypeOK, BillingTaskOK, BillingProcs
<1>7. CheckoutIsNew'
  <2>1. \A q \in BillingProcs : sTask[q].op = "checkout" => sTask[q].n \in DOMAIN sSubs /\ sTask[q].n # n
    BY <1>1, HoldsOf DEF BillingInv, CheckoutIsNew
  <2> QED BY <1>2, <1>3, <2>1 DEF BillingInv, CheckoutIsNew
<1>8. CancelledIsEnding'
  <2>1. \A q \in BillingProcs : sTask[q].op = "cancelled" => sTask[q].n \in DOMAIN sSubs
    BY <1>1, HoldsOf
  <2> QED BY <1>2, <1>3, <2>1 DEF BillingInv, CancelledIsEnding
<1>9. ActiveHasSub' /\ Billing!PlanAgreesWithRow'
  BY <1>2 DEF BillingInv, ActiveHasSub, Billing!PlanAgreesWithRow
<1>10. Billing!CancelledStopsBilling'
  <2>1. sRow.status = "active" => sRow.sub \in DOMAIN sSubs
    BY <1>1 DEF BillingInv, ActiveHasSub, Billing!TypeOK
  <2> QED BY <1>2, <1>3, <2>1 DEF BillingInv, Billing!CancelledStopsBilling
<1> QED BY <1>6, <1>7, <1>8, <1>9, <1>10 DEF BillingInv

LEMMA ReceiveStep ==
  ASSUME BillingInv, NEW p \in Deliveries, NEW e \in DOMAIN sSent, Billing!Receive(p, e)
  PROVE  BillingInv'
<1> DEFINE known == IF sRow.sub = sSent[e].sub THEN sRow ELSE Billing!NoRow
           t == [op |-> "webhook", n |-> e, known |-> known]
<1>1. p \in BillingProcs /\ Billing!TypeOK /\ sTask' = [sTask EXCEPT ![p] = t]
        /\ UNCHANGED <<sRow, sPlan, sSubs, sSent, sSeen, sRaces, sEvents>>
  BY DEF BillingProcs, BillingInv, Billing!Receive, Billing!Begins
<1>2. known \in Billing!Rows /\ e \in Nat
  <2>1. Billing!NoRow \in Billing!Rows /\ sRow \in Billing!Rows
    BY <1>1 DEF Billing!NoRow, Billing!Rows, Billing!Statuses, Billing!NoSub, Billing!TypeOK
  <2>2. e \in Nat
    BY <1>1 DEF Billing!TypeOK
  <2> QED BY <2>1, <2>2
<1>3. sTask' \in [BillingProcs -> [op : Billing!Ops, n : Nat, known : Billing!Rows]]
        /\ \A q \in BillingProcs : BillingTaskOK(q)'
  <2>1. t \in [op : Billing!Ops, n : Nat, known : Billing!Rows]
    BY <1>2 DEF Billing!Ops
  <2>2. t.n \in (CASE t.op = "none" -> {0} [] t.op = "webhook" -> DOMAIN sSent' [] OTHER -> DOMAIN sSubs')
    BY <1>1
  <2>3. DOMAIN sSubs \subseteq DOMAIN sSubs' /\ DOMAIN sSent \subseteq DOMAIN sSent'
    BY <1>1
  <2> QED BY <1>1, <2>1, <2>2, <2>3, BillingTaskMoves
<1>4. Billing!TypeOK'
  BY <1>1, <1>3 DEF Billing!TypeOK, BillingTaskOK, BillingProcs
<1>5. sTask'[p].op = "webhook" /\ \A q \in BillingProcs : q # p => sTask'[q] = sTask[q]
  BY <1>1 DEF Billing!TypeOK, BillingProcs
<1>6. CheckoutIsNew' /\ CancelledIsEnding'
  BY <1>1, <1>5 DEF BillingInv, CheckoutIsNew, CancelledIsEnding
<1>7. ActiveHasSub' /\ Billing!PlanAgreesWithRow' /\ Billing!CancelledStopsBilling'
  BY <1>1 DEF BillingInv, ActiveHasSub, Billing!PlanAgreesWithRow, Billing!CancelledStopsBilling
<1> QED BY <1>4, <1>6, <1>7 DEF BillingInv

(* The subscription an event is about is one of the gateway's. *)
LEMMA EventOf ==
  ASSUME Billing!TypeOK, NEW p \in BillingProcs, sTask[p].op = "webhook"
  PROVE  LET n == sSent[sTask[p].n].sub IN
         sTask[p].n \in DOMAIN sSent /\ n \in DOMAIN sSubs /\ n \in Billing!Subs /\ n # Billing!NoSub
             /\ sSubs[n].plan \in Plans
<1> DEFINE n == sSent[sTask[p].n].sub
<1>1. sTask[p].n \in DOMAIN sSent
  BY HoldsOf
<1>2. n \in DOMAIN sSubs /\ n \in Billing!Subs
  <2>1. sSent \in Seq(Billing!Events) /\ n \in DOMAIN sSubs
    BY <1>1 DEF Billing!TypeOK
  <2>2. sSent[sTask[p].n] \in Billing!Events
    BY <1>1, <2>1, ElementOfSeq
  <2> QED BY <2>1, <2>2 DEF Billing!Events
<1>3. n # Billing!NoSub /\ sSubs[n].plan \in Plans
  <2>1. sSubs \in Seq(Billing!SubsAt) /\ n \in 1 .. Len(sSubs)
    BY <1>2 DEF Billing!TypeOK
  <2>2. sSubs[n] \in Billing!SubsAt
    BY <2>1, ElementOfSeq
  <2> QED BY <2>1, <2>2 DEF Billing!SubsAt, Billing!NoSub
<1> QED BY <1>1, <1>2, <1>3

LEMMA ChargedStep ==
  ASSUME BillingInv, NEW p \in Deliveries, Billing!SubscriptionCharged(p)
  PROVE  BillingInv'
<1> DEFINE n == sSent[sTask[p].n].sub
<1>1. /\ p \in BillingProcs /\ Billing!TypeOK /\ sTask[p].op = "webhook" /\ sSeen' = sSeen \cup {sTask[p].n}
           /\ Billing!Ends(p)
      /\ UNCHANGED <<sSubs, sSent, sEvents>>
  BY DEF BillingProcs, BillingInv, Billing!SubscriptionCharged, Billing!Handles, Billing!Handled
<1>2. \/ UNCHANGED <<sRow, sPlan, sRaces>>
      \/ /\ sRow' = [status |-> "active", plan |-> sSubs[n].plan, sub |-> n, atEnd |-> FALSE]
         /\ sPlan' = sSubs[n].plan
         /\ sRaces' = sRaces \/ sRaces' = sRaces \cup {"late"}
  BY DEF Billing!SubscriptionCharged, Billing!Noting
<1>3. sTask[p].n \in DOMAIN sSent /\ n \in DOMAIN sSubs /\ n \in Billing!Subs /\ n # Billing!NoSub
        /\ sSubs[n].plan \in Plans
  BY <1>1, EventOf
<1>4. /\ sTask' \in [BillingProcs -> [op : Billing!Ops, n : Nat, known : Billing!Rows]]
           /\ \A q \in BillingProcs : BillingTaskOK(q)'
      /\ CheckoutIsNew' /\ CancelledIsEnding'
  BY <1>1, EndedTask
<1>5. /\ sRow' \in Billing!Rows /\ sRow'.sub \in {Billing!NoSub} \cup DOMAIN sSubs
           /\ sPlan' \in Plans \cup {"free"}
      /\ sRaces' \subseteq {"overtaken", "late", "misplaced"}
  <2> DEFINE new == [status |-> "active", plan |-> sSubs[n].plan, sub |-> n, atEnd |-> FALSE]
  <2>1. sRow \in Billing!Rows /\ sRow.sub \in {Billing!NoSub} \cup DOMAIN sSubs /\ sPlan \in Plans \cup {"free"}
        /\ sRaces \subseteq {"overtaken", "late", "misplaced"}
    BY <1>1 DEF Billing!TypeOK
  <2>2. new \in Billing!Rows /\ new.sub = n
    BY <1>3 DEF Billing!Rows, Billing!Statuses
  <2>3. CASE UNCHANGED <<sRow, sPlan, sRaces>>
    BY <2>1, <2>3
  <2>4. CASE sRow' = new /\ sPlan' = sSubs[n].plan /\ (sRaces' = sRaces \/ sRaces' = sRaces \cup {"late"})
    BY <1>3, <2>1, <2>2, <2>4
  <2> QED BY <1>2, <2>3, <2>4
<1>6. Billing!TypeOK'
  BY <1>1, <1>3, <1>4, <1>5 DEF Billing!TypeOK, BillingTaskOK, BillingProcs
<1>7. ActiveHasSub' /\ Billing!PlanAgreesWithRow' /\ Billing!CancelledStopsBilling'
  BY <1>1, <1>2, <1>3 DEF BillingInv, ActiveHasSub, Billing!PlanAgreesWithRow, Billing!CancelledStopsBilling
<1> QED BY <1>4, <1>6, <1>7 DEF BillingInv

LEMMA EndedStep ==
  ASSUME BillingInv, NEW p \in Deliveries, Billing!SubscriptionEnded(p)
  PROVE  BillingInv'
<1>1. /\ p \in BillingProcs /\ Billing!TypeOK /\ sTask[p].op = "webhook" /\ sSeen' = sSeen \cup {sTask[p].n}
           /\ Billing!Ends(p)
      /\ UNCHANGED <<sSubs, sSent, sEvents>>
  BY DEF BillingProcs, BillingInv, Billing!SubscriptionEnded, Billing!Handles, Billing!Handled
<1>2. /\ \/ UNCHANGED <<sRow, sPlan>>
         \/ \E st \in {"pastDue", "cancelled"} : sRow' = [sRow EXCEPT !.status = st, !.atEnd = FALSE]
              /\ sPlan' = "free"
      /\ sRaces' = sRaces \/ sRaces' = sRaces \cup {"late"} \/ sRaces' = sRaces \cup {"misplaced"}
  <2> DEFINE st == IF Billing!Handles(p, "halted") THEN "pastDue" ELSE "cancelled"
  <2>1. CASE ~Billing!Known(p)
    BY <2>1 DEF Billing!SubscriptionEnded, Billing!Noting
  <2>2. CASE Billing!Known(p)
    <3>1. sRow' = [sRow EXCEPT !.status = st, !.atEnd = FALSE] /\ sPlan' = "free"
      BY <2>2 DEF Billing!SubscriptionEnded
    <3>2. sRaces' = sRaces \/ sRaces' = sRaces \cup {"misplaced"}
      BY <2>2 DEF Billing!SubscriptionEnded, Billing!Noting
    <3>3. st \in {"pastDue", "cancelled"}
      OBVIOUS
    <3> HIDE DEF st
    <3> QED BY <3>1, <3>2, <3>3
  <2> QED BY <2>1, <2>2
<1>3. sTask[p].n \in DOMAIN sSent
  BY <1>1, EventOf
<1>4. /\ sTask' \in [BillingProcs -> [op : Billing!Ops, n : Nat, known : Billing!Rows]]
           /\ \A q \in BillingProcs : BillingTaskOK(q)'
      /\ CheckoutIsNew' /\ CancelledIsEnding'
  BY <1>1, EndedTask
<1>5. CASE UNCHANGED <<sRow, sPlan>>
  <2>1. Billing!TypeOK'
    BY <1>1, <1>2, <1>3, <1>4, <1>5 DEF Billing!TypeOK, BillingTaskOK, BillingProcs
  <2>2. ActiveHasSub' /\ Billing!PlanAgreesWithRow' /\ Billing!CancelledStopsBilling'
    BY <1>1, <1>2, <1>5 DEF BillingInv, ActiveHasSub, Billing!PlanAgreesWithRow, Billing!CancelledStopsBilling
  <2> QED BY <1>4, <2>1, <2>2 DEF BillingInv
<1>6. ASSUME NEW st \in {"pastDue", "cancelled"}, sRow' = [sRow EXCEPT !.status = st, !.atEnd = FALSE],
             sPlan' = "free"
      PROVE  BillingInv'
  <2>1. sRow' \in Billing!Rows /\ sRow'.sub = sRow.sub /\ sRow'.status = st
    BY <1>1, <1>6 DEF Billing!TypeOK, Billing!Rows, Billing!Statuses
  <2>2. Billing!TypeOK'
    BY <1>1, <1>2, <1>3, <1>4, <1>6, <2>1 DEF Billing!TypeOK, BillingTaskOK, BillingProcs
  <2>3. ActiveHasSub' /\ Billing!PlanAgreesWithRow' /\ Billing!CancelledStopsBilling'
    BY <1>6, <2>1 DEF ActiveHasSub, Billing!PlanAgreesWithRow, Billing!CancelledStopsBilling
  <2> QED BY <1>4, <2>2, <2>3 DEF BillingInv
<1> QED BY <1>2, <1>5, <1>6

LEMMA FailsStep ==
  ASSUME BillingBounded, BillingInv, NEW p \in Checkouts \cup Deliveries, Billing!Fails(p)
  PROVE  BillingInv'
<1>1. p \in BillingProcs /\ Billing!TypeOK /\ Billing!Ends(p)
        /\ UNCHANGED <<sRow, sPlan, sSubs, sSent, sSeen, sRaces>> /\ Billing!Happens
  BY DEF BillingProcs, BillingInv, Billing!Fails
<1>2. /\ sTask' \in [BillingProcs -> [op : Billing!Ops, n : Nat, known : Billing!Rows]]
           /\ \A q \in BillingProcs : BillingTaskOK(q)'
      /\ CheckoutIsNew' /\ CancelledIsEnding'
  BY <1>1, EndedTask
<1>3. sEvents' \in 0 .. MaxEvents
  BY <1>1 DEF Billing!TypeOK, Billing!Happens, BillingBounded
<1>4. Billing!TypeOK'
  BY <1>1, <1>2, <1>3 DEF Billing!TypeOK, BillingTaskOK, BillingProcs
<1>5. ActiveHasSub' /\ Billing!PlanAgreesWithRow' /\ Billing!CancelledStopsBilling'
  BY <1>1 DEF BillingInv, ActiveHasSub, Billing!PlanAgreesWithRow, Billing!CancelledStopsBilling
<1> QED BY <1>2, <1>4, <1>5 DEF BillingInv

LEMMA BillingKept == ASSUME BillingBounded, BillingInv, [Billing!Next]_Billing!vars PROVE BillingInv'
<1>1. CASE Billing!Next
  <2>1. ASSUME NEW p \in Checkouts, NEW asked \in Plans, Billing!StartCheckout(p, asked) PROVE BillingInv'
    BY <2>1, StartCheckoutStep
  <2>2. ASSUME NEW p \in Checkouts, Billing!RememberCheckout(p) PROVE BillingInv'
    BY <2>2, RememberCheckoutStep
  <2>3. ASSUME NEW p \in Checkouts, Billing!AskCancel(p) PROVE BillingInv'
    BY <2>3, AskCancelStep
  <2>4. ASSUME NEW p \in Checkouts, Billing!CallCancel(p) PROVE BillingInv'
    BY <2>4, CallCancelStep
  <2>5. ASSUME NEW p \in Checkouts, Billing!MarkAtEnd(p) PROVE BillingInv'
    BY <2>5, MarkAtEndStep
  <2>6. ASSUME NEW n \in DOMAIN sSubs, Billing!ChargeSub(n) \/ Billing!HaltSub(n) \/ Billing!EndSub(n)
        PROVE BillingInv'
    BY <2>6, GatewayStep
  <2>7. ASSUME NEW p \in Deliveries, NEW e \in DOMAIN sSent, Billing!Receive(p, e) PROVE BillingInv'
    BY <2>7, ReceiveStep
  <2>8. ASSUME NEW p \in Deliveries, Billing!SubscriptionCharged(p) PROVE BillingInv'
    BY <2>8, ChargedStep
  <2>9. ASSUME NEW p \in Deliveries, Billing!SubscriptionEnded(p) PROVE BillingInv'
    BY <2>9, EndedStep
  <2>10. ASSUME NEW p \in Checkouts \cup Deliveries, Billing!Fails(p) PROVE BillingInv'
    BY <2>10, FailsStep
  <2> QED BY <1>1, <2>1, <2>2, <2>3, <2>4, <2>5, <2>6, <2>7, <2>8, <2>9, <2>10 DEF Billing!Next
<1>2. CASE UNCHANGED Billing!vars
  BY <1>2 DEF Billing!vars, BillingInv, Billing!TypeOK, CheckoutIsNew, CancelledIsEnding, ActiveHasSub,
      Billing!PlanAgreesWithRow, Billing!CancelledStopsBilling
<1> QED BY <1>1, <1>2

HasRun(n) == sSubs[n].status \in {"live", "ending", "ended"}
EventOfKind(kind, n) == \E e \in DOMAIN sSent : sSent[e].is = kind /\ sSent[e].sub = n

(* An event is about a subscription that has run, an end about one that is over. *)
EventsHappened ==
  \A e \in DOMAIN sSent :
    HasRun(sSent[e].sub) /\ (sSent[e].is = "ended" => sSubs[sSent[e].sub].status = "ended")

(* What ran was charged, and its end was told. *)
WhatRanIsTold ==
  \A n \in DOMAIN sSubs :
    (HasRun(n) => EventOfKind("charged", n)) /\ (sSubs[n].status = "ended" => EventOfKind("ended", n))

ActiveHasRun == sRow.status = "active" => HasRun(sRow.sub)
ActiveIsNotOver == sRaces = {} /\ sRow.status = "active" => ~Billing!EndSeen(sRow.sub)

(* While nothing but charges was sent, nothing here has ended. *)
OnlyCharges == \A e \in DOMAIN sSent : sSent[e].is = "charged"
NothingEnded ==
  OnlyCharges => /\ sRow.status \in {"none", "active"}
                 /\ \A p \in BillingProcs : sTask[p].known.status \in {"none", "active"}

(* While they are all of one subscription, the first one handled gives its plan for good. *)
ChargesOf(n) == OnlyCharges /\ \A e \in DOMAIN sSent : sSent[e].sub = n
ChargedIsServed ==
  \A n \in DOMAIN sSubs :
    sRaces = {} /\ ChargesOf(n) /\ sSeen # {} => sRow.status = "active" /\ sPlan = sSubs[n].plan

PaidIInv ==
  EventsHappened /\ WhatRanIsTold /\ ActiveHasRun /\ ActiveIsNotOver /\ NothingEnded /\ ChargedIsServed

(* A subscription is offered, or is to end with its period: no event is sent of either. *)
LEMMA MoveUntold ==
  ASSUME BillingInv, EventsHappened, WhatRanIsTold, NEW n \in DOMAIN sSubs, NEW st \in {"offered", "ending"},
         sSubs' = [sSubs EXCEPT ![n].status = st], sSent' = sSent,
         sSubs[n].status = IF st = "offered" THEN "created" ELSE "live"
  PROVE  /\ EventsHappened' /\ WhatRanIsTold' /\ DOMAIN sSubs' = DOMAIN sSubs
         /\ \A i \in DOMAIN sSubs : sSubs'[i].plan = sSubs[i].plan /\ (HasRun(i) => HasRun(i)')
<1>1. sSubs \in Seq(Billing!SubsAt) /\ \A i \in DOMAIN sSubs : sSubs[i] \in Billing!SubsAt
  BY ElementOfSeq DEF BillingInv, Billing!TypeOK
<1>2. /\ DOMAIN sSubs' = DOMAIN sSubs /\ sSubs'[n].status = st /\ sSubs'[n].plan = sSubs[n].plan
      /\ \A i \in DOMAIN sSubs : i # n => sSubs'[i] = sSubs[i]
  BY <1>1 DEF Billing!SubsAt
<1>3. \A e \in DOMAIN sSent : sSent[e].sub \in DOMAIN sSubs
  BY DEF BillingInv, Billing!TypeOK
<1>4. \A i \in DOMAIN sSubs : (HasRun(i)' <=> HasRun(i))
        /\ (sSubs'[i].status = "ended" <=> sSubs[i].status = "ended")
  BY <1>2 DEF HasRun
<1>5. EventsHappened'
  BY <1>3, <1>4 DEF EventsHappened
<1>6. WhatRanIsTold'
  BY <1>2, <1>4 DEF WhatRanIsTold, EventOfKind
<1> QED BY <1>2, <1>4, <1>5, <1>6

(* Steps of a request or a delivery that leave the row, the plan and the gateway alone. *)
LEMMA PaidQuiet ==
  ASSUME BillingInv, PaidIInv, NEW p \in BillingProcs, NEW t, sTask' = [sTask EXCEPT ![p] = t],
         t.known.status = "none" \/ t.known.status = sRow.status,
         UNCHANGED <<sRow, sPlan, sSubs, sSent, sSeen, sRaces>>
  PROVE  PaidIInv'
<1>1. sTask \in [BillingProcs -> [op : Billing!Ops, n : Nat, known : Billing!Rows]]
  BY DEF BillingInv, Billing!TypeOK, BillingProcs
<1>2. \A q \in BillingProcs : sTask'[q] = IF q = p THEN t ELSE sTask[q]
  BY <1>1
<1>3. NothingEnded'
  BY <1>2 DEF PaidIInv, NothingEnded, OnlyCharges
<1>4. EventsHappened' /\ WhatRanIsTold' /\ ActiveHasRun' /\ ActiveIsNotOver' /\ ChargedIsServed'
  BY DEF PaidIInv, EventsHappened, WhatRanIsTold, ActiveHasRun, ActiveIsNotOver, ChargedIsServed, HasRun,
      EventOfKind,
     Billing!EndSeen, ChargesOf, OnlyCharges
<1> QED BY <1>3, <1>4 DEF PaidIInv

LEMMA StartCheckoutPaid ==
  ASSUME BillingInv, PaidIInv, NEW p \in Checkouts, NEW asked \in Plans, Billing!StartCheckout(p, asked)
  PROVE  PaidIInv'
<1> DEFINE new == [plan |-> asked, status |-> "created"]
           t == [op |-> "checkout", n |-> Len(sSubs'), known |-> [sRow EXCEPT !.plan = sPlan]]
<1>1. /\ p \in BillingProcs /\ sSubs \in Seq(Billing!SubsAt) /\ new \in Billing!SubsAt /\ sRow \in Billing!Rows
      /\ sTask \in [BillingProcs -> [op : Billing!Ops, n : Nat, known : Billing!Rows]]
  BY DEF BillingProcs, BillingInv, Billing!TypeOK, Billing!SubsAt
<1>2. /\ sSubs' = Append(sSubs, new) /\ sTask' = [sTask EXCEPT ![p] = t]
      /\ UNCHANGED <<sRow, sPlan, sSent, sSeen, sRaces, sEvents>>
  BY DEF Billing!StartCheckout, Billing!Begins
<1>3. /\ DOMAIN sSubs' = DOMAIN sSubs \cup {Len(sSubs) + 1} /\ \A i \in DOMAIN sSubs : sSubs'[i] = sSubs[i]
      /\ sSubs'[Len(sSubs) + 1] = new
  BY <1>1, <1>2, Appended
<1>4. \A e \in DOMAIN sSent : sSent[e].sub \in DOMAIN sSubs
  BY DEF BillingInv, Billing!TypeOK
<1>5. EventsHappened'
  BY <1>2, <1>3, <1>4 DEF PaidIInv, EventsHappened, HasRun
<1>6. WhatRanIsTold'
  BY <1>2, <1>3 DEF PaidIInv, WhatRanIsTold, HasRun, EventOfKind
<1>7. ActiveHasRun' /\ ActiveIsNotOver'
  BY <1>2, <1>3 DEF BillingInv, ActiveHasSub, Billing!TypeOK, PaidIInv, ActiveHasRun, ActiveIsNotOver, HasRun,
      Billing!EndSeen
<1>8. NothingEnded'
  <2>1. t.known.status = sRow.status
    BY <1>1 DEF Billing!Rows
  <2>2. \A q \in BillingProcs : sTask'[q] = IF q = p THEN t ELSE sTask[q]
    BY <1>1, <1>2
  <2> QED BY <1>2, <2>1, <2>2 DEF PaidIInv, NothingEnded, OnlyCharges
<1>9. ChargedIsServed'
  <2>1. sSeen # {} => DOMAIN sSent # {}
    BY DEF BillingInv, Billing!TypeOK
  <2> QED BY <1>2, <1>3, <1>4, <2>1 DEF PaidIInv, ChargedIsServed, ChargesOf, OnlyCharges
<1> QED BY <1>5, <1>6, <1>7, <1>8, <1>9 DEF PaidIInv

LEMMA RememberCheckoutPaid ==
  ASSUME BillingInv, PaidIInv, NEW p \in Checkouts, Billing!RememberCheckout(p)
  PROVE  PaidIInv'
<1> DEFINE t == sTask[p]
<1>1. /\ p \in BillingProcs /\ Billing!TypeOK /\ t.op = "checkout"
           /\ sSubs' = [sSubs EXCEPT ![t.n].status = "offered"]
      /\ sTask' = [sTask EXCEPT ![p] = Billing!Idle] /\ UNCHANGED <<sPlan, sSent, sSeen, sEvents>>
  BY DEF BillingProcs, BillingInv, Billing!RememberCheckout, Billing!Ends
<1>2. t.n \in DOMAIN sSubs /\ t.known \in Billing!Rows /\ sRow \in Billing!Rows /\ sSubs[t.n].status = "created"
  BY <1>1, HoldsOf DEF BillingInv, CheckoutIsNew, Billing!TypeOK
<1>3. /\ EventsHappened' /\ WhatRanIsTold' /\ DOMAIN sSubs' = DOMAIN sSubs
      /\ \A i \in DOMAIN sSubs : sSubs'[i].plan = sSubs[i].plan /\ (HasRun(i) => HasRun(i)')
  BY <1>1, <1>2, MoveUntold DEF PaidIInv
<1>4. \/ UNCHANGED <<sRow, sRaces>>
      \/ /\ sRow'.status = t.known.status /\ sRow'.status # "active"
         /\ sRaces' = IF sRow.status = "active" THEN sRaces \cup {"overtaken"} ELSE sRaces
  BY <1>2 DEF Billing!RememberCheckout, Billing!Noting, Billing!Rows
<1>5. ActiveHasRun' /\ ActiveIsNotOver'
  BY <1>1, <1>3, <1>4 DEF BillingInv, ActiveHasSub, Billing!TypeOK, PaidIInv, ActiveHasRun, ActiveIsNotOver,
      Billing!EndSeen
<1>6. NothingEnded'
  <2>1. \A q \in BillingProcs : sTask'[q] = IF q = p THEN Billing!Idle ELSE sTask[q]
    BY <1>1 DEF Billing!TypeOK, BillingProcs
  <2>2. Billing!Idle.known.status = "none"
    BY DEF Billing!Idle, Billing!NoRow
  <2> QED BY <1>1, <1>4, <2>1, <2>2 DEF PaidIInv, NothingEnded, OnlyCharges
<1>7. ChargedIsServed'
  BY <1>1, <1>3, <1>4 DEF PaidIInv, ChargedIsServed, ChargesOf, OnlyCharges
<1> QED BY <1>3, <1>5, <1>6, <1>7 DEF PaidIInv

LEMMA EndsQuiet ==
  ASSUME BillingInv, PaidIInv, NEW p \in BillingProcs, Billing!Ends(p),
         UNCHANGED <<sRow, sPlan, sSubs, sSent, sSeen, sRaces>>
  PROVE  PaidIInv'
<1>1. Billing!Idle.known.status = "none"
  BY DEF Billing!Idle, Billing!NoRow
<1> QED BY <1>1, PaidQuiet DEF Billing!Ends

LEMMA CallCancelPaid ==
  ASSUME BillingInv, PaidIInv, NEW p \in Checkouts, Billing!CallCancel(p)
  PROVE  PaidIInv'
<1> DEFINE n == sTask[p].n
<1>1. /\ p \in BillingProcs /\ Billing!TypeOK /\ sTask[p].op = "cancel"
           /\ UNCHANGED <<sRow, sPlan, sSent, sSeen, sRaces>>
      /\ sTask \in [BillingProcs -> [op : Billing!Ops, n : Nat, known : Billing!Rows]]
  BY DEF BillingProcs, BillingInv, Billing!CallCancel, Billing!TypeOK
<1>2. n \in DOMAIN sSubs
  BY <1>1, HoldsOf
<1>3. CASE UNCHANGED sSubs /\ Billing!Ends(p)
  BY <1>1, <1>3, EndsQuiet
<1>4. CASE sSubs[n].status = "live" /\ sSubs' = [sSubs EXCEPT ![n].status = "ending"]
           /\ (sTask' = [sTask EXCEPT ![p].op = "cancelled"] \/ Billing!Ends(p))
  <2>1. /\ EventsHappened' /\ WhatRanIsTold' /\ DOMAIN sSubs' = DOMAIN sSubs
        /\ \A i \in DOMAIN sSubs : sSubs'[i].plan = sSubs[i].plan /\ (HasRun(i) => HasRun(i)')
    BY <1>1, <1>2, <1>4, MoveUntold DEF PaidIInv
  <2>2. ActiveHasRun' /\ ActiveIsNotOver'
    BY <1>1, <2>1 DEF BillingInv, ActiveHasSub, Billing!TypeOK, PaidIInv, ActiveHasRun, ActiveIsNotOver,
        Billing!EndSeen
  <2>3. \A q \in BillingProcs : sTask'[q].known = sTask[q].known \/ sTask'[q].known.status = "none"
    <3>1. CASE sTask' = [sTask EXCEPT ![p].op = "cancelled"]
      BY <1>1, <3>1
    <3>2. CASE Billing!Ends(p)
      BY <1>1, <3>2 DEF Billing!Ends, Billing!Idle, Billing!NoRow
    <3> QED BY <1>4, <3>1, <3>2
  <2>4. NothingEnded'
    BY <1>1, <2>3 DEF PaidIInv, NothingEnded, OnlyCharges
  <2>5. ChargedIsServed'
    BY <1>1, <2>1 DEF PaidIInv, ChargedIsServed, ChargesOf, OnlyCharges
  <2> QED BY <2>1, <2>2, <2>4, <2>5 DEF PaidIInv
<1> QED BY <1>3, <1>4 DEF Billing!CallCancel

LEMMA MarkAtEndPaid ==
  ASSUME BillingInv, PaidIInv, NEW p \in Checkouts, Billing!MarkAtEnd(p)
  PROVE  PaidIInv'
<1>1. /\ p \in BillingProcs /\ sRow \in Billing!Rows /\ sRow' = [sRow EXCEPT !.atEnd = TRUE]
           /\ sTask' = [sTask EXCEPT ![p] = Billing!Idle]
      /\ sRaces' = sRaces \/ sRaces' = sRaces \cup {"misplaced"}
      /\ UNCHANGED <<sPlan, sSubs, sSent, sSeen, sEvents>>
  BY DEF BillingProcs, BillingInv, Billing!TypeOK, Billing!MarkAtEnd, Billing!Noting, Billing!Ends
<1>2. sRow'.sub = sRow.sub /\ sRow'.status = sRow.status
  BY <1>1 DEF Billing!Rows
<1>3. EventsHappened' /\ WhatRanIsTold'
  BY <1>1 DEF PaidIInv, EventsHappened, WhatRanIsTold, HasRun, EventOfKind
<1>4. ActiveHasRun' /\ ActiveIsNotOver' /\ ChargedIsServed'
  BY <1>1, <1>2 DEF PaidIInv, ActiveHasRun, ActiveIsNotOver, ChargedIsServed, HasRun, Billing!EndSeen,
      ChargesOf, OnlyCharges
<1>5. NothingEnded'
  <2>1. \A q \in BillingProcs : sTask'[q] = IF q = p THEN Billing!Idle ELSE sTask[q]
    BY <1>1 DEF BillingInv, Billing!TypeOK, BillingProcs
  <2>2. Billing!Idle.known.status = "none"
    BY DEF Billing!Idle, Billing!NoRow
  <2> QED BY <1>1, <1>2, <2>1, <2>2 DEF PaidIInv, NothingEnded, OnlyCharges
<1> QED BY <1>3, <1>4, <1>5 DEF PaidIInv

(* The gateway sends an event of what it does. *)
LEMMA GatewayPaid ==
  ASSUME BillingBounded, BillingInv, PaidIInv, NEW n \in DOMAIN sSubs, Billing!ChargeSub(n)
      \/ Billing!HaltSub(n) \/ Billing!EndSub(n)
  PROVE  PaidIInv'
<1> Billing!TypeOK
  BY DEF BillingInv
<1>1. PICK kind \in {"charged", "halted", "ended"}, st \in SubStatuses :
        /\ sSent' = Append(sSent, [is |-> kind, sub |-> n]) /\ sSubs' = [sSubs EXCEPT ![n].status = st]
        /\ UNCHANGED <<sRow, sPlan, sSeen, sTask, sRaces, sEvents>>
        /\ st = IF kind = "ended" THEN "ended" ELSE "live"
        /\ kind = "ended" => HasRun(n) /\ sSubs[n].status # "ended"
        /\ kind # "ended" => sSubs[n].status \notin {"ending", "ended"}
        /\ kind = "halted" => HasRun(n)
  BY DEF Billing!ChargeSub, Billing!HaltSub, Billing!EndSub, Billing!Sends, SubStatuses, HasRun
<1>2. /\ DOMAIN sSubs' = DOMAIN sSubs /\ sSubs'[n].status = st /\ sSubs'[n].plan = sSubs[n].plan
      /\ \A i \in DOMAIN sSubs : i # n => sSubs'[i] = sSubs[i]
  <2>1. sSubs \in Seq(Billing!SubsAt) /\ \A i \in DOMAIN sSubs : sSubs[i] \in Billing!SubsAt
    BY ElementOfSeq DEF Billing!TypeOK
  <2> QED BY <1>1, <2>1 DEF Billing!SubsAt
<1>3. /\ DOMAIN sSent' = DOMAIN sSent \cup {Len(sSent) + 1} /\ Len(sSent) + 1 \notin DOMAIN sSent
      /\ sSent'[Len(sSent) + 1].sub = n /\ sSent'[Len(sSent) + 1].is = kind
           /\ \A i \in DOMAIN sSent : sSent'[i] = sSent[i]
  <2> DEFINE e == [is |-> kind, sub |-> n]
  <2>1. n \in Billing!Subs
    <3>1. sSubs \in Seq(Billing!SubsAt) /\ Len(sSubs) <= MaxSubs /\ DOMAIN sSubs = 1 .. Len(sSubs)
      BY DEF Billing!TypeOK
    <3>2. Len(sSubs) \in Nat /\ n \in 1 .. Len(sSubs) /\ MaxSubs \in Nat
      BY <3>1 DEF BillingBounded
    <3> QED BY <3>1, <3>2 DEF Billing!Subs
  <2>2. e \in Billing!Events /\ sSent \in Seq(Billing!Events)
    BY <2>1 DEF Billing!Events, Billing!TypeOK
  <2> QED BY <1>1, <2>2, Appended
<1>4. \A i \in DOMAIN sSubs : HasRun(i) => HasRun(i)'
  BY <1>1, <1>2 DEF HasRun
<1>5. HasRun(n)'
  BY <1>1, <1>2 DEF HasRun
<1>6. \A e \in DOMAIN sSent : sSent[e].sub \in DOMAIN sSubs
  BY DEF Billing!TypeOK
<1>7. EventsHappened'
  <2>1. \A e \in DOMAIN sSent : sSent[e].is = "ended" /\ sSent[e].sub = n => kind = "ended"
    BY <1>1 DEF PaidIInv, EventsHappened
  <2> QED BY <1>1, <1>2, <1>3, <1>4, <1>5, <1>6, <2>1 DEF PaidIInv, EventsHappened
<1>8. WhatRanIsTold'
  <2>1. \A i \in DOMAIN sSubs, k \in {"charged", "ended"} : EventOfKind(k, i) => EventOfKind(k, i)'
    BY <1>3 DEF EventOfKind
  <2>2. EventOfKind("charged", n)'
    <3>1. CASE HasRun(n)
      BY <2>1, <3>1 DEF PaidIInv, WhatRanIsTold
    <3>2. CASE ~HasRun(n)
      <4>1. kind = "charged"
        BY <1>1, <3>2
      <4> QED BY <1>3, <4>1 DEF EventOfKind
    <3> QED BY <3>1, <3>2
  <2>3. sSubs'[n].status = "ended" => EventOfKind("ended", n)'
    BY <1>1, <1>2, <1>3 DEF EventOfKind
  <2>4. \A i \in DOMAIN sSubs : i # n => (HasRun(i)' <=> HasRun(i))
    BY <1>2 DEF HasRun
  <2> QED BY <1>2, <2>1, <2>2, <2>3, <2>4 DEF PaidIInv, WhatRanIsTold
<1>9. ActiveHasRun'
  BY <1>1, <1>4 DEF BillingInv, ActiveHasSub, Billing!TypeOK, PaidIInv, ActiveHasRun
<1>10. ActiveIsNotOver'
  <2>1. sSeen \subseteq DOMAIN sSent
    BY DEF Billing!TypeOK
  <2> QED BY <1>1, <1>3, <2>1 DEF PaidIInv, ActiveIsNotOver, Billing!EndSeen
<1>11. NothingEnded' /\ ChargedIsServed'
  <2>1. OnlyCharges' => OnlyCharges
    BY <1>3 DEF OnlyCharges
  <2>2. \A i \in DOMAIN sSubs : ChargesOf(i)' => ChargesOf(i)
    BY <1>3, <2>1 DEF ChargesOf
  <2>3. \A i \in DOMAIN sSubs : sSubs'[i].plan = sSubs[i].plan
    BY <1>2
  <2> QED BY <1>1, <1>2, <2>1, <2>2, <2>3 DEF PaidIInv, NothingEnded, ChargedIsServed
<1> QED BY <1>7, <1>8, <1>9, <1>10, <1>11 DEF PaidIInv

LEMMA ChargedPaid ==
  ASSUME BillingInv, PaidIInv, NEW p \in Deliveries, Billing!SubscriptionCharged(p)
  PROVE  PaidIInv'
<1> DEFINE e == sTask[p].n
           n == sSent[e].sub
<1>1. /\ p \in BillingProcs /\ Billing!TypeOK /\ sTask[p].op = "webhook" /\ sSent[e].is = "charged"
           /\ sSeen' = sSeen \cup {e}
      /\ sTask' = [sTask EXCEPT ![p] = Billing!Idle] /\ UNCHANGED <<sSubs, sSent, sEvents>>
  BY DEF BillingProcs, BillingInv, Billing!SubscriptionCharged, Billing!Handles, Billing!Handled, Billing!Ends
<1>2. e \in DOMAIN sSent /\ n \in DOMAIN sSubs
  BY <1>1, EventOf
<1>3. \/ sTask[p].known.status = "cancelled" /\ UNCHANGED <<sRow, sPlan, sRaces>>
      \/ /\ sRow'.status = "active" /\ sRow'.sub = n /\ sPlan' = sSubs[n].plan
         /\ sRaces' = IF Billing!EndSeen(n) THEN sRaces \cup {"late"} ELSE sRaces
  BY DEF Billing!SubscriptionCharged, Billing!Noting
<1>4. \A i : Billing!EndSeen(i)' <=> Billing!EndSeen(i)
  <2>1. \A i : sSent[e] # [is |-> "ended", sub |-> i]
    BY <1>1
  <2> QED BY <1>1, <2>1 DEF Billing!EndSeen
<1>5. EventsHappened' /\ WhatRanIsTold'
  BY <1>1 DEF PaidIInv, EventsHappened, WhatRanIsTold, HasRun, EventOfKind
<1>6. ActiveHasRun'
  BY <1>1, <1>2, <1>3 DEF PaidIInv, EventsHappened, ActiveHasRun, HasRun
<1>7. ActiveIsNotOver'
  BY <1>3, <1>4 DEF PaidIInv, ActiveIsNotOver
<1>8. NothingEnded'
  <2>1. \A q \in BillingProcs : sTask'[q] = IF q = p THEN Billing!Idle ELSE sTask[q]
    BY <1>1 DEF Billing!TypeOK, BillingProcs
  <2>2. Billing!Idle.known.status = "none"
    BY DEF Billing!Idle, Billing!NoRow
  <2> QED BY <1>1, <1>3, <2>1, <2>2 DEF PaidIInv, NothingEnded, OnlyCharges
<1>9. ChargedIsServed'
  <2> SUFFICES ASSUME NEW i \in DOMAIN sSubs, sRaces' = {}, ChargesOf(i)
               PROVE sRow'.status = "active" /\ sPlan' = sSubs[i].plan
    BY <1>1 DEF ChargedIsServed, ChargesOf, OnlyCharges
  <2>1. n = i /\ sTask[p].known.status \in {"none", "active"}
    BY <1>1, <1>2 DEF ChargesOf, PaidIInv, NothingEnded
  <2> QED BY <1>3, <2>1
<1> QED BY <1>5, <1>6, <1>7, <1>8, <1>9 DEF PaidIInv

LEMMA EndedPaid ==
  ASSUME BillingInv, PaidIInv, NEW p \in Deliveries, Billing!SubscriptionEnded(p)
  PROVE  PaidIInv'
<1> DEFINE e == sTask[p].n
           n == sSent[e].sub
<1>1. /\ p \in BillingProcs /\ Billing!TypeOK /\ sTask[p].op = "webhook" /\ sSent[e].is # "charged"
           /\ sSeen' = sSeen \cup {e}
      /\ sTask' = [sTask EXCEPT ![p] = Billing!Idle] /\ UNCHANGED <<sSubs, sSent, sEvents>>
  BY DEF BillingProcs, BillingInv, Billing!SubscriptionEnded, Billing!Handles, Billing!Handled, Billing!Ends
<1>2. e \in DOMAIN sSent /\ sRow \in Billing!Rows
  BY <1>1, EventOf DEF Billing!TypeOK
<1>3. \/ UNCHANGED sRow /\ sRaces' = IF sRow.sub = n THEN sRaces \cup {"late"} ELSE sRaces
      \/ sRow'.status # "active"
  <2>1. CASE ~Billing!Known(p)
    BY <2>1 DEF Billing!SubscriptionEnded, Billing!Noting
  <2>2. CASE Billing!Known(p)
    BY <1>2, <2>2 DEF Billing!SubscriptionEnded, Billing!Rows
  <2> QED BY <2>1, <2>2
<1>4. \A i : i # n => (Billing!EndSeen(i)' <=> Billing!EndSeen(i))
  <2>1. \A i : i # n => sSent[e] # [is |-> "ended", sub |-> i]
    OBVIOUS
  <2> QED BY <1>1, <2>1 DEF Billing!EndSeen
<1>5. EventsHappened' /\ WhatRanIsTold'
  BY <1>1 DEF PaidIInv, EventsHappened, WhatRanIsTold, HasRun, EventOfKind
<1>6. ActiveHasRun'
  BY <1>1, <1>3 DEF PaidIInv, ActiveHasRun, HasRun
<1>7. ActiveIsNotOver'
  BY <1>3, <1>4 DEF PaidIInv, ActiveIsNotOver
<1>8. ~OnlyCharges'
  BY <1>1, <1>2 DEF OnlyCharges
<1>9. NothingEnded' /\ ChargedIsServed'
  BY <1>8 DEF NothingEnded, ChargedIsServed, ChargesOf
<1> QED BY <1>5, <1>6, <1>7, <1>9 DEF PaidIInv

LEMMA StepPaidIInv == ASSUME BillingBounded, BillingInv, PaidIInv, [Billing!Next]_Billing!vars PROVE PaidIInv'
<1>1. CASE Billing!Next
  <2>1. ASSUME NEW p \in Checkouts, NEW asked \in Plans, Billing!StartCheckout(p, asked) PROVE PaidIInv'
    BY <2>1, StartCheckoutPaid
  <2>2. ASSUME NEW p \in Checkouts, Billing!RememberCheckout(p) PROVE PaidIInv'
    BY <2>2, RememberCheckoutPaid
  <2>3. ASSUME NEW p \in Checkouts, Billing!AskCancel(p) PROVE PaidIInv'
    <3> DEFINE t == [op |-> "cancel", n |-> sRow.sub, known |-> sRow]
    <3>1. p \in BillingProcs /\ sTask' = [sTask EXCEPT ![p] = t]
            /\ UNCHANGED <<sRow, sPlan, sSubs, sSent, sSeen, sRaces, sEvents>>
      BY <2>3 DEF BillingProcs, Billing!AskCancel, Billing!Begins
    <3>2. t.known.status = sRow.status
      OBVIOUS
    <3> QED BY <3>1, <3>2, PaidQuiet
  <2>4. ASSUME NEW p \in Checkouts, Billing!CallCancel(p) PROVE PaidIInv'
    BY <2>4, CallCancelPaid
  <2>5. ASSUME NEW p \in Checkouts, Billing!MarkAtEnd(p) PROVE PaidIInv'
    BY <2>5, MarkAtEndPaid
  <2>6. ASSUME NEW n \in DOMAIN sSubs, Billing!ChargeSub(n) \/ Billing!HaltSub(n) \/ Billing!EndSub(n)
        PROVE PaidIInv'
    BY <2>6, GatewayPaid
  <2>7. ASSUME NEW p \in Deliveries, NEW e \in DOMAIN sSent, Billing!Receive(p, e) PROVE PaidIInv'
    <3> DEFINE t == [op |-> "webhook", n |-> e, known |-> IF sRow.sub = sSent[e].sub THEN sRow
        ELSE Billing!NoRow]
    <3>1. p \in BillingProcs /\ sTask' = [sTask EXCEPT ![p] = t]
            /\ UNCHANGED <<sRow, sPlan, sSubs, sSent, sSeen, sRaces, sEvents>>
      BY <2>7 DEF BillingProcs, Billing!Receive, Billing!Begins
    <3>2. t.known.status = "none" \/ t.known.status = sRow.status
      BY DEF Billing!NoRow
    <3> QED BY <3>1, <3>2, PaidQuiet
  <2>8. ASSUME NEW p \in Deliveries, Billing!SubscriptionCharged(p) PROVE PaidIInv'
    BY <2>8, ChargedPaid
  <2>9. ASSUME NEW p \in Deliveries, Billing!SubscriptionEnded(p) PROVE PaidIInv'
    BY <2>9, EndedPaid
  <2>10. ASSUME NEW p \in Checkouts \cup Deliveries, Billing!Fails(p) PROVE PaidIInv'
    <3>1. p \in BillingProcs /\ Billing!Ends(p) /\ UNCHANGED <<sRow, sPlan, sSubs, sSent, sSeen, sRaces>>
      BY <2>10 DEF BillingProcs, Billing!Fails
    <3> QED BY <3>1, EndsQuiet
  <2> QED BY <1>1, <2>1, <2>2, <2>3, <2>4, <2>5, <2>6, <2>7, <2>8, <2>9, <2>10 DEF Billing!Next
<1>2. CASE UNCHANGED Billing!vars
  BY <1>2 DEF Billing!vars, PaidIInv, EventsHappened, WhatRanIsTold, ActiveHasRun, ActiveIsNotOver,
      NothingEnded, ChargedIsServed,
     HasRun, EventOfKind, Billing!EndSeen, ChargesOf, OnlyCharges
<1> QED BY <1>1, <1>2

LEMMA InitPaidIInv == ASSUME Billing!Init PROVE PaidIInv
<1>1. DOMAIN sSubs = {} /\ DOMAIN sSent = {}
  BY DEF Billing!Init
<1> QED
  BY <1>1 DEF Billing!Init, Billing!NoRow, Billing!Idle, PaidIInv, EventsHappened, WhatRanIsTold, ActiveHasRun,
      ActiveIsNotOver, NothingEnded,
     ChargedIsServed, BillingProcs

(* Once every event is handled, a company none of whose subscriptions is running is on Free, if no checkout    *)
(* overwrote an active row and no event was handled late or misplaced (subscriptionCharged, subscriptionEnded). *)
LEMMA OverIsFree == ASSUME BillingInv, PaidIInv PROVE Billing!EndedIsFree
<1> SUFFICES ASSUME Billing!AllHandled, sRaces = {}, sPlan # "free",
                    \A n \in DOMAIN sSubs : sSubs[n].status \notin {"live", "ending"}
             PROVE FALSE
  BY DEF Billing!EndedIsFree
<1>1. sRow.status = "active" /\ sRow.sub \in DOMAIN sSubs
  BY DEF BillingInv, Billing!PlanAgreesWithRow, ActiveHasSub, Billing!TypeOK
<1>2. sSubs[sRow.sub].status = "ended"
  BY <1>1 DEF PaidIInv, ActiveHasRun, HasRun
<1>3. PICK e \in DOMAIN sSent : sSent[e].is = "ended" /\ sSent[e].sub = sRow.sub
  BY <1>1, <1>2 DEF PaidIInv, WhatRanIsTold, EventOfKind
<1>4. sSent[e] = [is |-> "ended", sub |-> sRow.sub]
  <2>1. sSent[e] \in Billing!Events
    BY ElementOfSeq DEF BillingInv, Billing!TypeOK
  <2> QED BY <1>3, <2>1 DEF Billing!Events
<1>5. Billing!EndSeen(sRow.sub)
  BY <1>3, <1>4 DEF Billing!AllHandled, Billing!EndSeen
<1> QED BY <1>1, <1>5 DEF PaidIInv, ActiveIsNotOver

LEMMA RunningIsServed == ASSUME BillingInv, PaidIInv PROVE Billing!PaidIsServed
<1> SUFFICES ASSUME NEW n \in DOMAIN sSubs, Billing!AllHandled, sRaces = {}, sSubs[n].status \in {"live", "ending"},
                    \A e \in DOMAIN sSent : sSent[e].sub = n /\ sSent[e].is # "halted"
             PROVE sPlan = sSubs[n].plan
  BY DEF Billing!PaidIsServed
<1>1. OnlyCharges
  <2> SUFFICES ASSUME NEW e \in DOMAIN sSent PROVE sSent[e].is = "charged"
    BY DEF OnlyCharges
  <2>1. sSent[e] \in Billing!Events
    BY ElementOfSeq DEF BillingInv, Billing!TypeOK
  <2>2. sSent[e].is # "ended"
    BY DEF PaidIInv, EventsHappened
  <2> QED BY <2>1, <2>2 DEF Billing!Events
<1>2. EventOfKind("charged", n)
  BY DEF PaidIInv, WhatRanIsTold, HasRun
<1>3. sSeen # {}
  BY <1>2 DEF EventOfKind, Billing!AllHandled
<1> QED BY <1>1, <1>3 DEF PaidIInv, ChargedIsServed, ChargesOf

(* What a company reads of its subscription is true of its modules and of its bill, and once every event is    *)
(* handled it has the plan it pays for, for any plans, checkouts, deliveries, orders and failures, but for the *)
(* races the properties name.                                                                                  *)

LEMMA BillingAlways == AllSpec => [](BillingInv /\ PaidIInv)
<1>1. AllInit => BillingInv /\ PaidIInv
  BY BillingStarts, InitPaidIInv, PartsAssumption DEF AllInit, BillingBounded
<1>2. (BillingInv /\ PaidIInv) /\ [AllNext]_<<focus, idem, jobs, gst, billing, online, filing>>
        => (BillingInv /\ PaidIInv)'
  <2>1. [AllNext]_<<focus, idem, jobs, gst, billing, online, filing>> => [Billing!Next]_Billing!vars
    BY DEF AllNext, billing, Billing!vars
  <2>2. BillingBounded
    BY PartsAssumption DEF BillingBounded
  <2> QED BY <2>1, <2>2, BillingKept, StepPaidIInv
<1> QED BY <1>1, <1>2, PTL DEF AllSpec

(* What a company reads of its subscription is true of its modules and of its bill (a checkout, a cancellation  *)
(* and a webhook each act on what they have read before), and once every event is handled it has the plan it    *)
(* pays for: for any plans, checkouts, deliveries and bounds, outside the races the properties name.            *)
THEOREM PaidIsServed == AllSpec => []PlanIsWhatIsPaid
<1>1. BillingInv /\ PaidIInv => PlanIsWhatIsPaid
  BY OverIsFree, RunningIsServed DEF BillingInv, PlanIsWhatIsPaid, Billing!PlanIsWhatIsPaid
<1> QED BY <1>1, BillingAlways, PTL

-----------------------------------------------------------------------------
(* Filing *)

FilingBounded == MaxEdits \in Nat /\ MaxEvents \in Nat

(* Only a filing the portal has made is recorded. *)
RecordsWhatIsFiled == \A p \in Returns!Procs : Returns!Is(p, "record") => Returns!FiledThere(Returns!T(p))

(* Who is on the way to file GSTR-3B found GSTR-1 filed. *)
Gstr1IsFiled ==
  \A p \in Returns!Procs : fTask[p].op \in {"track", "file"} /\ Returns!T(p) = "gstr3b"
      => Returns!FiledThere("gstr1")

(* Who read the books closed goes by what is still so, unless they were opened again. *)
ClosedAsRead == \A p \in Returns!Procs : ~fLoosened /\ fTask[p].lock >= 1 => fCompany.lock >= 1

(* A company is saved while there are savings left. *)
SavesLeft == \A p \in Returns!Procs : Returns!Is(p, "company") => fTask[p].version < MaxEdits

FilingInv == Returns!TypeOK /\ RecordsWhatIsFiled /\ Gstr1IsFiled /\ ClosedAsRead /\ SavesLeft
    /\ Returns!FilingIsSound

(* What a step may do to its own task, and what it leaves of the others. *)
LEMMA OwnTask ==
  ASSUME Returns!TypeOK, NEW p \in Returns!Procs, NEW new, fTask' = [fTask EXCEPT ![p] = new]
  PROVE  fTask'[p] = new /\ \A q \in Returns!Procs : q # p => fTask'[q] = fTask[q]
BY DEF Returns!TypeOK

LEMMA FilingStarts == ASSUME FilingBounded, Returns!Init PROVE FilingInv
<1>1. Returns!TypeOK
  <2>1. fRow \in [Returns!Returns -> [status : Returns!Statuses, lost : BOOLEAN]]
    BY DEF Returns!Init, Returns!NoReturn, Returns!Statuses
  <2>2. /\ fCompany \in [lock : 0 .. 2, version : 0 .. MaxEdits] /\ fSetOffs \in 0 .. 2
             /\ fEvents \in 0 .. MaxEvents
    BY DEF Returns!Init, FilingBounded
  <2>6. fReopened \subseteq Returns!Returns /\ fLoosened \in BOOLEAN
    BY Zenon DEF Returns!Init
  <2>3. fPortal \in [Returns!Returns -> {"nothing", "saved", "filed"}]
    BY DEF Returns!Init
  <2>4. Returns!Idle \in [op : Returns!Ops, t : Returns!Returns,
             status : {"saved", "failed"}, lock : 0 .. 2, version : 0 .. MaxEdits]
    BY DEF Returns!Idle, Returns!Ops, Returns!Returns, FilingBounded
  <2>5. fTask \in [Returns!Procs -> [op : Returns!Ops, t : Returns!Returns,
             status : {"saved", "failed"}, lock : 0 .. 2, version : 0 .. MaxEdits]]
    BY <2>4 DEF Returns!Init
  <2> QED BY <2>1, <2>2, <2>3, <2>5, <2>6 DEF Returns!TypeOK
<1>2. Returns!FilingIsSound
  BY DEF Returns!Init, Returns!FilingIsSound, Returns!FiledHereIsFiledThere, Returns!FiledInOrder,
      Returns!SetOffIsPostedOnce, Returns!FiledWithBooksClosed,
         Returns!NoReturn, Returns!Returns, Returns!FiledThere
<1>3. RecordsWhatIsFiled /\ Gstr1IsFiled /\ ClosedAsRead /\ SavesLeft
  BY DEF Returns!Init, RecordsWhatIsFiled, Gstr1IsFiled, ClosedAsRead, SavesLeft, Returns!Idle, Returns!Is,
      Returns!T
<1> QED BY <1>1, <1>2, <1>3 DEF FilingInv

(* A step that leaves the record alone keeps what it promises when the portal unfiles nothing, *)
(* and files GSTR-3B only after GSTR-1.                                                        *)
LEMMA RecordKept ==
  ASSUME FilingInv, Returns!KeepsRecord,
         \A t \in Returns!Returns : Returns!FiledThere(t) => Returns!FiledThere(t)',
         Returns!FiledThere("gstr3b")' => Returns!FiledThere("gstr1")'
  PROVE  Returns!FilingIsSound'
BY DEF FilingInv, Returns!KeepsRecord, Returns!FilingIsSound, Returns!FiledHereIsFiledThere,
    Returns!FiledInOrder, Returns!SetOffIsPostedOnce,
       Returns!FiledWithBooksClosed, Returns!FiledThere, Returns!Returns

(* What a step of p leads to promises as much as what it was at, when the portal unfiles    *)
(* nothing, and the books are not opened.                                                   *)
LEMMA TaskKept ==
  ASSUME FilingInv, NEW p \in Returns!Procs, NEW new, fTask' = [fTask EXCEPT ![p] = new],
         \A t \in Returns!Returns : Returns!FiledThere(t) => Returns!FiledThere(t)',
         ~fLoosened' /\ fCompany.lock >= 1 => fCompany'.lock >= 1, ~fLoosened' => ~fLoosened,
         new.t \in Returns!Returns,
         new.op = "record" => Returns!FiledThere(new.t)',
         new.op \in {"track", "file"} /\ new.t = "gstr3b" => Returns!FiledThere("gstr1")',
         ~fLoosened' /\ new.lock >= 1 => fCompany'.lock >= 1,
         new.op = "company" => new.version < MaxEdits
  PROVE  RecordsWhatIsFiled' /\ Gstr1IsFiled' /\ ClosedAsRead' /\ SavesLeft'
<1>1. fTask'[p] = new /\ \A q \in Returns!Procs : q # p => fTask'[q] = fTask[q]
        /\ fTask[q].t \in Returns!Returns
  BY OwnTask DEF FilingInv, Returns!TypeOK
<1>2. RecordsWhatIsFiled'
  BY <1>1 DEF FilingInv, RecordsWhatIsFiled, Returns!Is, Returns!T
<1>3. Gstr1IsFiled'
  BY <1>1 DEF FilingInv, Gstr1IsFiled, Returns!T, Returns!Returns
<1>4. ClosedAsRead'
  BY <1>1 DEF FilingInv, ClosedAsRead
<1>5. SavesLeft'
  BY <1>1 DEF FilingInv, SavesLeft, Returns!Is
<1> QED BY <1>2, <1>3, <1>4, <1>5

-----------------------------------------------------------------------------
(* Types *)

Tasks == [op : Returns!Ops, t : Returns!Returns,
             status : {"saved", "failed"}, lock : 0 .. 2, version : 0 .. MaxEdits]

LEMMA IdleIsATask == ASSUME FilingBounded PROVE Returns!Idle \in Tasks
BY DEF FilingBounded, Returns!Idle, Tasks, Returns!Ops, Returns!Returns

(* A step gives one task a value of its type. *)
LEMMA TaskTyped ==
  ASSUME Returns!TypeOK, NEW p \in Returns!Procs, NEW new \in Tasks, fTask' = [fTask EXCEPT ![p] = new]
  PROVE  fTask' \in [Returns!Procs -> Tasks]
BY DEF Returns!TypeOK, Tasks

(* A step that goes on with what its process is at. *)
LEMMA LeftAlone ==
  ASSUME FilingBounded, Returns!TypeOK, NEW p \in Returns!Procs, NEW op \in Returns!Ops, Returns!Goes(p, op)
  PROVE  /\ fTask' = [fTask EXCEPT ![p] = [fTask[p] EXCEPT !.op = op]] /\ [fTask[p] EXCEPT !.op = op] \in Tasks
         /\ fTask[p] \in Tasks
<1>1. fTask[p] \in Tasks
  BY DEF Returns!TypeOK, Tasks
<1> QED BY <1>1 DEF Returns!Goes, Tasks, Returns!TypeOK

(* A request that begins. *)
LEMMA Begun ==
  ASSUME FilingBounded, Returns!TypeOK, NEW p \in Returns!Procs, NEW op \in Returns!Ops,
         NEW t \in Returns!Returns, Returns!Starts(p, op, t)
  PROVE  \E new \in Tasks :
           /\ fTask' = [fTask EXCEPT ![p] = new]
           /\ new.op = op /\ new.t = t /\ new.lock = fCompany.lock /\ new.version = fCompany.version
<1> DEFINE new == [Returns!Idle EXCEPT !.op = op, !.t = t, !.lock = fCompany.lock, !.version = fCompany.version]
<1>1. Returns!Idle \in Tasks
  BY IdleIsATask
<1>2. fCompany.lock \in 0 .. 2 /\ fCompany.version \in 0 .. MaxEdits
  BY DEF Returns!TypeOK
<1>3. /\ new \in Tasks
      /\ new.op = op /\ new.t = t /\ new.lock = fCompany.lock /\ new.version = fCompany.version
  BY <1>1, <1>2 DEF Tasks, Returns!Idle
<1>4. fTask' = [fTask EXCEPT ![p] = new]
  BY DEF Returns!Starts
<1> HIDE DEF new
<1> QED BY <1>3, <1>4

(* What a step keeps of the types, when it keeps the record. *)
LEMMA RecordTyped ==
  ASSUME Returns!TypeOK, Returns!KeepsRecord, fTask' \in [Returns!Procs -> Tasks],
         fPortal' \in [Returns!Returns -> {"nothing", "saved", "filed"}], fEvents' \in 0 .. MaxEvents
  PROVE  Returns!TypeOK'
<1>1. fRow' = fRow /\ fCompany' = fCompany /\ fSetOffs' = fSetOffs /\ fReopened' = fReopened
        /\ fLoosened' = fLoosened
  BY DEF Returns!KeepsRecord
<1>2. /\ fRow \in [Returns!Returns -> [status : Returns!Statuses, lost : BOOLEAN]]
           /\ fCompany \in [lock : 0 .. 2, version : 0 .. MaxEdits]
      /\ fSetOffs \in 0 .. 2 /\ fReopened \subseteq Returns!Returns /\ fLoosened \in BOOLEAN
  BY DEF Returns!TypeOK
<1> QED BY <1>1, <1>2, Zenon DEF Returns!TypeOK, Tasks

LEMMA OneEvent == ASSUME FilingBounded, Returns!TypeOK, Returns!Happens PROVE fEvents' \in 0 .. MaxEvents
BY DEF FilingBounded, Returns!TypeOK, Returns!Happens

-----------------------------------------------------------------------------
(* Steps *)

PortalKept == \A t \in Returns!Returns : Returns!FiledThere(t) => Returns!FiledThere(t)'

(* A step of p that keeps the record, and what its next value has to promise. *)
LEMMA Quiet ==
  ASSUME FilingBounded, FilingInv, NEW p \in Returns!Procs, NEW new \in Tasks,
  fTask' = [fTask EXCEPT ![p] = new], Returns!KeepsRecord,
         fPortal' \in [Returns!Returns -> {"nothing", "saved", "filed"}], fEvents' \in 0 .. MaxEvents,
         PortalKept,
         Returns!FiledThere("gstr3b")' => Returns!FiledThere("gstr1")',
         new.op = "record" => Returns!FiledThere(new.t)',
         new.op \in {"track", "file"} /\ new.t = "gstr3b" => Returns!FiledThere("gstr1")',
         new.lock >= 1 => fCompany.lock >= 1 \/ fLoosened,
         new.op = "company" => new.version < MaxEdits
  PROVE  FilingInv'
<1>1. Returns!TypeOK'
  BY TaskTyped, RecordTyped DEF FilingInv
<1>2. Returns!FilingIsSound'
  BY RecordKept DEF PortalKept
<1>3. fCompany' = fCompany /\ fLoosened' = fLoosened /\ new.t \in Returns!Returns
  BY DEF Returns!KeepsRecord, Tasks
<1>4. RecordsWhatIsFiled' /\ Gstr1IsFiled' /\ ClosedAsRead' /\ SavesLeft'
  <2>1. ~fLoosened' /\ fCompany.lock >= 1 => fCompany'.lock >= 1
    BY <1>3
  <2>2. ~fLoosened' => ~fLoosened
    BY <1>3
  <2>3. ~fLoosened' /\ new.lock >= 1 => fCompany'.lock >= 1
    BY <1>3
  <2> QED BY <1>3, <2>1, <2>2, <2>3, TaskKept DEF PortalKept
<1> QED BY <1>1, <1>2, <1>4 DEF FilingInv

(* The same, with the portal as it was. *)
LEMMA QuietPortal ==
  ASSUME FilingBounded, FilingInv, NEW p \in Returns!Procs, NEW new \in Tasks,
  fTask' = [fTask EXCEPT ![p] = new], Returns!KeepsRecord,
         fPortal' = fPortal, fEvents' \in 0 .. MaxEvents,
         new.op = "record" => Returns!FiledThere(new.t),
         new.op \in {"track", "file"} /\ new.t = "gstr3b" => Returns!FiledThere("gstr1"),
         new.lock >= 1 => fCompany.lock >= 1 \/ fLoosened,
         new.op = "company" => new.version < MaxEdits
  PROVE  FilingInv'
<1>1. fPortal' \in [Returns!Returns -> {"nothing", "saved", "filed"}]
  BY DEF FilingInv, Returns!TypeOK
<1>2. PortalKept /\ \A t \in Returns!Returns : Returns!FiledThere(t)' <=> Returns!FiledThere(t)
  BY DEF PortalKept, Returns!FiledThere
<1>3. Returns!FiledThere("gstr3b")' => Returns!FiledThere("gstr1")'
  BY <1>2 DEF FilingInv, Returns!FilingIsSound, Returns!FiledInOrder, Returns!Returns
<1>4. new.t \in Returns!Returns
  BY DEF Tasks
<1>5. new.op = "record" => Returns!FiledThere(new.t)'
  BY <1>2, <1>4
<1>6. new.op \in {"track", "file"} /\ new.t = "gstr3b" => Returns!FiledThere("gstr1")'
  BY <1>2 DEF Returns!Returns
<1> QED BY <1>1, <1>2, <1>3, <1>5, <1>6, Quiet

(* A process that ends leaves nothing to promise. *)
LEMMA IdleHolds ==
  ASSUME FilingBounded
  PROVE  /\ Returns!Idle \in Tasks /\ Returns!Idle.op = "none" /\ Returns!Idle.lock = 0
         /\ ~(Returns!Idle.lock >= 1) /\ ~(Returns!Idle.op = "record")
              /\ ~(Returns!Idle.op \in {"track", "file"}) /\ ~(Returns!Idle.op = "company")
BY IdleIsATask DEF Returns!Idle

LEMMA EndsQuietly ==
  ASSUME FilingBounded, FilingInv, NEW p \in Returns!Procs, Returns!Ends(p), Returns!KeepsRecord,
         fPortal' = fPortal, fEvents' \in 0 .. MaxEvents
  PROVE  FilingInv'
BY IdleHolds, QuietPortal DEF Returns!Ends

(* What a process holds by the invariant *)
LEMMA Held ==
  ASSUME FilingInv, NEW p \in Returns!Procs
  PROVE  /\ fTask[p] \in Tasks /\ Returns!T(p) \in Returns!Returns
         /\ fTask[p].op = "record" => Returns!FiledThere(Returns!T(p))
         /\ fTask[p].op \in {"track", "file"} /\ Returns!T(p) = "gstr3b" => Returns!FiledThere("gstr1")
         /\ fTask[p].lock >= 1 => fCompany.lock >= 1 \/ fLoosened
BY DEF FilingInv, Returns!TypeOK, Tasks, RecordsWhatIsFiled, Gstr1IsFiled, ClosedAsRead, Returns!Is, Returns!T

(* A process that goes on to something that promises no more than where it is. *)
LEMMA GoesQuietly ==
  ASSUME FilingBounded, FilingInv, NEW p \in Returns!Procs, NEW op \in Returns!Ops, Returns!Goes(p, op),
  Returns!KeepsRecord, fPortal' = fPortal,
         fEvents' \in 0 .. MaxEvents,
         op = "record" => Returns!FiledThere(Returns!T(p)),
         op \in {"track", "file"} /\ Returns!T(p) = "gstr3b" => Returns!FiledThere("gstr1"),
         op # "company"
  PROVE  FilingInv'
<1> DEFINE new == [fTask[p] EXCEPT !.op = op]
<1>1. new \in Tasks /\ fTask' = [fTask EXCEPT ![p] = new]
  BY LeftAlone DEF FilingInv
<1>2. new.op = op /\ new.t = Returns!T(p) /\ new.lock = fTask[p].lock
  BY Held DEF Returns!T, Tasks
<1>3. new.lock >= 1 => fCompany.lock >= 1 \/ fLoosened
  BY <1>2, Held
<1>4. new.op = "record" => Returns!FiledThere(new.t)
  BY <1>2
<1>5. new.op \in {"track", "file"} /\ new.t = "gstr3b" => Returns!FiledThere("gstr1")
  BY <1>2
<1>6. ~(new.op = "company")
  BY <1>2
<1> HIDE DEF new
<1> QED BY <1>1, <1>3, <1>4, <1>5, <1>6, QuietPortal

(* A request that begins has nothing to promise but what it reads. *)
LEMMA StartsQuietly ==
  ASSUME FilingBounded, FilingInv, NEW p \in Returns!Procs, NEW op \in Returns!Ops, NEW t \in Returns!Returns,
  Returns!Starts(p, op, t), Returns!KeepsRecord,
         UNCHANGED <<fPortal, fEvents>>,
         op # "record", op # "file", op = "track" /\ t = "gstr3b" => Returns!FiledThere("gstr1"),
         op = "company" => fCompany.version < MaxEdits
  PROVE  FilingInv'
<1>1. PICK new \in Tasks :
        /\ fTask' = [fTask EXCEPT ![p] = new]
        /\ new.op = op /\ new.t = t /\ new.lock = fCompany.lock /\ new.version = fCompany.version
  BY Begun DEF FilingInv
<1>2. fEvents' \in 0 .. MaxEvents
  BY DEF FilingInv, Returns!TypeOK
<1> QED BY <1>1, <1>2, QuietPortal

(* A request that saves, sets off or proceeds, files on the portal's word, or is refused *)
LEMMA Asks ==
  ASSUME FilingBounded, FilingInv, NEW p \in Requests, NEW t \in Returns!Returns,
         Returns!SaveGstReturn(p, t) \/ Returns!Advance(p, t) \/ Returns!FileGstReturn(p, t)
  PROVE  FilingInv'
<1> p \in Returns!Procs
  BY DEF Returns!Procs
<1>1. CASE Returns!SaveGstReturn(p, t)
  <2> DEFINE new == [Returns!Idle EXCEPT !.op = "save", !.t = t]
  <2>1. /\ new \in Tasks /\ new.op = "save" /\ new.lock = 0
    BY IdleIsATask DEF Returns!Idle, Tasks, Returns!Ops
  <2>2. fTask' = [fTask EXCEPT ![p] = new] /\ Returns!KeepsRecord /\ fPortal' = fPortal
          /\ fEvents' \in 0 .. MaxEvents
    BY <1>1 DEF Returns!SaveGstReturn, FilingInv, Returns!TypeOK
  <2>3. ~(new.op = "record") /\ ~(new.op \in {"track", "file"}) /\ ~(new.op = "company") /\ ~(new.lock >= 1)
    BY <2>1
  <2> HIDE DEF new
  <2> QED BY <2>1, <2>2, <2>3, QuietPortal
<1>2. CASE Returns!Advance(p, t)
  BY <1>2, StartsQuietly DEF Returns!Advance, Returns!Ops
<1>3. CASE Returns!FileGstReturn(p, t)
  <2>1. t = "gstr3b" => Returns!FiledThere("gstr1")
    BY <1>3 DEF Returns!FileGstReturn, FilingInv, Returns!FilingIsSound, Returns!FiledHereIsFiledThere,
        Returns!Returns
  <2> QED BY <1>3, <2>1, StartsQuietly DEF Returns!FileGstReturn, Returns!Ops
<1> QED BY <1>1, <1>2, <1>3

LEMMA Reads ==
  ASSUME FilingBounded, FilingInv, NEW p \in Requests, Returns!ReadCompany(p)
  PROVE  FilingInv'
BY StartsQuietly DEF Returns!ReadCompany, Returns!Procs, Returns!Ops, Returns!Returns

LEMMA Recovers ==
  ASSUME FilingBounded, FilingInv, NEW w \in Runners, NEW t \in Returns!Returns, Returns!StartRecover(w, t)
  PROVE  FilingInv'
BY StartsQuietly DEF Returns!StartRecover, Returns!Procs, Returns!Ops

LEMMA PortalIsAsked ==
  ASSUME FilingBounded, FilingInv, NEW p \in Returns!Procs, Returns!KeepsRecord,
         ~Returns!FiledThere(Returns!T(p)), fPortal' = [fPortal EXCEPT ![Returns!T(p)] = "saved"]
  PROVE  /\ fPortal' \in [Returns!Returns -> {"nothing", "saved", "filed"}] /\ PortalKept
         /\ Returns!FiledThere("gstr3b")' => Returns!FiledThere("gstr1")'
<1>1. Returns!T(p) \in Returns!Returns
  BY Held
<1>2. fPortal' \in [Returns!Returns -> {"nothing", "saved", "filed"}]
  BY <1>1 DEF FilingInv, Returns!TypeOK
<1>3. \A t \in Returns!Returns : Returns!FiledThere(t)' <=> Returns!FiledThere(t)
  BY <1>1 DEF FilingInv, Returns!TypeOK, Returns!FiledThere
<1> QED BY <1>2, <1>3 DEF PortalKept, FilingInv, Returns!FilingIsSound, Returns!FiledInOrder, Returns!Returns

LEMMA Saves ==
  ASSUME FilingBounded, FilingInv, NEW p \in Requests, NEW status \in {"saved", "failed"},
         Returns!PortalSaves(p, status)
  PROVE  FilingInv'
<1> DEFINE new == [fTask[p] EXCEPT !.op = "save write", !.status = status]
<1>1. p \in Returns!Procs
  BY DEF Returns!Procs
<1>2. fTask[p] \in Tasks /\ fTask[p].lock >= 1 => fCompany.lock >= 1 \/ fLoosened
  BY <1>1, Held
<1>3. new \in Tasks /\ new.op = "save write" /\ new.lock = fTask[p].lock
  BY <1>1, Held DEF Tasks, Returns!Ops
<1>4. fTask' = [fTask EXCEPT ![p] = new]
  BY DEF Returns!PortalSaves
<1>5. Returns!KeepsRecord /\ fEvents' \in 0 .. MaxEvents
  BY DEF Returns!PortalSaves, FilingInv, Returns!TypeOK
<1>6. /\ fPortal' \in [Returns!Returns -> {"nothing", "saved", "filed"}] /\ PortalKept
      /\ Returns!FiledThere("gstr3b")' => Returns!FiledThere("gstr1")'
  BY <1>1, PortalIsAsked DEF Returns!PortalSaves
<1>7. ~(new.op = "record") /\ ~(new.op \in {"track", "file"}) /\ ~(new.op = "company")
  BY <1>3
<1>8. new.lock >= 1 => fCompany.lock >= 1 \/ fLoosened
  BY <1>1, <1>3, Held
<1> HIDE DEF new
<1> QED BY <1>1, <1>3, <1>4, <1>5, <1>6, <1>7, <1>8, Quiet

LEMMA GoesUnanswered ==
  ASSUME FilingBounded, FilingInv, NEW p \in Requests, Returns!Unanswered(p)
  PROVE  FilingInv'
<1>1. p \in Returns!Procs /\ fEvents' \in 0 .. MaxEvents /\ Returns!Ends(p) /\ Returns!KeepsRecord
  BY OneEvent DEF Returns!Procs, Returns!Unanswered, FilingInv
<1>2. CASE fPortal' = fPortal
  BY <1>1, <1>2, EndsQuietly
<1>3. CASE ~Returns!FiledThere(Returns!T(p)) /\ fPortal' = [fPortal EXCEPT ![Returns!T(p)] = "saved"]
  <2>1. /\ fPortal' \in [Returns!Returns -> {"nothing", "saved", "filed"}] /\ PortalKept
        /\ Returns!FiledThere("gstr3b")' => Returns!FiledThere("gstr1")'
    BY <1>1, <1>3, PortalIsAsked
  <2>2. fTask' = [fTask EXCEPT ![p] = Returns!Idle]
    BY <1>1 DEF Returns!Ends
  <2> QED BY <1>1, <2>1, <2>2, IdleHolds, Quiet
<1> QED BY <1>2, <1>3 DEF Returns!Unanswered

(* The portal files, and the answer comes or is lost. *)
LEMMA PortalFiled ==
  ASSUME FilingBounded, FilingInv, NEW p \in Returns!Procs, Returns!PortalFiles(p)
  PROVE  /\ fPortal' \in [Returns!Returns -> {"nothing", "saved", "filed"}] /\ PortalKept
         /\ Returns!FiledThere("gstr3b")' => Returns!FiledThere("gstr1")'
         /\ fPortal'[Returns!T(p)] = "filed"
<1>1. Returns!T(p) \in Returns!Returns /\ (Returns!T(p) = "gstr3b" => Returns!FiledThere("gstr1"))
  BY Held DEF Returns!PortalFiles, Returns!Is
<1>2. fPortal' = [fPortal EXCEPT ![Returns!T(p)] = "filed"]
  BY DEF Returns!PortalFiles
<1>3. fPortal \in [Returns!Returns -> {"nothing", "saved", "filed"}]
  BY DEF FilingInv, Returns!TypeOK
<1>4. fPortal' \in [Returns!Returns -> {"nothing", "saved", "filed"}] /\ fPortal'[Returns!T(p)] = "filed"
  BY <1>1, <1>2, <1>3
<1>5. PortalKept
  BY <1>1, <1>2, <1>3 DEF PortalKept, Returns!FiledThere
<1>6. Returns!FiledThere("gstr3b") => Returns!FiledThere("gstr1")
  BY DEF FilingInv, Returns!FilingIsSound, Returns!FiledInOrder
<1>7. Returns!FiledThere("gstr3b")' => Returns!FiledThere("gstr1")'
  BY <1>1, <1>2, <1>3, <1>6 DEF Returns!FiledThere, Returns!Returns
<1> QED BY <1>4, <1>5, <1>7

(* What goes on with one more claim to make, after the portal filed or not. *)
LEMMA GoesAfterFiling ==
  ASSUME FilingBounded, FilingInv, NEW p \in Returns!Procs, NEW op \in {"record", "mark lost"},
  Returns!Goes(p, op), Returns!KeepsRecord,
         fEvents' \in 0 .. MaxEvents, Returns!PortalFiles(p)
  PROVE  FilingInv'
<1>0. op \in Returns!Ops
  BY DEF Returns!Ops
<1>1. PICK new \in Tasks : new = [fTask[p] EXCEPT !.op = op] /\ fTask' = [fTask EXCEPT ![p] = new]
  BY <1>0, LeftAlone DEF FilingInv
<1>2. new.op = op /\ new.t = Returns!T(p) /\ new.lock = fTask[p].lock
  BY <1>1, Held DEF Returns!T, Tasks
<1>3. new.lock >= 1 => fCompany.lock >= 1 \/ fLoosened
  BY <1>2, Held
<1>4. /\ fPortal' \in [Returns!Returns -> {"nothing", "saved", "filed"}] /\ PortalKept
      /\ Returns!FiledThere("gstr3b")' => Returns!FiledThere("gstr1")'
  BY PortalFiled
<1>5. Returns!FiledThere(new.t)'
  BY <1>2, PortalFiled DEF Returns!FiledThere
<1>6. ~(new.op \in {"track", "file"}) /\ ~(new.op = "company")
  BY <1>2
<1> QED BY <1>1, <1>3, <1>4, <1>5, <1>6, Quiet

(* What a filing comes to, up to its record *)
LEMMA Files ==
  ASSUME FilingBounded, FilingInv, NEW p \in Requests,
         Returns!Track(p) \/ Returns!Answered(p) \/ Returns!AnswerLost(p) \/ Returns!Check(p)
             \/ Returns!Refused(p) \/ Returns!Overtaken(p) \/ Returns!PortalAdvances(p)
  PROVE  FilingInv'
<1>1. p \in Returns!Procs /\ fEvents \in 0 .. MaxEvents
  BY DEF Returns!Procs, FilingInv, Returns!TypeOK
<1>2. CASE Returns!Track(p)
  <2>1. Returns!KeepsRecord /\ fPortal' = fPortal /\ fEvents' \in 0 .. MaxEvents /\ Returns!Is(p, "track")
    BY <1>1, <1>2 DEF Returns!Track
  <2>2. Returns!T(p) = "gstr3b" => Returns!FiledThere("gstr1")
    BY <1>1, <2>1, Held DEF Returns!Is
  <2>3. CASE Returns!FiledThere(Returns!T(p))
    BY <1>1, <1>2, <2>1, <2>3, GoesQuietly DEF Returns!Track, Returns!Ops
  <2>4. CASE ~Returns!FiledThere(Returns!T(p))
    BY <1>1, <1>2, <2>1, <2>2, <2>4, GoesQuietly DEF Returns!Track, Returns!Ops
  <2> QED BY <2>3, <2>4
<1>3. CASE Returns!Answered(p)
  BY <1>1, <1>3, GoesAfterFiling DEF Returns!Answered
<1>4. CASE Returns!AnswerLost(p)
  <2>1. Returns!KeepsRecord /\ fEvents' \in 0 .. MaxEvents /\ Returns!Goes(p, "mark lost")
    BY <1>4, OneEvent DEF Returns!AnswerLost, FilingInv
  <2>2. CASE Returns!PortalFiles(p)
    BY <1>1, <2>1, <2>2, GoesAfterFiling
  <2>3. CASE fPortal' = fPortal
    BY <1>1, <2>1, <2>3, GoesQuietly DEF Returns!Ops
  <2> QED BY <1>4, <2>2, <2>3 DEF Returns!AnswerLost
<1>5. CASE Returns!Check(p)
  <2>1. Returns!KeepsRecord /\ fPortal' = fPortal /\ fEvents' \in 0 .. MaxEvents
    BY <1>1, <1>5 DEF Returns!Check
  <2>2. CASE Returns!FiledThere(Returns!T(p))
    BY <1>1, <1>5, <2>1, <2>2, GoesQuietly DEF Returns!Check, Returns!Ops
  <2>3. CASE ~Returns!FiledThere(Returns!T(p))
    BY <1>1, <1>5, <2>1, <2>3, EndsQuietly DEF Returns!Check
  <2> QED BY <2>2, <2>3
<1>6. CASE Returns!Refused(p)
  BY <1>1, <1>6, EndsQuietly DEF Returns!Refused
<1>7. CASE Returns!Overtaken(p)
  BY <1>1, <1>7, EndsQuietly DEF Returns!Overtaken
<1>8. CASE Returns!PortalAdvances(p)
  BY <1>1, <1>8, GoesQuietly DEF Returns!PortalAdvances, Returns!Ops
<1> QED BY <1>2, <1>3, <1>4, <1>5, <1>6, <1>7, <1>8

LEMMA Dies ==
  ASSUME FilingBounded, FilingInv, NEW p \in Returns!Procs, Returns!Fails(p)
  PROVE  FilingInv'
<1>1. fEvents' \in 0 .. MaxEvents
  BY OneEvent DEF Returns!Fails, FilingInv
<1> QED BY <1>1, EndsQuietly DEF Returns!Fails

LEMMA AsksThePortal ==
  ASSUME FilingBounded, FilingInv, NEW w \in Runners, Returns!Recover(w)
  PROVE  FilingInv'
<1>1. w \in Returns!Procs /\ Returns!KeepsRecord /\ fPortal' = fPortal /\ fEvents' \in 0 .. MaxEvents
  BY DEF Returns!Procs, FilingInv, Returns!TypeOK, Returns!Recover
<1>2. CASE ~Returns!FiledThere(Returns!T(w))
  BY <1>1, <1>2, EndsQuietly DEF Returns!Recover
<1>3. CASE Returns!FiledThere(Returns!T(w))
  <2> DEFINE new == [fTask[w] EXCEPT !.op = "record", !.lock = fCompany.lock]
  <2>1. fCompany.lock \in 0 .. 2
    BY DEF FilingInv, Returns!TypeOK
  <2>2. new \in Tasks /\ new.op = "record" /\ new.t = Returns!T(w) /\ new.lock = fCompany.lock
    BY <1>1, <2>1, Held DEF Returns!T, Tasks, Returns!Ops
  <2>3. fTask' = [fTask EXCEPT ![w] = new]
    BY <1>3 DEF Returns!Recover
  <2>4. Returns!FiledThere(new.t)
    BY <1>3, <2>2
  <2>5. ~(new.op \in {"track", "file"}) /\ ~(new.op = "company") /\ (new.lock >= 1 => fCompany.lock >= 1)
    BY <2>2
  <2> HIDE DEF new
  <2> QED BY <1>1, <2>2, <2>3, <2>4, <2>5, QuietPortal
<1> QED BY <1>2, <1>3

LEMMA ByHand ==
  ASSUME FilingBounded, FilingInv, NEW t \in Returns!Returns, Returns!FiledByHand(t)
  PROVE  FilingInv'
<1>1. fPortal \in [Returns!Returns -> {"nothing", "saved", "filed"}] /\ (Returns!FiledThere("gstr3b")
        => Returns!FiledThere("gstr1"))
  BY DEF FilingInv, Returns!TypeOK, Returns!FilingIsSound, Returns!FiledInOrder
<1>2. fPortal' = [fPortal EXCEPT ![t] = "filed"] /\ fTask' = fTask /\ fEvents' = fEvents /\ Returns!KeepsRecord
  BY DEF Returns!FiledByHand
<1>3. fPortal' \in [Returns!Returns -> {"nothing", "saved", "filed"}]
  BY <1>1, <1>2
<1>4. \A u \in Returns!Returns : Returns!FiledThere(u) => Returns!FiledThere(u)'
  BY <1>1, <1>2 DEF Returns!FiledThere
<1>5. Returns!FiledThere("gstr3b")' => Returns!FiledThere("gstr1")'
  BY <1>1, <1>2 DEF Returns!FiledByHand, Returns!FiledThere, Returns!Returns
<1>6. Returns!TypeOK'
  <2>1. fTask' \in [Returns!Procs -> Tasks] /\ fEvents' \in 0 .. MaxEvents
    BY <1>2 DEF FilingInv, Returns!TypeOK, Tasks
  <2> QED BY <1>2, <1>3, <2>1, RecordTyped DEF FilingInv
<1>7. Returns!FilingIsSound'
  BY <1>2, <1>4, <1>5, RecordKept
<1>8. fCompany' = fCompany /\ fLoosened' = fLoosened
  BY <1>2 DEF Returns!KeepsRecord
<1>9. RecordsWhatIsFiled' /\ SavesLeft'
  BY <1>2, <1>4, Held DEF FilingInv, RecordsWhatIsFiled, SavesLeft, Returns!Is, Returns!T
<1>10. Gstr1IsFiled' /\ ClosedAsRead'
  BY <1>2, <1>4, <1>8 DEF FilingInv, Gstr1IsFiled, ClosedAsRead, Returns!T, Returns!Returns
<1> QED BY <1>6, <1>7, <1>9, <1>10 DEF FilingInv

(* A save, set-off or proceed writes what it was told over whatever the row has become. *)
LEMMA WritesOver ==
  ASSUME FilingBounded, FilingInv, NEW p \in Returns!Procs,
  NEW r \in [status : {"saved", "failed", "submitted"}, lost : BOOLEAN],
         Returns!Writes(Returns!T(p), r), Returns!Ends(p), UNCHANGED <<fCompany, fSetOffs, fPortal, fLoosened, fEvents>>
  PROVE  FilingInv'
<1>1. Returns!T(p) \in Returns!Returns
  BY Held
<1>2. fRow \in [Returns!Returns -> [status : Returns!Statuses, lost : BOOLEAN]]
        /\ r \in [status : Returns!Statuses, lost : BOOLEAN] /\ r.status # "filed"
  BY DEF FilingInv, Returns!TypeOK, Returns!Statuses
<1>3. fRow' = [fRow EXCEPT ![Returns!T(p)] = r]
  BY DEF Returns!Writes
<1>4. fRow' \in [Returns!Returns -> [status : Returns!Statuses, lost : BOOLEAN]]
  BY <1>1, <1>2, <1>3
<1>5. fRow'[Returns!T(p)].status # "filed" /\ \A t \in Returns!Returns : t # Returns!T(p) => fRow'[t] = fRow[t]
  BY <1>1, <1>2, <1>3
<1>6. fReopened \subseteq fReopened' /\ fReopened' \subseteq Returns!Returns
  BY <1>1, Zenon DEF Returns!Writes, FilingInv, Returns!TypeOK
<1>7. fRow[Returns!T(p)].status = "filed" => Returns!T(p) \in fReopened'
  BY <1>2 DEF Returns!Writes
<1>8. Returns!TypeOK'
  <2>1. fTask' \in [Returns!Procs -> Tasks]
    BY IdleIsATask, TaskTyped DEF Returns!Ends, FilingInv
  <2>2. fCompany' \in [lock : 0 .. 2, version : 0 .. MaxEdits] /\ fSetOffs' \in 0 .. 2
          /\ fEvents' \in 0 .. MaxEvents
    BY DEF FilingInv, Returns!TypeOK
  <2>3. fPortal' \in [Returns!Returns -> {"nothing", "saved", "filed"}]
    BY DEF FilingInv, Returns!TypeOK
  <2>4. fLoosened' \in BOOLEAN
    BY Zenon DEF FilingInv, Returns!TypeOK
  <2> QED BY <1>4, <1>6, <2>1, <2>2, <2>3, <2>4 DEF Returns!TypeOK, Tasks
<1>9. RecordsWhatIsFiled' /\ Gstr1IsFiled' /\ ClosedAsRead' /\ SavesLeft'
  <2>1. \A t \in Returns!Returns : Returns!FiledThere(t) => Returns!FiledThere(t)'
    BY DEF Returns!FiledThere
  <2>2. fTask' = [fTask EXCEPT ![p] = Returns!Idle] /\ Returns!Idle.t \in Returns!Returns
    BY DEF Returns!Ends, Returns!Idle, Returns!Returns
  <2> QED BY <2>1, <2>2, IdleHolds, TaskKept
<1>10. Returns!FilingIsSound'
  <2>1. Returns!FiledHereIsFiledThere'
    BY <1>5 DEF Returns!FiledHereIsFiledThere, Returns!FiledThere, FilingInv, Returns!FilingIsSound
  <2>2. Returns!FiledInOrder'
    BY DEF Returns!FiledInOrder, Returns!FiledThere, FilingInv, Returns!FilingIsSound
  <2>3. Returns!SetOffIsPostedOnce'
    BY <1>1, <1>5, <1>6, <1>7 DEF Returns!SetOffIsPostedOnce, FilingInv, Returns!FilingIsSound, Returns!Returns
  <2>4. Returns!FiledWithBooksClosed'
    BY <1>1, <1>5 DEF Returns!FiledWithBooksClosed, FilingInv, Returns!FilingIsSound, Returns!Returns
  <2> QED BY <2>1, <2>2, <2>3, <2>4 DEF Returns!FilingIsSound
<1> QED BY <1>8, <1>9, <1>10 DEF FilingInv

LEMMA Written ==
  ASSUME FilingBounded, FilingInv, NEW p \in Requests, Returns!WriteSave(p) \/ Returns!WriteAdvance(p)
  PROVE  FilingInv'
<1>1. p \in Returns!Procs
  BY DEF Returns!Procs
<1>2. CASE Returns!WriteSave(p)
  <2>1. [status |-> fTask[p].status, lost |-> FALSE] \in [status : {"saved", "failed", "submitted"}, lost : BOOLEAN]
    BY <1>1, Held DEF Tasks
  <2> QED BY <1>1, <1>2, <2>1, WritesOver DEF Returns!WriteSave
<1>3. CASE Returns!WriteAdvance(p)
  <2>1. fRow[Returns!T(p)] \in [status : Returns!Statuses, lost : BOOLEAN]
    BY <1>1, Held DEF FilingInv, Returns!TypeOK
  <2>2. [fRow[Returns!T(p)] EXCEPT !.status = "submitted", !.lost = FALSE]
          \in [status : {"saved", "failed", "submitted"}, lost : BOOLEAN]
    BY <2>1
  <2> QED BY <1>1, <1>3, <2>2, WritesOver DEF Returns!WriteAdvance
<1> QED BY <1>2, <1>3

(* A lost answer is noted, which changes no status. *)
LEMMA Noted ==
  ASSUME FilingBounded, FilingInv, NEW p \in Requests, Returns!MarkLost(p)
  PROVE  FilingInv'
<1>1. p \in Returns!Procs /\ Returns!T(p) \in Returns!Returns
  BY Held DEF Returns!Procs
<1>2. fRow \in [Returns!Returns -> [status : Returns!Statuses, lost : BOOLEAN]]
  BY DEF FilingInv, Returns!TypeOK
<1>3. fRow' = [fRow EXCEPT ![Returns!T(p)] = [fRow[Returns!T(p)] EXCEPT !.lost = TRUE]]
  BY DEF Returns!MarkLost
<1>4. fRow' \in [Returns!Returns -> [status : Returns!Statuses, lost : BOOLEAN]]
        /\ \A t \in Returns!Returns : fRow'[t].status = fRow[t].status
  BY <1>1, <1>2, <1>3
<1>5. PICK new \in Tasks : new = [fTask[p] EXCEPT !.op = "check"] /\ fTask' = [fTask EXCEPT ![p] = new]
  BY <1>1, LeftAlone DEF FilingInv, Returns!Ops, Returns!MarkLost
<1>6. new.op = "check" /\ new.t \in Returns!Returns /\ new.lock = fTask[p].lock
  BY <1>1, <1>5, Held DEF Tasks
<1>7. UNCHANGED <<fCompany, fSetOffs, fPortal, fReopened, fLoosened, fEvents>>
  BY DEF Returns!MarkLost
<1>8. Returns!TypeOK'
  <2>1. fTask' \in [Returns!Procs -> Tasks]
    BY <1>1, <1>5, TaskTyped DEF FilingInv
  <2>2. fCompany' \in [lock : 0 .. 2, version : 0 .. MaxEdits] /\ fSetOffs' \in 0 .. 2
          /\ fEvents' \in 0 .. MaxEvents
    BY <1>7 DEF FilingInv, Returns!TypeOK
  <2>3. fPortal' \in [Returns!Returns -> {"nothing", "saved", "filed"}]
    BY <1>7 DEF FilingInv, Returns!TypeOK
  <2>4. fLoosened' \in BOOLEAN /\ fReopened' \subseteq Returns!Returns
    BY <1>7, Zenon DEF FilingInv, Returns!TypeOK
  <2> QED BY <1>4, <2>1, <2>2, <2>3, <2>4 DEF Returns!TypeOK, Tasks
<1>9. RecordsWhatIsFiled' /\ Gstr1IsFiled' /\ ClosedAsRead' /\ SavesLeft'
  <2>1. \A t \in Returns!Returns : Returns!FiledThere(t) => Returns!FiledThere(t)'
    BY <1>7 DEF Returns!FiledThere
  <2>2. ~fLoosened' /\ fCompany.lock >= 1 => fCompany'.lock >= 1
    BY <1>7
  <2>3. ~fLoosened' => ~fLoosened
    BY <1>7
  <2>4. ~fLoosened' /\ new.lock >= 1 => fCompany'.lock >= 1
    BY <1>1, <1>6, <1>7, Held
  <2> QED BY <1>1, <1>5, <1>6, <2>1, <2>2, <2>3, <2>4, TaskKept
<1>10. Returns!FilingIsSound'
  BY <1>4, <1>7 DEF FilingInv, Returns!FilingIsSound, Returns!FiledHereIsFiledThere, Returns!FiledInOrder,
      Returns!SetOffIsPostedOnce, Returns!FiledWithBooksClosed,
                    Returns!FiledThere, Returns!Returns
<1> QED BY <1>8, <1>9, <1>10 DEF FilingInv

(* A company is saved as it was read. *)
LEMMA Saved ==
  ASSUME FilingBounded, FilingInv, NEW p \in Requests, NEW lock \in 0 .. 2, Returns!SaveCompany(p, lock)
  PROVE  FilingInv'
<1>1. p \in Returns!Procs /\ Returns!Is(p, "company") /\ fCompany.version < MaxEdits
  BY DEF Returns!Procs, Returns!SaveCompany, FilingInv, SavesLeft
<1>2. fCompany \in [lock : 0 .. 2, version : 0 .. MaxEdits]
  BY DEF FilingInv, Returns!TypeOK
<1>3. fCompany' = [lock |-> lock, version |-> fCompany.version + 1]
  BY DEF Returns!SaveCompany
<1>4. fCompany' \in [lock : 0 .. 2, version : 0 .. MaxEdits] /\ fCompany'.lock = lock
  BY <1>1, <1>2, <1>3 DEF FilingBounded
<1>5. fLoosened' = (fLoosened \/ lock < fCompany.lock)
  BY DEF Returns!SaveCompany
<1>12. ~fLoosened' => ~fLoosened /\ ~(lock < fCompany.lock)
  BY <1>5, Zenon
<1>6. ~fLoosened' => ~fLoosened /\ lock >= fCompany.lock
  BY <1>2, <1>12
<1>7. UNCHANGED <<fRow, fSetOffs, fPortal, fReopened, fEvents>> /\ fTask' = [fTask EXCEPT ![p] = Returns!Idle]
  BY DEF Returns!SaveCompany, Returns!Ends
<1>8. Returns!TypeOK'
  <2>1. fTask' \in [Returns!Procs -> Tasks]
    BY <1>1, <1>7, IdleIsATask, TaskTyped DEF FilingInv
  <2>2. fSetOffs' \in 0 .. 2 /\ fEvents' \in 0 .. MaxEvents
    BY <1>7 DEF FilingInv, Returns!TypeOK
  <2>3. fPortal' \in [Returns!Returns -> {"nothing", "saved", "filed"}]
          /\ fRow' \in [Returns!Returns -> [status : Returns!Statuses, lost : BOOLEAN]]
    BY <1>7 DEF FilingInv, Returns!TypeOK
  <2>4. fReopened' \subseteq Returns!Returns
    BY <1>7, Zenon DEF FilingInv, Returns!TypeOK
  <2>5. fLoosened' \in BOOLEAN
    BY <1>5, Zenon
  <2> QED BY <1>4, <2>1, <2>2, <2>3, <2>4, <2>5 DEF Returns!TypeOK, Tasks
<1>9. ~fLoosened' /\ fCompany.lock >= 1 => fCompany'.lock >= 1
  BY <1>2, <1>4, <1>6
<1>10. RecordsWhatIsFiled' /\ Gstr1IsFiled' /\ ClosedAsRead' /\ SavesLeft'
  <2>1. \A t \in Returns!Returns : Returns!FiledThere(t) => Returns!FiledThere(t)'
    BY <1>7 DEF Returns!FiledThere
  <2>2. ~fLoosened' => ~fLoosened
    BY <1>6
  <2>3. Returns!Idle.t \in Returns!Returns
    BY DEF Returns!Idle, Returns!Returns
  <2> QED BY <1>1, <1>7, <1>9, <2>1, <2>2, <2>3, IdleHolds, TaskKept
<1>11. Returns!FilingIsSound'
  <2>1. Returns!FiledWithBooksClosed'
    BY <1>6, <1>7, <1>9 DEF Returns!FiledWithBooksClosed, FilingInv, Returns!FilingIsSound
  <2> QED BY <1>7, <2>1 DEF FilingInv, Returns!FilingIsSound, Returns!FiledHereIsFiledThere,
      Returns!FiledInOrder, Returns!SetOffIsPostedOnce, Returns!FiledThere
<1> QED BY <1>8, <1>10, <1>11 DEF FilingInv

(* The first to learn of a filing records it, closes the month and posts the set-off. *)
LEMMA Recorded ==
  ASSUME FilingBounded, FilingInv, NEW p \in Returns!Procs, Returns!RecordFiled(p)
  PROVE  FilingInv'
<1>1. CASE fRow[Returns!T(p)].status = "filed"
  <2>1. Returns!KeepsRecord /\ fPortal' = fPortal /\ fEvents' \in 0 .. MaxEvents /\ Returns!Ends(p)
    BY <1>1 DEF Returns!RecordFiled, FilingInv, Returns!TypeOK
  <2> QED BY <2>1, EndsQuietly
<1>2. CASE fRow[Returns!T(p)].status # "filed"
  <2>1. Returns!RecordAgain(p) /\ Returns!T(p) \in Returns!Returns /\ Returns!FiledThere(Returns!T(p))
          /\ fTask[p].lock \in 0 .. 2
    BY <1>2, Held DEF Returns!RecordFiled, Returns!RecordAgain, Returns!Is, Tasks
  <2>2. /\ fRow \in [Returns!Returns -> [status : Returns!Statuses, lost : BOOLEAN]]
             /\ fCompany \in [lock : 0 .. 2, version : 0 .. MaxEdits]
        /\ fSetOffs \in 0 .. 2
    BY DEF FilingInv, Returns!TypeOK
  <2>3. fRow' = [fRow EXCEPT ![Returns!T(p)] = [fRow[Returns!T(p)] EXCEPT !.status = "filed", !.lost = FALSE]]
    BY <2>1 DEF Returns!RecordAgain
  <2>4. fRow' \in [Returns!Returns -> [status : Returns!Statuses, lost : BOOLEAN]]
    BY <2>1, <2>2, <2>3 DEF Returns!Statuses
  <2>5. fRow'[Returns!T(p)].status = "filed" /\ \A t \in Returns!Returns : t # Returns!T(p)
          => fRow'[t] = fRow[t]
    BY <2>1, <2>2, <2>3
  <2>6. UNCHANGED <<fPortal, fReopened, fLoosened, fEvents>> /\ fTask' = [fTask EXCEPT ![p] = Returns!Idle]
    BY <2>1 DEF Returns!RecordAgain, Returns!Ends
  <2>7. fCompany' \in [lock : 0 .. 2, version : 0 .. MaxEdits] /\ (fCompany.lock >= 1 => fCompany'.lock >= 1)
    BY <2>1, <2>2 DEF Returns!RecordAgain
  <2>8. Returns!T(p) = "gstr3b" => fSetOffs' \in 0 .. 2 /\ fSetOffs' >= 1 /\ (fSetOffs = 0 => fSetOffs' = 1)
    BY <2>1, <2>2 DEF Returns!RecordAgain
  <2>9. Returns!T(p) # "gstr3b" => fSetOffs' = fSetOffs
    BY <2>1 DEF Returns!RecordAgain
  <2>10. Returns!T(p) = "gstr3b" /\ ~fLoosened => fCompany'.lock >= 1
    <3>1. fTask[p].lock >= 1 /\ ~fLoosened => fCompany.lock >= 1
      BY Held
    <3>2. Returns!T(p) = "gstr3b" /\ fTask[p].lock < 1 => fCompany'.lock = 1
      BY <2>1, <2>2 DEF Returns!RecordAgain
    <3>3. fTask[p].lock < 1 \/ fTask[p].lock >= 1
      BY <2>1
    <3> QED BY <2>7, <3>1, <3>2, <3>3
  <2>11. Returns!TypeOK'
    <3>1. fTask' \in [Returns!Procs -> Tasks]
      BY <2>6, IdleIsATask, TaskTyped DEF FilingInv
    <3>2. fSetOffs' \in 0 .. 2 /\ fEvents' \in 0 .. MaxEvents
      BY <2>2, <2>6, <2>8, <2>9 DEF FilingInv, Returns!TypeOK
    <3>3. fPortal' \in [Returns!Returns -> {"nothing", "saved", "filed"}]
      BY <2>6 DEF FilingInv, Returns!TypeOK
    <3>4. fLoosened' \in BOOLEAN /\ fReopened' \subseteq Returns!Returns
      BY <2>6, Zenon DEF FilingInv, Returns!TypeOK
    <3> QED BY <2>4, <2>7, <3>1, <3>2, <3>3, <3>4 DEF Returns!TypeOK, Tasks
  <2>12. RecordsWhatIsFiled' /\ Gstr1IsFiled' /\ ClosedAsRead' /\ SavesLeft'
    <3>1. \A t \in Returns!Returns : Returns!FiledThere(t) => Returns!FiledThere(t)'
      BY <2>6 DEF Returns!FiledThere
    <3>2. ~fLoosened' => ~fLoosened
      BY <2>6
    <3>3. Returns!Idle.t \in Returns!Returns
      BY DEF Returns!Idle, Returns!Returns
    <3> QED BY <2>6, <2>7, <3>1, <3>2, <3>3, IdleHolds, TaskKept
  <2>13. Returns!FiledHereIsFiledThere' /\ Returns!FiledInOrder'
    BY <2>1, <2>5, <2>6 DEF Returns!FiledHereIsFiledThere, Returns!FiledInOrder, Returns!FiledThere, FilingInv,
        Returns!FilingIsSound
  <2>14. Returns!SetOffIsPostedOnce'
    BY <1>2, <2>1, <2>2, <2>5, <2>6, <2>8, <2>9 DEF Returns!SetOffIsPostedOnce, FilingInv,
        Returns!FilingIsSound, Returns!Returns
  <2>15. Returns!FiledWithBooksClosed'
    BY <2>1, <2>5, <2>6, <2>7, <2>10 DEF Returns!FiledWithBooksClosed, FilingInv, Returns!FilingIsSound,
        Returns!Returns
  <2> QED BY <2>11, <2>12, <2>13, <2>14, <2>15 DEF FilingInv, Returns!FilingIsSound
<1> QED BY <1>1, <1>2

LEMMA FilingKept == ASSUME FilingBounded, FilingInv, [Returns!Next]_Returns!vars PROVE FilingInv'
<1>1. CASE \E t \in Returns!Returns : Returns!FiledByHand(t) \/ \E w \in Runners : Returns!StartRecover(w, t)
  BY <1>1, ByHand, Recovers
<1>2. CASE \E p \in Requests, t \in Returns!Returns : Returns!SaveGstReturn(p, t) \/ Returns!Advance(p, t)
        \/ Returns!FileGstReturn(p, t)
  BY <1>2, Asks
<1>3. ASSUME NEW p \in Requests, NEW status \in {"saved", "failed"}, Returns!PortalSaves(p, status)
      PROVE FilingInv'
  BY <1>3, Saves
<1>4. ASSUME NEW p \in Requests, NEW lock \in 0 .. 2, Returns!SaveCompany(p, lock) PROVE FilingInv'
  BY <1>4, Saved
<1>5. ASSUME NEW p \in Requests,
             \/ Returns!WriteSave(p) \/ Returns!PortalAdvances(p) \/ Returns!WriteAdvance(p)
                  \/ Returns!Unanswered(p) \/ Returns!Refused(p)
             \/ Returns!Track(p) \/ Returns!Answered(p) \/ Returns!AnswerLost(p) \/ Returns!MarkLost(p)
                  \/ Returns!Check(p)
             \/ Returns!ReadCompany(p) \/ Returns!Overtaken(p)
      PROVE  FilingInv'
  BY <1>5, Written, GoesUnanswered, Files, Noted, Reads
<1>6. CASE \E w \in Runners : Returns!Recover(w)
  BY <1>6, AsksThePortal
<1>7. CASE \E p \in Returns!Procs : Returns!RecordFiled(p) \/ Returns!Fails(p)
  BY <1>7, Recorded, Dies
<1>8. CASE UNCHANGED Returns!vars
  <2>1. /\ fRow' = fRow /\ fCompany' = fCompany /\ fSetOffs' = fSetOffs /\ fPortal' = fPortal /\ fTask' = fTask
        /\ fReopened' = fReopened /\ fLoosened' = fLoosened /\ fEvents' = fEvents
    BY <1>8 DEF Returns!vars
  <2>2. Returns!TypeOK'
    BY <2>1, Zenon DEF FilingInv, Returns!TypeOK
  <2>3. Returns!FilingIsSound'
    BY <2>1 DEF FilingInv, Returns!FilingIsSound, Returns!FiledHereIsFiledThere, Returns!FiledInOrder,
        Returns!SetOffIsPostedOnce, Returns!FiledWithBooksClosed, Returns!FiledThere
  <2>4. RecordsWhatIsFiled' /\ Gstr1IsFiled' /\ ClosedAsRead' /\ SavesLeft'
    BY <2>1 DEF FilingInv, RecordsWhatIsFiled, Gstr1IsFiled, ClosedAsRead, SavesLeft, Returns!Is, Returns!T,
        Returns!FiledThere
  <2> QED BY <2>2, <2>3, <2>4 DEF FilingInv
<1> QED BY <1>1, <1>2, <1>3, <1>4, <1>5, <1>6, <1>7, <1>8 DEF Returns!Next

LEMMA FilingAlways == AllSpec => []FilingInv
<1>1. AllInit => FilingInv
  BY PartsAssumption, FilingStarts DEF AllInit, FilingBounded
<1>2. FilingInv /\ [AllNext]_<<focus, idem, jobs, gst, billing, online, filing>> => FilingInv'
  <2>1. [AllNext]_<<focus, idem, jobs, gst, billing, online, filing>> => [Returns!Next]_Returns!vars
    BY DEF AllNext, filing, Returns!vars
  <2> QED BY PartsAssumption, <2>1, FilingKept DEF FilingBounded
<1> QED BY <1>1, <1>2, PTL DEF AllSpec

(* What is on record as filed is filed, in order, with its set-off posted once and the books closed, for *)
(* any requests, runs of the job and bounds, whichever answers are lost (fileGstReturn, recordFiled,     *)
(* recoverLostFilings).                                                                                  *)
THEOREM FiledReturnsAreSound == AllSpec => []FilingIsSound
<1>1. FilingInv => FilingIsSound
  BY DEF FilingInv, FilingIsSound
<1> QED BY <1>1, FilingAlways, PTL

-----------------------------------------------------------------------------
(* Payments through links *)

OnlineBounded == Total \in Nat /\ MaxEvents \in Nat

Link == [amount : 1 .. Total, status : {"active", "paid", "cancelled"}]
GatewayRefund == [link : DOMAIN pLinks, amount : 1 .. Total]
OnBooks == {Online!NoPayment} \cup Online!Payments
HandlesOne(p) == pTask[p].op = "webhook"
HandlesEvent(p, e) == pTask[p].op = "webhook" /\ pTask[p].event = e

(* What a delivery works on was sent and is not on record yet, and no other works on it. *)
UnderWay ==
  \A p \in Deliveries :
    IF pTask[p].op = "webhook" THEN pTask[p].event \in Online!Sent /\ pTask[p].event \notin pSeen
    ELSE pTask[p].event = <<"none", 0>>
HandledOnce == \A p, q \in Deliveries : HandlesOne(p) /\ HandlesOne(q) /\ pTask[p].event = pTask[q].event
    => p = q
(* A payment is given no more than was paid. *)
NeedsNoMore == \A p \in Deliveries : \A n \in DOMAIN pLinks : HandlesEvent(p, Online!Paid(n))
    => pTask[p].amount <= pLinks[n].amount
(* A refund that has found its payment is the only one at it, and finds it as it was. *)
Found(p, i) == HandlesEvent(p, Online!Refunded(i)) /\ pTask[p].amount > 0
FoundIsThere == \A p \in Deliveries : \A i \in DOMAIN pRefunds : Found(p, i)
    => pPayment[pRefunds[i].link].amount > 0
FoundByOne ==
  \A p, q \in Deliveries : \A i, j \in DOMAIN pRefunds :
    Found(p, i) /\ Found(q, j) /\ pRefunds[i].link = pRefunds[j].link => p = q
(* Nothing is on the books of what was not heard of, and its refunds are missing. *)
NotHeardOf(n) == pPayment[n] = Online!NoPayment /\ \A i \in DOMAIN pRefunds : pRefunds[i].link = n
    /\ Online!Refunded(i) \in pSeen => i \in pLost
NotYetOnBooks == \A n \in DOMAIN pLinks : Online!Paid(n) \notin pSeen => NotHeardOf(n)
(* The gateway gives back no more than it got. *)
RefundsFit == \A n \in DOMAIN pLinks : Online!RefundedOf(n, DOMAIN pRefunds) <= pLinks[n].amount

(* A link is asked for something. *)
MintsSome == \A p \in LinkRequests : pTask[p].op = "mint" => pTask[p].amount > 0

(* A refund that found no payment was handled. *)
LostWasHandled == \A i \in pLost : Online!Refunded(i) \in pSeen

Taking == MintsSome /\ UnderWay /\ HandledOnce /\ NeedsNoMore /\ FoundIsThere /\ FoundByOne
Booked == Online!InvoiceNotOverpaid /\ Online!BooksFollowGateway /\ NotYetOnBooks /\ RefundsFit
    /\ LostWasHandled
OnlineInv == Online!TypeOK /\ Taking /\ Booked

-----------------------------------------------------------------------------

(* The model's sums are those the lemmas are about. *)
LEMMA OnlineSum == \A f, S : Online!SumFunctionOnSet(f, S) = SumFunctionOnSet(f, S)
BY DEF Online!SumFunctionOnSet, Online!FoldFunctionOnSet, Online!MapThenFoldSet, SumFunctionOnSet, FoldFunctionOnSet,
    MapThenFoldSet

LEMMA OnlineShape ==
  ASSUME OnlineBounded, Online!TypeOK
  PROVE  /\ DOMAIN pLinks = 1 .. Len(pLinks) /\ Len(pLinks) \in Nat
         /\ DOMAIN pPayment = DOMAIN pLinks
         /\ DOMAIN pRefunds = 1 .. Len(pRefunds) /\ Len(pRefunds) \in Nat
         /\ \A n \in DOMAIN pLinks : pLinks[n] \in Link /\ pPayment[n] \in OnBooks
         /\ \A i \in DOMAIN pRefunds : pRefunds[i].link \in DOMAIN pLinks /\ pRefunds[i].amount \in 1 .. Total
         /\ pPayment \in Seq(OnBooks) /\ Len(pPayment) = Len(pLinks)
<1>1. pLinks \in Seq(Link) /\ pRefunds \in Seq(GatewayRefund)
  BY DEF Online!TypeOK, Link, GatewayRefund
<1>2. pPayment \in [1 .. Len(pLinks) -> OnBooks]
  BY <1>1 DEF Online!TypeOK, OnBooks
<1>3. pPayment \in Seq(OnBooks) /\ Len(pPayment) = Len(pLinks)
  BY <1>1, <1>2
<1>4. \A i \in DOMAIN pRefunds : pRefunds[i] \in GatewayRefund
  BY <1>1
<1> QED BY <1>1, <1>2, <1>3, <1>4 DEF GatewayRefund

LEMMA EventsDiffer ==
  /\ \A n, m : Online!Paid(n) = Online!Paid(m) => n = m
  /\ \A n, m : Online!Refunded(n) = Online!Refunded(m) => n = m
  /\ \A n, m : Online!Paid(n) # Online!Refunded(m)
  /\ \A n : Online!Paid(n) # <<"none", 0>> /\ Online!Refunded(n) # <<"none", 0>>
  /\ \A n : Online!Paid(n)[1] = "paid" /\ Online!Paid(n)[2] = n /\ Online!Refunded(n)[1] = "refunded"
       /\ Online!Refunded(n)[2] = n
BY DEF Online!Paid, Online!Refunded

LEMMA EventSent ==
  ASSUME NEW e \in Online!Sent
  PROVE  \/ e[1] = "paid" /\ \E n \in pCollected : e = Online!Paid(n) /\ e[2] = n
         \/ e[1] = "refunded" /\ \E i \in DOMAIN pRefunds : e = Online!Refunded(i) /\ e[2] = i
BY EventsDiffer DEF Online!Sent

LEMMA EventsInSent ==
  /\ \A n : Online!Paid(n) \in Online!Sent <=> n \in pCollected
  /\ \A i : Online!Refunded(i) \in Online!Sent <=> i \in DOMAIN pRefunds
BY EventsDiffer DEF Online!Sent

LEMMA AllocSums ==
  ASSUME OnlineBounded, Online!TypeOK
  PROVE  /\ [n \in DOMAIN pPayment |-> pPayment[n].alloc] \in [DOMAIN pPayment -> Int]
         /\ \A n \in DOMAIN pPayment : pPayment[n].alloc \in Nat /\ pPayment[n].amount \in Nat
                                      /\ pPayment[n].alloc <= pPayment[n].amount
         /\ IsFiniteSet(DOMAIN pPayment)
         /\ Online!AmountPaid \in Nat
<1>1. \A n \in DOMAIN pPayment : pPayment[n].alloc \in Nat /\ pPayment[n].amount \in Nat
        /\ pPayment[n].alloc <= pPayment[n].amount
  BY OnlineShape DEF OnBooks, Online!NoPayment, Online!Payments, OnlineBounded
<1>2. IsFiniteSet(DOMAIN pPayment)
  BY OnlineShape, FS_Interval
<1> DEFINE f == [n \in DOMAIN pPayment |-> pPayment[n].alloc]
<1>3. f \in [DOMAIN pPayment -> Int] /\ \A n \in DOMAIN pPayment : f[n] >= 0
  BY <1>1
<1>4. SumFunctionOnSet(f, DOMAIN pPayment) \in Int /\ SumFunctionOnSet(f, DOMAIN pPayment) >= 0
  <2> HIDE DEF f
  <2>1. SumFunctionOnSet(f, DOMAIN pPayment) \in Int
    BY <1>2, <1>3, SumIsInt
  <2>2. SumFunctionOnSet(f, DOMAIN pPayment) >= 0
    BY <1>2, <1>3, SumIsNat
  <2> QED BY <2>1, <2>2
<1> QED BY <1>1, <1>2, <1>3, <1>4, OnlineSum DEF Online!AmountPaid

(* One payment is changed: what the invoice was paid changes by as much. *)
LEMMA PaidChanges ==
  ASSUME OnlineBounded, Online!TypeOK, Online!TypeOK', NEW n \in DOMAIN pPayment, NEW pay,
         pPayment' = [pPayment EXCEPT ![n] = pay]
  PROVE  Online!AmountPaid' = Online!AmountPaid - pPayment[n].alloc + pay.alloc
<1> DEFINE f == [m \in DOMAIN pPayment |-> pPayment[m].alloc]
           g == [m \in DOMAIN pPayment' |-> pPayment'[m].alloc]
           D == DOMAIN pPayment
<1>1. DOMAIN pPayment' = D /\ pPayment'[n] = pay
  OBVIOUS
<1>2. f \in [D -> Int] /\ IsFiniteSet(D)
  BY AllocSums
<1>3. g \in [D -> Int]
  <2>1. \A m \in D : pPayment'[m].alloc \in Int
    <3>1. \A m \in DOMAIN pLinks' : pPayment'[m] \in OnBooks
      BY DEF Online!TypeOK, OnBooks
    <3>2. D = DOMAIN pLinks'
      BY <1>1 DEF Online!TypeOK
    <3> QED BY <3>1, <3>2 DEF OnBooks, Online!NoPayment, Online!Payments, OnlineBounded
  <2> QED BY <1>1, <2>1
<1>4. \A m \in D \ {n} : f[m] = g[m]
  BY <1>1
<1>5. f[n] = pPayment[n].alloc /\ g[n] = pay.alloc
  BY <1>1
<1>6. Online!AmountPaid = SumFunctionOnSet(f, D) /\ Online!AmountPaid' = SumFunctionOnSet(g, D)
  BY <1>1, OnlineSum DEF Online!AmountPaid
<1>7. D \in SUBSET D /\ n \in D
  OBVIOUS
<1> HIDE DEF f, g, D
<1>8. SumFunctionOnSet(g, D) = SumFunctionOnSet(f, D) - f[n] + g[n]
  BY <1>2, <1>3, <1>4, <1>7, SumWithChanged
<1> QED BY <1>5, <1>6, <1>8

(* A link that is made is paid nothing yet. *)
LEMMA PaidStays ==
  ASSUME OnlineBounded, Online!TypeOK, pPayment' = Append(pPayment, Online!NoPayment)
  PROVE  Online!AmountPaid' = Online!AmountPaid
<1> DEFINE N == Len(pPayment)
           D == 1 .. N
           E == 1 .. N + 1
           f == [m \in DOMAIN pPayment |-> pPayment[m].alloc]
           g == [m \in DOMAIN pPayment' |-> pPayment'[m].alloc]
<1>1. pPayment \in Seq(OnBooks) /\ N \in Nat /\ Online!NoPayment \in OnBooks
  BY OnlineShape DEF OnBooks
<1>2. DOMAIN pPayment' = E /\ DOMAIN pPayment = D /\ pPayment'[N + 1] = Online!NoPayment
        /\ \A m \in D : pPayment'[m] = pPayment[m]
  BY <1>1
<1>3. f \in [D -> Int] /\ IsFiniteSet(D)
  BY <1>2, AllocSums
<1>4. g \in [E -> Int]
  <2>1. \A m \in E : pPayment'[m].alloc \in Int
    <3>1. \A m \in D : pPayment[m].alloc \in Int
      BY <1>2, AllocSums
    <3> QED BY <1>1, <1>2, <3>1 DEF Online!NoPayment
  <2> QED BY <1>2, <2>1
<1>5. /\ D \in SUBSET E /\ D \subseteq D /\ N + 1 \in E /\ N + 1 \notin D /\ E = D \cup {N + 1}
      /\ g[N + 1] = 0 /\ \A m \in D : g[m] = f[m]
  BY <1>1, <1>2 DEF Online!NoPayment
<1>6. Online!AmountPaid = SumFunctionOnSet(f, D) /\ Online!AmountPaid' = SumFunctionOnSet(g, E)
  BY <1>2, OnlineSum DEF Online!AmountPaid
<1> HIDE DEF f, g, D, E, N
<1>7. SumFunctionOnSet(g, D \cup {N + 1}) = g[N + 1] + SumFunctionOnSet(g, D)
  BY <1>3, <1>4, <1>5, SumWithAdded
<1>8. SumFunctionOnSet(g, D) = SumFunctionOnSet(f, D)
  BY <1>3, <1>4, <1>5, SumAgrees
<1>9. SumFunctionOnSet(f, D) \in Int
  BY <1>3, SumIsInt
<1> QED BY <1>5, <1>6, <1>7, <1>8, <1>9

(* What the gateway gave back of a payment. *)
LEMMA RefundSums ==
  ASSUME OnlineBounded, Online!TypeOK, NEW n, NEW W \in SUBSET DOMAIN pRefunds
  PROVE  /\ [i \in DOMAIN pRefunds |-> pRefunds[i].amount] \in [DOMAIN pRefunds -> Int]
         /\ {i \in W : pRefunds[i].link = n} \in SUBSET DOMAIN pRefunds
         /\ IsFiniteSet({i \in W : pRefunds[i].link = n})
         /\ \A i \in DOMAIN pRefunds : pRefunds[i].amount \in Nat /\ pRefunds[i].amount > 0
         /\ Online!RefundedOf(n, W) \in Int
<1> DEFINE f == [i \in DOMAIN pRefunds |-> pRefunds[i].amount]
           S == {i \in W : pRefunds[i].link = n}
<1>1. \A i \in DOMAIN pRefunds : pRefunds[i].amount \in Nat /\ pRefunds[i].amount > 0
  BY OnlineShape DEF OnlineBounded
<1>2. f \in [DOMAIN pRefunds -> Int] /\ S \in SUBSET DOMAIN pRefunds
  BY <1>1
<1>3. IsFiniteSet(S)
  <2>1. IsFiniteSet(DOMAIN pRefunds)
    BY OnlineShape, FS_Interval
  <2> HIDE DEF S
  <2> QED BY <1>2, <2>1, FS_Subset
<1>4. Online!RefundedOf(n, W) = SumFunctionOnSet(f, S)
  BY OnlineSum DEF Online!RefundedOf
<1>5. SumFunctionOnSet(f, S) \in Int
  <2> HIDE DEF f, S
  <2> QED BY <1>2, <1>3, SumIsInt
<1> QED BY <1>1, <1>2, <1>3, <1>4, <1>5

(* A refund that is made changes what was given back of its own payment, and nothing else. *)
LEMMA RefundMade ==
  ASSUME OnlineBounded, Online!TypeOK, Online!TypeOK', NEW n \in DOMAIN pLinks, NEW amount \in 1 .. Total,
         pRefunds' = Append(pRefunds, [link |-> n, amount |-> amount])
  PROVE  /\ DOMAIN pRefunds' = DOMAIN pRefunds \cup {Len(pRefunds) + 1}
              /\ Len(pRefunds) + 1 \notin DOMAIN pRefunds
         /\ pRefunds'[Len(pRefunds) + 1] = [link |-> n, amount |-> amount]
         /\ \A i \in DOMAIN pRefunds : pRefunds'[i] = pRefunds[i]
         /\ \A m, W : W \subseteq DOMAIN pRefunds => Online!RefundedOf(m, W)' = Online!RefundedOf(m, W)
         /\ \A m : Online!RefundedOf(m, DOMAIN pRefunds)'
                     = Online!RefundedOf(m, DOMAIN pRefunds) + (IF m = n THEN amount ELSE 0)
<1> DEFINE N == Len(pRefunds)
           f == [i \in DOMAIN pRefunds |-> pRefunds[i].amount]
           g == [i \in DOMAIN pRefunds' |-> pRefunds'[i].amount]
           Of(m, W) == {i \in W : pRefunds[i].link = m}
           Of2(m, W) == {i \in W : pRefunds'[i].link = m}
<1>1. pRefunds \in Seq(GatewayRefund) /\ [link |-> n, amount |-> amount] \in GatewayRefund
  BY DEF Online!TypeOK, GatewayRefund
<1>2. /\ DOMAIN pRefunds' = DOMAIN pRefunds \cup {N + 1} /\ N + 1 \notin DOMAIN pRefunds
      /\ pRefunds'[N + 1] = [link |-> n, amount |-> amount]
      /\ \A i \in DOMAIN pRefunds : pRefunds'[i] = pRefunds[i]
  BY <1>1
<1>3. f \in [DOMAIN pRefunds -> Int]
  BY RefundSums
<1>4. g \in [DOMAIN pRefunds' -> Int]
  <2>1. \A i \in DOMAIN pRefunds : pRefunds[i].amount \in Int
    BY RefundSums
  <2>2. amount \in Int
    BY DEF OnlineBounded
  <2>3. \A i \in DOMAIN pRefunds' : pRefunds'[i].amount \in Int
    BY <1>2, <2>1, <2>2
  <2> QED BY <2>3
<1>5. \A i \in DOMAIN pRefunds : f[i] = g[i]
  BY <1>2
<1>6. ASSUME NEW m, NEW W \in SUBSET DOMAIN pRefunds
      PROVE  /\ Of2(m, W) = Of(m, W) /\ Online!RefundedOf(m, W)' = Online!RefundedOf(m, W)
             /\ Online!RefundedOf(m, W) = SumFunctionOnSet(g, Of(m, W)) /\ Online!RefundedOf(m, W) \in Int
             /\ Of(m, W) \in SUBSET DOMAIN pRefunds /\ IsFiniteSet(Of(m, W))
  <2>1. Of2(m, W) = Of(m, W)
    BY <1>2
  <2>2. IsFiniteSet(Of(m, W)) /\ Of(m, W) \in SUBSET DOMAIN pRefunds /\ Online!RefundedOf(m, W) \in Int
    BY RefundSums
  <2>3. Of(m, W) \subseteq DOMAIN pRefunds'
    BY <1>2, <2>2
  <2>4. Online!RefundedOf(m, W) = SumFunctionOnSet(f, Of(m, W))
          /\ Online!RefundedOf(m, W)' = SumFunctionOnSet(g, Of2(m, W))
    BY OnlineSum DEF Online!RefundedOf
  <2>5. SumFunctionOnSet(f, Of(m, W)) = SumFunctionOnSet(g, Of(m, W))
    <3> HIDE DEF f, g, Of
    <3> QED BY SMTT(30), <1>3, <1>4, <1>5, <2>2, <2>3, SumAgrees
  <2> HIDE DEF f, g, Of, Of2
  <2> QED BY <2>1, <2>2, <2>4, <2>5
<1>7. ASSUME NEW m
      PROVE  Online!RefundedOf(m, DOMAIN pRefunds)' = Online!RefundedOf(m, DOMAIN pRefunds) + (IF m = n
               THEN amount ELSE 0)
  <2> DEFINE D == DOMAIN pRefunds
             S == Of(m, D)
  <2>0. /\ S \in SUBSET D /\ IsFiniteSet(S)
        /\ Online!RefundedOf(m, DOMAIN pRefunds) = SumFunctionOnSet(g, S)
             /\ Online!RefundedOf(m, DOMAIN pRefunds) \in Int
    BY <1>6
  <2>1. Online!RefundedOf(m, DOMAIN pRefunds)' = SumFunctionOnSet(g, Of2(m, DOMAIN pRefunds'))
    BY OnlineSum DEF Online!RefundedOf
  <2>2. CASE m # n
    <3>1. Of2(m, DOMAIN pRefunds') = S
      BY <1>2, <2>2
    <3> HIDE DEF g, S, Of2
    <3> QED BY <2>0, <2>1, <2>2, <3>1
  <2>3. CASE m = n
    <3>1. Of2(m, DOMAIN pRefunds') = S \cup {N + 1}
      BY <1>2, <2>3
    <3>2. S \in SUBSET (DOMAIN pRefunds') /\ N + 1 \in DOMAIN pRefunds' /\ N + 1 \notin S /\ g[N + 1] = amount
      BY <1>2, <2>0
    <3>3. SumFunctionOnSet(g, S \cup {N + 1}) = g[N + 1] + SumFunctionOnSet(g, S)
      <4> DEFINE E == DOMAIN pRefunds'
      <4>1. g \in [E -> Int] /\ S \in SUBSET E /\ N + 1 \in E /\ N + 1 \notin S /\ IsFiniteSet(S)
        BY <1>4, <2>0, <3>2
      <4> HIDE DEF g, S, E, N
      <4> QED BY <4>1, SumWithAdded
    <3>4. amount \in Int
      BY DEF OnlineBounded
    <3> HIDE DEF g, S, Of2
    <3>5. SumFunctionOnSet(g, Of2(m, DOMAIN pRefunds')) = SumFunctionOnSet(g, S \cup {N + 1})
      BY <3>1
    <3>6. Online!RefundedOf(m, DOMAIN pRefunds)' = g[N + 1] + SumFunctionOnSet(g, S) /\ g[N + 1] = amount
      BY <2>1, <3>2, <3>3, <3>5
    <3>7. Online!RefundedOf(m, DOMAIN pRefunds)' = Online!RefundedOf(m, DOMAIN pRefunds) + amount
      BY <2>0, <3>4, <3>6
    <3> QED BY <2>3, <3>7
  <2> QED BY <2>2, <2>3
<1> QED BY <1>2, <1>6, <1>7

(* Of a payment no more was given back than the gateway made refunds for. *)
LEMMA RefundsLeft ==
  ASSUME OnlineBounded, Online!TypeOK, NEW W \in SUBSET DOMAIN pRefunds, NEW i \in DOMAIN pRefunds, i \notin W
  PROVE  /\ Online!RefundedOf(pRefunds[i].link, W \cup {i})
               = Online!RefundedOf(pRefunds[i].link, W) + pRefunds[i].amount
         /\ \A m : m # pRefunds[i].link => Online!RefundedOf(m, W \cup {i}) = Online!RefundedOf(m, W)
         /\ Online!RefundedOf(pRefunds[i].link, W) + pRefunds[i].amount
               <= Online!RefundedOf(pRefunds[i].link, DOMAIN pRefunds)
<1> DEFINE n == pRefunds[i].link
           D == DOMAIN pRefunds
           f == [k \in DOMAIN pRefunds |-> pRefunds[k].amount]
           Of(m, V) == {k \in V : pRefunds[k].link = m}
<1>1. f \in [D -> Int] /\ f[i] = pRefunds[i].amount /\ \A k \in D : f[k] >= 0
  <2>1. \A k \in D : pRefunds[k].amount \in Nat
    BY RefundSums
  <2> QED BY <2>1
<1>2. \A m, V : Online!RefundedOf(m, V) = SumFunctionOnSet(f, Of(m, V))
  BY OnlineSum DEF Online!RefundedOf
<1>3. \A m : \A V \in SUBSET D : Of(m, V) \in SUBSET D /\ IsFiniteSet(Of(m, V))
  BY RefundSums
<1>4. Of(n, W \cup {i}) = Of(n, W) \cup {i} /\ i \notin Of(n, W) /\ i \in D /\ W \cup {i} \in SUBSET D
        /\ W \in SUBSET D
  OBVIOUS
<1>5. \A m : m # n => Of(m, W \cup {i}) = Of(m, W)
  OBVIOUS
<1>6. Of(n, W \cup {i}) \in SUBSET Of(n, D) /\ D \in SUBSET D
  OBVIOUS
<1>8. \A m : m # n => Online!RefundedOf(m, W \cup {i}) = Online!RefundedOf(m, W)
  <2> HIDE DEF Of, n
  <2> QED BY <1>2, <1>5
<1> HIDE DEF f, Of, D
<1>7. SumFunctionOnSet(f, Of(n, W) \cup {i}) = f[i] + SumFunctionOnSet(f, Of(n, W))
  <2> HIDE DEF n
  <2> QED BY <1>1, <1>3, <1>4, SumWithAdded
<1>9. SumFunctionOnSet(f, Of(n, W \cup {i})) <= SumFunctionOnSet(f, Of(n, D))
  <2> HIDE DEF n
  <2>1. \A k \in Of(n, D) : f[k] >= 0
    BY <1>1, <1>3, <1>6
  <2>2. Of(n, D) \in SUBSET D /\ IsFiniteSet(Of(n, D))
    BY <1>3, <1>6
  <2> QED BY <1>1, <1>6, <2>1, <2>2, SumOfFewer
<1>10. SumFunctionOnSet(f, Of(n, W)) \in Int /\ f[i] \in Int
  <2> HIDE DEF n
  <2> QED BY <1>1, <1>3, <1>4, SumIsInt
<1>11. /\ Online!RefundedOf(n, W) = SumFunctionOnSet(f, Of(n, W))
       /\ Online!RefundedOf(n, W \cup {i}) = SumFunctionOnSet(f, Of(n, W \cup {i}))
       /\ Online!RefundedOf(n, D) = SumFunctionOnSet(f, Of(n, D))
  BY <1>2
<1>12. Online!RefundedOf(n, W \cup {i}) = Online!RefundedOf(n, W) + f[i]
         /\ Online!RefundedOf(n, W) + f[i] <= Online!RefundedOf(n, D)
  <2> HIDE DEF n
  <2>1. SumFunctionOnSet(f, Of(n, W \cup {i})) = SumFunctionOnSet(f, Of(n, W) \cup {i})
    BY <1>4
  <2> QED BY <1>7, <1>9, <1>10, <1>11, <2>1
<1> QED BY <1>1, <1>8, <1>12 DEF D

-----------------------------------------------------------------------------
(* Types *)

OnlineProcs == LinkRequests \cup Deliveries
LinkTask(sent) == [op : {"none", "mint", "webhook"}, event : sent \cup {<<"none", 0>>}, amount : 0 .. Total]

LEMMA TaskChanges ==
  ASSUME Online!TypeOK, NEW p \in OnlineProcs, NEW t \in LinkTask(Online!Sent'), Online!Sent \subseteq Online!Sent',
         pTask' = [pTask EXCEPT ![p] = t]
  PROVE  /\ pTask' \in [OnlineProcs -> LinkTask(Online!Sent')]
         /\ pTask'[p] = t /\ \A q \in OnlineProcs : q # p => pTask'[q] = pTask[q]
<1>1. pTask \in [OnlineProcs -> LinkTask(Online!Sent)]
  BY DEF Online!TypeOK, OnlineProcs, LinkTask
<1>2. LinkTask(Online!Sent) \subseteq LinkTask(Online!Sent')
  BY DEF LinkTask
<1> QED BY <1>1, <1>2

LEMMA IdleTask == ASSUME OnlineBounded PROVE \A sent : Online!Idle \in LinkTask(sent)
  BY DEF Online!Idle, LinkTask, OnlineBounded

LEMMA AmountSet ==
  ASSUME NEW amount, NEW t, NEW e, t = [op |-> "mint", event |-> e, amount |-> 0]
  PROVE  [t EXCEPT !.amount = amount]
             = [op |-> "mint", event |-> e, amount |-> amount]
OBVIOUS

LEMMA MintTask ==
  ASSUME NEW amount
  PROVE  [Online!Idle EXCEPT !.op = "mint", !.amount = amount]
             = [op |-> "mint", event |-> <<"none", 0>>, amount |-> amount]
<1> DEFINE t == [Online!Idle EXCEPT !.op = "mint"]
           u == [t EXCEPT !.amount = amount]
           m == [op |-> "mint", event |-> <<"none", 0>>, amount |-> amount]
<1>1. t = [op |-> "mint", event |-> <<"none", 0>>, amount |-> 0]
  BY DEF Online!Idle
<1>2. [Online!Idle EXCEPT !.op = "mint", !.amount = amount] = u
  OBVIOUS
<1>3. u = m
  <2> HIDE DEF t
  <2> QED BY <1>1, AmountSet
<1> HIDE DEF u, m
<1>4. [Online!Idle EXCEPT !.op = "mint", !.amount = amount] = m
  BY <1>2, <1>3, Zenon
<1> QED BY <1>4 DEF m

LEMMA OutstandingFits == ASSUME OnlineBounded, Online!TypeOK, Online!InvoiceNotOverpaid
    PROVE Online!Outstanding \in 0 .. Total
  BY AllocSums DEF Online!Outstanding, Online!InvoiceNotOverpaid, OnlineBounded

LEMMA WebhookTask ==
  ASSUME Online!TypeOK, UnderWay, NEW p \in Deliveries, pTask[p].op = "webhook"
  PROVE  /\ \/ pTask[p].event[1] = "paid" /\ \E n \in pCollected : pTask[p].event = Online!Paid(n)
                 /\ pTask[p].event[2] = n
            \/ pTask[p].event[1] = "refunded" /\ \E i \in DOMAIN pRefunds : pTask[p].event = Online!Refunded(i)
                 /\ pTask[p].event[2] = i
         /\ pTask[p].amount \in 0 .. Total /\ pTask[p].event \in Online!Sent /\ pTask[p].event \notin pSeen
<1>1. pTask[p].event \in Online!Sent /\ pTask[p].event \notin pSeen
  BY DEF UnderWay
<1>2. pTask[p].amount \in 0 .. Total
  BY DEF Online!TypeOK
<1> QED BY <1>1, <1>2, EventSent

LEMMA OnlineTypesKept ==
  ASSUME OnlineBounded, OnlineInv, [Online!Next]_Online!vars
  PROVE  Online!TypeOK'
<1>0. Online!TypeOK /\ MintsSome /\ UnderWay /\ NeedsNoMore /\ Online!InvoiceNotOverpaid
  BY DEF OnlineInv, Taking, Booked
<1>s. /\ pLinks \in Seq(Link) /\ pRefunds \in Seq(GatewayRefund)
           /\ pTask \in [OnlineProcs -> LinkTask(Online!Sent)]
      /\ pCollected \subseteq DOMAIN pLinks /\ pSeen \subseteq Online!Sent /\ pEvents \in 0 .. MaxEvents
           /\ pDoc \in {"open", "cancelled"}
      /\ pLost \subseteq DOMAIN pRefunds /\ pPayment \in [DOMAIN pLinks -> OnBooks]
           /\ OnBooks = {Online!NoPayment} \cup Online!Payments
  BY <1>0 DEF Online!TypeOK, Link, GatewayRefund, OnlineProcs, LinkTask, OnBooks
<1>p. LinkRequests \subseteq OnlineProcs /\ Deliveries \subseteq OnlineProcs
  BY DEF OnlineProcs
<1>e. ASSUME NEW p \in OnlineProcs, Online!Ends(p), Online!Sent \subseteq Online!Sent'
        PROVE pTask' \in [OnlineProcs -> LinkTask(Online!Sent')]
  BY <1>0, <1>e, IdleTask, TaskChanges DEF Online!Ends
<1>k. ASSUME pDoc' = pDoc, pLinks' = pLinks, pPayment' = pPayment, pCollected' = pCollected,
             pRefunds' = pRefunds, pLost' = pLost, pSeen' \subseteq Online!Sent', pEvents' \in 0 .. MaxEvents,
             pTask' \in [OnlineProcs -> LinkTask(Online!Sent)]
      PROVE  Online!TypeOK'
  <2>1. Online!Sent' = Online!Sent
    BY <1>k DEF Online!Sent
  <2> QED BY <1>0, <1>k, <2>1 DEF Online!TypeOK, OnlineProcs, LinkTask
<1>1. CASE UNCHANGED Online!vars
  BY <1>0, <1>1, <1>k, <1>s DEF Online!vars, Online!Sent
<1>2. ASSUME NEW p \in LinkRequests, NEW amount \in 1 .. Total, Online!AskForLink(p, amount)
      PROVE Online!TypeOK'
  <2>1. [Online!Idle EXCEPT !.op = "mint", !.amount = amount] \in LinkTask(Online!Sent)
    <3> DEFINE m == [op |-> "mint", event |-> <<"none", 0>>, amount |-> amount]
    <3>1. m \in LinkTask(Online!Sent)
      BY DEF LinkTask, OnlineBounded
    <3>2. [Online!Idle EXCEPT !.op = "mint", !.amount = amount] = m
      BY MintTask
    <3> HIDE DEF m
    <3> QED BY <3>1, <3>2, Zenon
  <2>2. Online!Sent' = Online!Sent
    BY <1>2 DEF Online!AskForLink, Online!Sent
  <2>3. pTask' \in [OnlineProcs -> LinkTask(Online!Sent)]
    BY <1>0, <1>2, <2>1, <2>2, <1>p, TaskChanges DEF Online!AskForLink, Online!Begins
  <2> QED BY <1>s, <1>2, <1>k, <2>2, <2>3 DEF Online!AskForLink
<1>3. ASSUME NEW p \in LinkRequests, Online!StoreLink(p) PROVE Online!TypeOK'
  <2> DEFINE l == [amount |-> pTask[p].amount, status |-> "active"]
  <2>1. Online!Sent' = Online!Sent
    BY <1>3 DEF Online!StoreLink, Online!Sent
  <2>2. pTask' \in [OnlineProcs -> LinkTask(Online!Sent)]
    BY <1>3, <1>e, <1>p, <2>1 DEF Online!StoreLink
  <2>3. l \in Link
    <3>1. pTask[p] \in LinkTask(Online!Sent) /\ pTask[p].amount > 0
      BY <1>0, <1>3, <1>s, <1>p DEF MintsSome, Online!StoreLink
    <3> QED BY <3>1 DEF LinkTask, Link, OnlineBounded
  <2>4. pLinks' = Append(pLinks, l) /\ pPayment' = Append(pPayment, Online!NoPayment)
    BY <1>3 DEF Online!StoreLink
  <2>5. pLinks' \in Seq(Link) /\ DOMAIN pLinks' = 1 .. Len(pLinks) + 1 /\ DOMAIN pLinks \subseteq DOMAIN pLinks'
    <3> HIDE DEF l
    <3> QED BY <1>s, <2>3, <2>4
  <2>6. pPayment' \in [DOMAIN pLinks' -> OnBooks]
    <3>1. pPayment \in Seq(OnBooks) /\ Len(pPayment) = Len(pLinks) /\ Online!NoPayment \in OnBooks
      BY <1>0, OnlineShape DEF OnBooks
    <3>2. pPayment' \in Seq(OnBooks) /\ Len(pPayment') = Len(pPayment) + 1
      BY <2>4, <3>1, AppendProperties
    <3> QED BY <2>5, <3>1, <3>2
  <2>7. pRefunds' \in Seq([link : DOMAIN pLinks', amount : 1 .. Total])
    <3>1. pRefunds' = pRefunds
      BY <1>3 DEF Online!StoreLink
    <3>2. GatewayRefund \subseteq [link : DOMAIN pLinks', amount : 1 .. Total]
      BY <2>5 DEF GatewayRefund
    <3> QED BY <1>s, <3>1, <3>2, SeqMonotonic
  <2> QED BY <1>s, <1>3, <2>1, <2>2, <2>5, <2>6, <2>7 DEF Online!StoreLink, Online!TypeOK, Link, OnlineProcs,
      LinkTask
<1>4. CASE Online!CancelInvoice
  <2>1. /\ pLinks' = [n \in DOMAIN pLinks |-> [pLinks[n] EXCEPT !.status = IF @ = "active" THEN "cancelled"
             ELSE @]]
        /\ pDoc' = "cancelled" /\ UNCHANGED <<pPayment, pCollected, pRefunds, pSeen, pTask, pLost, pEvents>>
    BY <1>4 DEF Online!CancelInvoice
  <2>2. \A n \in DOMAIN pLinks : pLinks[n] \in Link
    BY <1>s
  <2>3. \A n \in DOMAIN pLinks : [pLinks[n] EXCEPT !.status = IF @ = "active" THEN "cancelled" ELSE @] \in Link
    BY <2>2 DEF Link
  <2>4. DOMAIN pLinks = 1 .. Len(pLinks) /\ Len(pLinks) \in Nat
    BY <1>s
  <2>5. pLinks' \in [1 .. Len(pLinks) -> Link]
    BY <2>1, <2>3, <2>4
  <2>6. pLinks' \in Seq(Link) /\ DOMAIN pLinks' = DOMAIN pLinks
    BY <2>4, <2>5
  <2>7. Online!Sent' = Online!Sent
    BY <2>1 DEF Online!Sent
  <2> QED BY <1>s, <2>1, <2>6, <2>7 DEF Online!TypeOK, Link, GatewayRefund, OnlineProcs, LinkTask
<1>5. ASSUME NEW n \in DOMAIN pLinks, Online!Pay(n) PROVE Online!TypeOK'
  <2>1. Online!Sent \subseteq Online!Sent' /\ pCollected' \subseteq DOMAIN pLinks
    BY <1>s, <1>5 DEF Online!Pay, Online!Sent
  <2>2. LinkTask(Online!Sent) \subseteq LinkTask(Online!Sent')
    BY <2>1 DEF LinkTask
  <2>3. pTask' \in [OnlineProcs -> LinkTask(Online!Sent')] /\ pSeen' \subseteq Online!Sent'
    BY <1>s, <1>5, <2>1, <2>2 DEF Online!Pay
  <2> QED BY <1>s, <1>5, <2>1, <2>3 DEF Online!Pay, Online!TypeOK, Link, GatewayRefund, OnlineProcs, LinkTask
<1>6. ASSUME NEW n \in DOMAIN pLinks, NEW amount \in 1 .. Total, Online!Refund(n, amount) PROVE Online!TypeOK'
  <2> DEFINE r == [link |-> n, amount |-> amount]
  <2>1. pRefunds' = Append(pRefunds, r)
          /\ UNCHANGED <<pDoc, pLinks, pPayment, pCollected, pSeen, pTask, pLost, pEvents>>
    BY <1>6 DEF Online!Refund
  <2>2. r \in GatewayRefund
    BY DEF GatewayRefund
  <2>3. pRefunds' \in Seq(GatewayRefund) /\ DOMAIN pRefunds \subseteq DOMAIN pRefunds'
    <3> HIDE DEF r
    <3> QED BY <1>s, <2>1, <2>2
  <2>4. Online!Sent \subseteq Online!Sent' /\ LinkTask(Online!Sent) \subseteq LinkTask(Online!Sent')
    BY <2>1, <2>3 DEF Online!Sent, LinkTask
  <2>5. pTask' \in [OnlineProcs -> LinkTask(Online!Sent')] /\ pSeen' \subseteq Online!Sent'
          /\ pLost' \subseteq DOMAIN pRefunds'
    BY <1>s, <2>1, <2>3, <2>4
  <2> HIDE DEF r
  <2> QED BY <1>s, <2>1, <2>3, <2>5 DEF Online!TypeOK, Link, GatewayRefund, OnlineProcs, LinkTask
<1>7. ASSUME NEW p \in Deliveries, NEW event \in Online!Sent, Online!Receive(p, event) PROVE Online!TypeOK'
  <2> DEFINE amount == IF event[1] = "paid"
      THEN Online!Least(pLinks[Online!LinkOf(event)].amount, Online!Outstanding)
                       ELSE pPayment[Online!LinkOf(event)].amount
  <2>1. Online!Sent' = Online!Sent
    BY <1>7 DEF Online!Receive, Online!Sent
  <2>2. Online!LinkOf(event) \in DOMAIN pLinks
    BY <1>0, <1>s, EventSent, OnlineShape DEF Online!LinkOf
  <2>3. amount \in 0 .. Total
    <3>1. pLinks[Online!LinkOf(event)].amount \in 1 .. Total
      BY <1>0, <2>2, OnlineShape DEF Link
    <3>2. pPayment[Online!LinkOf(event)].amount \in 0 .. Total
      BY <1>s, <2>2 DEF Online!NoPayment, Online!Payments, OnlineBounded
    <3>3. Online!Outstanding \in 0 .. Total
      BY <1>0, OutstandingFits
    <3> QED BY <3>1, <3>2, <3>3 DEF Online!Least
  <2>4. [op |-> "webhook", event |-> event, amount |-> amount] \in LinkTask(Online!Sent)
    BY <2>3 DEF LinkTask
  <2>5. Online!Begins(p, [op |-> "webhook", event |-> event, amount |-> amount])
        /\ UNCHANGED <<pDoc, pLinks, pPayment, pCollected, pRefunds, pSeen, pLost, pEvents>>
    BY <1>7 DEF Online!Receive
  <2> HIDE DEF amount
  <2>6. pTask' \in [OnlineProcs -> LinkTask(Online!Sent)]
    BY <1>0, <2>1, <2>4, <2>5, <1>p, TaskChanges DEF Online!Begins
  <2> QED BY <1>s, <1>k, <2>1, <2>5, <2>6
<1>8. ASSUME NEW p \in Deliveries, Online!Refused(p) PROVE Online!TypeOK'
  <2>1. Online!Sent' = Online!Sent
    BY <1>8 DEF Online!Refused, Online!Sent
  <2>2. pTask' \in [OnlineProcs -> LinkTask(Online!Sent)]
    BY <1>8, <1>e, <1>p, <2>1 DEF Online!Refused
  <2> QED BY <1>s, <1>8, <1>k, <2>1, <2>2 DEF Online!Refused
<1>9. ASSUME NEW p \in OnlineProcs, Online!Fails(p) PROVE Online!TypeOK'
  <2>1. Online!Sent' = Online!Sent
    BY <1>9 DEF Online!Fails, Online!Sent
  <2>2. pTask' \in [OnlineProcs -> LinkTask(Online!Sent)]
    BY <1>9, <1>e, <2>1 DEF Online!Fails
  <2>3. pEvents' \in 0 .. MaxEvents
    BY <1>s, <1>9 DEF Online!Fails, OnlineBounded
  <2> QED BY <1>s, <1>9, <1>k, <2>1, <2>2, <2>3 DEF Online!Fails
<1>10. ASSUME NEW p \in Deliveries, Online!PaymentLinkPaid(p) PROVE Online!TypeOK'
  <2>1. PICK n \in pCollected : pTask[p].event = Online!Paid(n) /\ pTask[p].event[2] = n
          /\ Online!LinkOf(pTask[p].event) = n
    BY <1>0, <1>10, WebhookTask DEF Online!PaymentLinkPaid, Online!Handles, Online!LinkOf
  <2>2. /\ pPayment' = [pPayment EXCEPT ![n] = [amount |-> pLinks[n].amount, alloc |-> pTask[p].amount]]
        /\ pLinks' = [pLinks EXCEPT ![n].status = "paid"] /\ pSeen' = pSeen \cup {pTask[p].event}
             /\ Online!Ends(p)
        /\ UNCHANGED <<pDoc, pCollected, pRefunds, pLost, pEvents>>
    BY <1>10, <2>1 DEF Online!PaymentLinkPaid, Online!Handled
  <2>3. pLinks[n] \in Link /\ n \in DOMAIN pLinks
    BY <1>s
  <2>4. pLinks' \in Seq(Link) /\ DOMAIN pLinks' = DOMAIN pLinks
    <3>1. [pLinks[n] EXCEPT !.status = "paid"] \in Link
      BY <2>3 DEF Link
    <3>2. pLinks' = [pLinks EXCEPT ![n] = [pLinks[n] EXCEPT !.status = "paid"]]
      BY <2>2
    <3> QED BY <1>s, <2>3, <3>1, <3>2, ExceptSeq
  <2>5. pTask[p].amount \in 0 .. Total /\ pTask[p].amount <= pLinks[n].amount /\ pTask[p].event \in Online!Sent
    BY <1>0, <1>10, <2>1, <2>3, WebhookTask DEF NeedsNoMore, HandlesEvent, Online!PaymentLinkPaid,
        Online!Handles
  <2>6. [amount |-> pLinks[n].amount, alloc |-> pTask[p].amount] \in OnBooks
    BY <2>3, <2>5 DEF OnBooks, Online!Payments, Link
  <2>7. pPayment' \in [DOMAIN pLinks' -> OnBooks]
    BY <1>s, <2>2, <2>4, <2>6
  <2>8. Online!Sent' = Online!Sent
    BY <2>2 DEF Online!Sent
  <2>9. pTask' \in [OnlineProcs -> LinkTask(Online!Sent)] /\ pSeen' \subseteq Online!Sent
    BY <1>e, <1>p, <1>s, <2>2, <2>5, <2>8
  <2> QED BY <1>s, <2>2, <2>4, <2>7, <2>8, <2>9 DEF Online!TypeOK, Link, GatewayRefund, OnlineProcs, LinkTask
<1>11. ASSUME NEW p \in Deliveries, Online!RefundProcessed(p) PROVE Online!TypeOK'
  <2>1. PICK i \in DOMAIN pRefunds : pTask[p].event = Online!Refunded(i) /\ pTask[p].event[2] = i
    BY <1>0, <1>11, WebhookTask DEF Online!RefundProcessed, Online!Handles
  <2> DEFINE n == pRefunds[i].link
  <2>2. /\ IF pTask[p].amount = 0 THEN pLost' = pLost \cup {i} /\ UNCHANGED pPayment
           ELSE pPayment' = [pPayment EXCEPT ![n] = Online!Shrunk(@, pRefunds[i].amount)] /\ UNCHANGED pLost
        /\ pSeen' = pSeen \cup {pTask[p].event} /\ Online!Ends(p)
             /\ UNCHANGED <<pDoc, pLinks, pCollected, pRefunds, pEvents>>
    BY <1>11, <2>1 DEF Online!RefundProcessed, Online!Handled
  <2>3. n \in DOMAIN pLinks /\ pRefunds[i].amount \in 1 .. Total /\ pPayment[n] \in OnBooks
    BY <1>0, OnlineShape
  <2>4. Online!Shrunk(pPayment[n], pRefunds[i].amount) \in OnBooks
    BY <2>3 DEF Online!Shrunk, Online!Least, OnBooks, Online!NoPayment, Online!Payments, OnlineBounded
  <2>5. pPayment' \in [DOMAIN pLinks -> OnBooks] /\ pLost' \subseteq DOMAIN pRefunds
    BY <1>s, <2>2, <2>3, <2>4
  <2>6. Online!Sent' = Online!Sent /\ pTask[p].event \in Online!Sent
    BY <1>0, <1>11, <2>2, WebhookTask DEF Online!Sent, Online!RefundProcessed, Online!Handles
  <2>7. pTask' \in [OnlineProcs -> LinkTask(Online!Sent)] /\ pSeen' \subseteq Online!Sent
    BY <1>e, <1>p, <1>s, <2>2, <2>6
  <2> QED BY <1>s, <2>2, <2>5, <2>6, <2>7 DEF Online!TypeOK, Link, GatewayRefund, OnlineProcs, LinkTask
<1> QED BY <1>1, <1>2, <1>3, <1>4, <1>5, <1>6, <1>7, <1>8, <1>9, <1>10, <1>11 DEF Online!Next, Online!Finish,
    OnlineProcs

-----------------------------------------------------------------------------
(* What is under way *)

(* When no delivery begins, what was not touched by the others is as it was. *)
LEMMA LessWork ==
  ASSUME OnlineBounded, OnlineInv, Online!TypeOK', MintsSome',
         \A q \in Deliveries : IF pTask'[q].op = "webhook" THEN pTask'[q] = pTask[q]
             /\ pTask[q].event \notin pSeen'
                               ELSE pTask'[q].event = <<"none", 0>>,
         Online!Sent \subseteq Online!Sent',
         \A n \in DOMAIN pLinks : n \in DOMAIN pLinks' /\ pLinks'[n].amount = pLinks[n].amount,
         \A i \in DOMAIN pRefunds : i \in DOMAIN pRefunds' /\ pRefunds'[i] = pRefunds[i],
         \A q \in Deliveries : \A i \in DOMAIN pRefunds : pTask'[q].op = "webhook" /\ Found(q, i) =>
           pPayment'[pRefunds[i].link] = pPayment[pRefunds[i].link]
  PROVE  Taking'
<1>0. Online!TypeOK /\ UnderWay /\ HandledOnce /\ NeedsNoMore /\ FoundIsThere /\ FoundByOne
  BY DEF OnlineInv, Taking
<1>1. UnderWay'
  BY <1>0 DEF UnderWay
<1>2. HandledOnce'
  BY <1>0 DEF HandledOnce, HandlesOne
<1>3. ASSUME NEW q \in Deliveries, NEW n, HandlesEvent(q, Online!Paid(n))'
      PROVE HandlesEvent(q, Online!Paid(n)) /\ n \in pCollected
  <2>1. pTask'[q] = pTask[q] /\ HandlesEvent(q, Online!Paid(n))
    BY <1>3 DEF HandlesEvent, Online!Paid
  <2> QED BY <1>0, <2>1, EventsInSent DEF UnderWay, HandlesEvent
<1>4. ASSUME NEW q \in Deliveries, NEW i, Found(q, i)'
      PROVE Found(q, i) /\ i \in DOMAIN pRefunds /\ pTask'[q].op = "webhook"
  <2>1. pTask'[q] = pTask[q] /\ Found(q, i) /\ pTask'[q].op = "webhook"
    BY <1>4 DEF HandlesEvent, Found, Online!Refunded
  <2> QED BY <1>0, <2>1, EventsInSent DEF UnderWay, HandlesEvent, Found
<1>5. NeedsNoMore'
  <2>1. pCollected \subseteq DOMAIN pLinks
    BY <1>0 DEF Online!TypeOK
  <2> SUFFICES ASSUME NEW q \in Deliveries, NEW n \in DOMAIN pLinks', HandlesEvent(q, Online!Paid(n))'
               PROVE  pTask'[q].amount <= pLinks'[n].amount
    BY DEF NeedsNoMore, Online!Paid
  <2>2. HandlesEvent(q, Online!Paid(n)) /\ n \in DOMAIN pLinks /\ pTask'[q] = pTask[q]
    BY <1>3, <2>1 DEF HandlesEvent
  <2> QED BY <1>0, <2>2 DEF NeedsNoMore
<1>6. FoundIsThere'
  <2> SUFFICES ASSUME NEW q \in Deliveries, NEW i \in DOMAIN pRefunds', Found(q, i)'
      PROVE pPayment'[pRefunds'[i].link].amount > 0
    BY DEF FoundIsThere
  <2>1. Found(q, i) /\ i \in DOMAIN pRefunds /\ pTask'[q].op = "webhook"
    BY <1>4
  <2> QED BY <1>0, <2>1 DEF FoundIsThere
<1>7. FoundByOne'
  <2> SUFFICES ASSUME NEW p \in Deliveries, NEW q \in Deliveries, NEW i \in DOMAIN pRefunds',
  NEW j \in DOMAIN pRefunds',
                      Found(p, i)', Found(q, j)', pRefunds'[i].link = pRefunds'[j].link
               PROVE  p = q
    BY DEF FoundByOne
  <2>1. Found(p, i) /\ i \in DOMAIN pRefunds /\ Found(q, j) /\ j \in DOMAIN pRefunds
    BY <1>4
  <2> QED BY <1>0, <2>1 DEF FoundByOne
<1> QED BY <1>1, <1>2, <1>5, <1>6, <1>7 DEF Taking

(* What a task that is ended, or one that has not begun to handle anything, leaves to the others. *)
LEMMA TaskEnds ==
  ASSUME OnlineBounded, OnlineInv, Online!TypeOK', NEW p \in OnlineProcs, Online!Ends(p)
  PROVE  /\ MintsSome'
         /\ \A q \in OnlineProcs : pTask'[q] = IF q = p THEN Online!Idle ELSE pTask[q]
         /\ Online!Idle.op = "none" /\ Online!Idle.event = <<"none", 0>>
<1>1. Online!Idle.op = "none" /\ Online!Idle.event = <<"none", 0>>
  BY DEF Online!Idle
<1>2. \A q \in OnlineProcs : pTask'[q] = IF q = p THEN Online!Idle ELSE pTask[q]
  BY DEF Online!Ends, OnlineInv, Online!TypeOK, OnlineProcs
<1> QED BY <1>1, <1>2 DEF MintsSome, OnlineInv, Taking, OnlineProcs

(* The event that is handled is handled by nobody else. *)
LEMMA WorkEnds ==
  ASSUME OnlineBounded, OnlineInv, Online!TypeOK', NEW p \in OnlineProcs, Online!Ends(p),
         pSeen' = pSeen \/ (p \in Deliveries /\ HandlesOne(p) /\ pSeen' = pSeen \cup {pTask[p].event}),
         Online!Sent' = Online!Sent,
         \A n \in DOMAIN pLinks : n \in DOMAIN pLinks' /\ pLinks'[n].amount = pLinks[n].amount,
         pRefunds' = pRefunds,
         \A q \in Deliveries : \A i \in DOMAIN pRefunds : q # p /\ Found(q, i) =>
           pPayment'[pRefunds[i].link] = pPayment[pRefunds[i].link]
  PROVE  Taking'
<1>1. /\ MintsSome'
      /\ \A q \in Deliveries : pTask'[q] = IF q = p THEN Online!Idle ELSE pTask[q]
      /\ Online!Idle.op = "none" /\ Online!Idle.event = <<"none", 0>>
  BY TaskEnds DEF OnlineProcs
<1>2. UnderWay /\ HandledOnce
  BY DEF OnlineInv, Taking
<1>3. ASSUME NEW q \in Deliveries
      PROVE  IF pTask'[q].op = "webhook" THEN pTask'[q] = pTask[q] /\ pTask[q].event \notin pSeen'
             ELSE pTask'[q].event = <<"none", 0>>
  <2>1. CASE q = p
    BY <1>1, <2>1
  <2>2. CASE q # p
    BY <1>1, <1>2, <2>2 DEF UnderWay, HandledOnce, HandlesOne
  <2> QED BY <2>1, <2>2
<1>4. \A q \in Deliveries : pTask'[q].op = "webhook" => q # p
  BY <1>1
<1> QED BY <1>1, <1>3, <1>4, LessWork

LEMMA TakingKept ==
  ASSUME OnlineBounded, OnlineInv, [Online!Next]_Online!vars
  PROVE  Taking'
<1>0. Online!TypeOK /\ Online!TypeOK' /\ Taking /\ MintsSome /\ UnderWay /\ HandledOnce /\ FoundIsThere
        /\ FoundByOne /\ NotYetOnBooks
      /\ pTask \in [OnlineProcs -> LinkTask(Online!Sent)] /\ pCollected \subseteq DOMAIN pLinks
  BY OnlineTypesKept DEF OnlineInv, Taking, Booked, Online!TypeOK, OnlineProcs, LinkTask
<1>p. LinkRequests \subseteq OnlineProcs /\ Deliveries \subseteq OnlineProcs
  BY DEF OnlineProcs
<1>w. \A q \in Deliveries : IF pTask[q].op = "webhook" THEN pTask[q].event \notin pSeen
        ELSE pTask[q].event = <<"none", 0>>
  BY <1>0 DEF UnderWay
<1>1. CASE UNCHANGED Online!vars
  <2>1. MintsSome'
    BY <1>0, <1>1 DEF Online!vars, MintsSome
  <2>2. Online!Sent' = Online!Sent
    BY <1>1 DEF Online!vars, Online!Sent
  <2> QED BY <1>1, <1>w, <1>0, <2>1, <2>2, LessWork DEF Online!vars
<1>2. ASSUME NEW p \in LinkRequests, NEW amount \in 1 .. Total, Online!AskForLink(p, amount) PROVE Taking'
  <2> DEFINE m == [op |-> "mint", event |-> <<"none", 0>>, amount |-> amount]
  <2>1. [Online!Idle EXCEPT !.op = "mint", !.amount = amount] = m
    BY MintTask
  <2>2. Online!Sent' = Online!Sent /\ UNCHANGED <<pLinks, pPayment, pRefunds, pSeen>>
    BY <1>2 DEF Online!AskForLink, Online!Sent
  <2>3. m.op = "mint" /\ m.event = <<"none", 0>> /\ m.amount > 0
    BY DEF OnlineBounded
  <2> HIDE DEF m
  <2>4. Online!Begins(p, m)
    BY <1>2, <2>1, Zenon DEF Online!AskForLink
  <2>5. \A q \in OnlineProcs : pTask'[q] = IF q = p THEN m ELSE pTask[q]
    BY <1>0, <1>p, <2>4 DEF Online!Begins
  <2>6. MintsSome'
    BY <1>0, <1>p, <2>3, <2>5 DEF MintsSome
  <2> QED BY <1>0, <1>p, <1>w, <2>2, <2>3, <2>5, <2>6, LessWork
<1>3. ASSUME NEW p \in LinkRequests, Online!StoreLink(p) PROVE Taking'
  <2> DEFINE l == [amount |-> pTask[p].amount, status |-> "active"]
  <2>1. Online!Sent' = Online!Sent /\ UNCHANGED <<pRefunds, pSeen>> /\ Online!Ends(p)
          /\ pLinks' = Append(pLinks, l) /\ pPayment' = Append(pPayment, Online!NoPayment)
    BY <1>3 DEF Online!StoreLink, Online!Sent
  <2>2. pLinks \in Seq(Link) /\ pLinks' \in Seq(Link) /\ pPayment \in Seq(OnBooks)
          /\ Online!NoPayment \in OnBooks
    BY <1>0, OnlineShape DEF Online!TypeOK, Link, OnBooks
  <2> HIDE DEF l
  <2>3. \A n \in DOMAIN pLinks : n \in DOMAIN pLinks' /\ pLinks'[n] = pLinks[n]
    BY <2>1, <2>2
  <2>4. \A n \in DOMAIN pPayment : pPayment'[n] = pPayment[n]
    BY <2>1, <2>2
  <2>5. \A i \in DOMAIN pRefunds : pRefunds[i].link \in DOMAIN pPayment
    BY <1>0, OnlineShape
  <2> QED BY <1>0, <1>p, <2>1, <2>3, <2>4, <2>5, WorkEnds
<1>4. CASE Online!CancelInvoice
  <2>1. UNCHANGED <<pPayment, pCollected, pRefunds, pSeen, pTask>>
        /\ pLinks' = [n \in DOMAIN pLinks |-> [pLinks[n] EXCEPT !.status = IF @ = "active" THEN "cancelled"
             ELSE @]]
    BY <1>4 DEF Online!CancelInvoice
  <2>2. \A n \in DOMAIN pLinks : n \in DOMAIN pLinks' /\ pLinks'[n].amount = pLinks[n].amount
    <3>1. \A n \in DOMAIN pLinks : pLinks[n] \in Link
      BY <1>0, OnlineShape
    <3> QED BY <2>1, <3>1 DEF Link
  <2>3. Online!Sent' = Online!Sent /\ MintsSome'
    BY <1>0, <2>1 DEF Online!Sent, MintsSome
  <2> QED BY <1>0, <1>w, <2>1, <2>2, <2>3, LessWork
<1>5. ASSUME NEW n \in DOMAIN pLinks, Online!Pay(n) PROVE Taking'
  <2>1. Online!Sent \subseteq Online!Sent' /\ UNCHANGED <<pLinks, pPayment, pRefunds, pSeen, pTask>>
    BY <1>5 DEF Online!Pay, Online!Sent
  <2>2. MintsSome'
    BY <1>0, <2>1 DEF MintsSome
  <2> QED BY <1>0, <1>w, <2>1, <2>2, LessWork
<1>6. ASSUME NEW n \in DOMAIN pLinks, NEW amount \in 1 .. Total, Online!Refund(n, amount) PROVE Taking'
  <2>1. UNCHANGED <<pLinks, pPayment, pCollected, pSeen, pTask>>
          /\ pRefunds' = Append(pRefunds, [link |-> n, amount |-> amount])
    BY <1>6 DEF Online!Refund
  <2>2. \A i \in DOMAIN pRefunds : i \in DOMAIN pRefunds' /\ pRefunds'[i] = pRefunds[i]
    BY <1>0, <2>1, RefundMade
  <2>3. Online!Sent \subseteq Online!Sent' /\ MintsSome'
    BY <1>0, <2>1, <2>2 DEF Online!Sent, MintsSome
  <2> QED BY <1>0, <1>w, <2>1, <2>2, <2>3, LessWork
<1>7. ASSUME NEW p \in Deliveries, NEW event \in Online!Sent, Online!Receive(p, event) PROVE Taking'
  <2> DEFINE amount == IF event[1] = "paid"
      THEN Online!Least(pLinks[Online!LinkOf(event)].amount, Online!Outstanding)
                       ELSE pPayment[Online!LinkOf(event)].amount
             t == [op |-> "webhook", event |-> event, amount |-> amount]
  <2>1. /\ UNCHANGED <<pDoc, pLinks, pPayment, pCollected, pRefunds, pSeen>> /\ Online!Begins(p, t)
        /\ event \notin pSeen /\ ~Online!Handling(event) /\ (event[1] = "refunded"
             => ~Online!Locked(Online!LinkOf(event)))
    BY <1>7 DEF Online!Receive, Online!ToHandle
  <2>2. t.op = "webhook" /\ t.event = event /\ t.amount = amount
    OBVIOUS
  <2> HIDE DEF t
  <2>3. \A q \in OnlineProcs : pTask'[q] = IF q = p THEN t ELSE pTask[q]
    BY <1>0, <1>p, <2>1 DEF Online!Begins
  <2>4. MintsSome' /\ Online!Sent' = Online!Sent
    BY <1>0, <1>p, <2>1, <2>2, <2>3 DEF MintsSome, Online!Sent
  <2>5. UnderWay'
    BY <1>0, <1>p, <2>1, <2>2, <2>3, <2>4 DEF UnderWay
  <2>6. HandledOnce'
    BY <1>0, <1>p, <2>1, <2>2, <2>3 DEF HandledOnce, HandlesOne, Online!Handling
  <2>7. ASSUME NEW q \in Deliveries, NEW e, HandlesEvent(q, e)'
        PROVE  IF q = p THEN e = event /\ pTask'[q].amount = amount ELSE HandlesEvent(q, e)
                 /\ pTask'[q] = pTask[q]
    BY <1>p, <2>2, <2>3, <2>7 DEF HandlesEvent
  <2>8. NeedsNoMore'
    <3> SUFFICES ASSUME NEW q \in Deliveries, NEW n \in DOMAIN pLinks, HandlesEvent(q, Online!Paid(n))'
        PROVE pTask'[q].amount <= pLinks[n].amount
      BY <2>1 DEF NeedsNoMore, Online!Paid
    <3>1. CASE q = p
      <4>1. Online!Paid(n) = event /\ pTask'[q].amount = amount
        BY <2>7, <3>1
      <4>2. event[1] = "paid" /\ Online!LinkOf(event) = n
        BY <4>1, EventsDiffer DEF Online!LinkOf
      <4>3. pLinks[n].amount \in Int /\ Online!Outstanding \in Int
        <5>1. Online!Outstanding \in 0 .. Total
          BY OutstandingFits DEF OnlineInv, Booked
        <5>2. pLinks[n].amount \in 1 .. Total
          BY <1>0, OnlineShape DEF Link
        <5> QED BY <5>1, <5>2 DEF OnlineBounded
      <4> QED BY <4>1, <4>2, <4>3 DEF Online!Least
    <3>2. CASE q # p
      BY <1>0, <2>7, <3>2 DEF NeedsNoMore, Taking
    <3> QED BY <3>1, <3>2
  <2>9. ASSUME NEW q \in Deliveries, NEW i \in DOMAIN pRefunds, Found(q, i)'
        PROVE  IF q = p THEN Online!Refunded(i) = event /\ event[1] = "refunded"
                 /\ Online!LinkOf(event) = pRefunds[i].link /\ amount > 0
                             /\ amount = pPayment[pRefunds[i].link].amount
               ELSE Found(q, i) /\ HandlesEvent(q, Online!Refunded(i)) /\ pTask[q].amount > 0
    <3>1. HandlesEvent(q, Online!Refunded(i))' /\ pTask'[q].amount > 0
      BY <2>9 DEF Found, HandlesEvent, Online!Refunded
    <3>2. CASE q = p
      <4>1. Online!Refunded(i) = event /\ amount > 0
        BY <2>7, <3>1, <3>2 DEF Online!Refunded
      <4>2. event[1] = "refunded" /\ Online!LinkOf(event) = pRefunds[i].link
        BY <4>1, EventsDiffer DEF Online!LinkOf
      <4> QED BY <3>2, <4>1, <4>2
    <3>3. CASE q # p
      BY <2>7, <3>1, <3>3 DEF Found, Online!Refunded, HandlesEvent
    <3> QED BY <3>2, <3>3
  <2> HIDE DEF amount
  <2>10. FoundIsThere'
    <3> SUFFICES ASSUME NEW q \in Deliveries, NEW i \in DOMAIN pRefunds, Found(q, i)'
        PROVE pPayment[pRefunds[i].link].amount > 0
      BY <2>1 DEF FoundIsThere, Found, Online!Refunded, HandlesEvent
    <3> QED BY <1>0, <2>9 DEF FoundIsThere
  <2>11. FoundByOne'
    <3>1. ASSUME NEW q \in Deliveries, q # p, NEW i \in DOMAIN pRefunds, NEW j \in DOMAIN pRefunds,
                 Found(p, i)', Found(q, j)', pRefunds[i].link = pRefunds[j].link
          PROVE  FALSE
      <4>1. event[1] = "refunded" /\ Online!LinkOf(event) = pRefunds[i].link
        BY <2>9, <3>1
      <4>2. pTask[q].event = Online!Refunded(j) /\ pTask[q].amount > 0
        BY <2>9, <3>1 DEF HandlesEvent
      <4>3. pTask[q].event[1] = "refunded" /\ Online!LinkOf(pTask[q].event) = pRefunds[j].link
        BY <4>2, EventsDiffer DEF Online!LinkOf
      <4>4. Online!Locked(Online!LinkOf(event))
        BY <3>1, <4>1, <4>2, <4>3 DEF Online!Locked
      <4> QED BY <2>1, <4>1, <4>4
    <3>2. ASSUME NEW q \in Deliveries, NEW r \in Deliveries, q # p, r # p, NEW i \in DOMAIN pRefunds,
    NEW j \in DOMAIN pRefunds,
                 Found(q, i)', Found(r, j)', pRefunds[i].link = pRefunds[j].link
          PROVE  q = r
      BY <1>0, <2>9, <3>2 DEF FoundByOne
    <3> SUFFICES ASSUME NEW q \in Deliveries, NEW r \in Deliveries, NEW i \in DOMAIN pRefunds,
    NEW j \in DOMAIN pRefunds,
                        Found(q, i)', Found(r, j)', pRefunds[i].link = pRefunds[j].link
                 PROVE  q = r
      BY <2>1 DEF FoundByOne, Found, Online!Refunded, HandlesEvent
    <3>3. CASE q = p /\ r # p
      BY <3>1, <3>3
    <3>4. CASE q # p /\ r = p
      BY <3>1, <3>4
    <3>5. CASE q # p /\ r # p
      BY <3>2, <3>5
    <3> QED BY <3>3, <3>4, <3>5
  <2> QED BY <2>4, <2>5, <2>6, <2>8, <2>10, <2>11 DEF Taking
<1>8. ASSUME NEW p \in Deliveries, Online!Refused(p) PROVE Taking'
  <2>1. Online!Sent' = Online!Sent /\ UNCHANGED <<pLinks, pPayment, pRefunds, pSeen>> /\ Online!Ends(p)
    BY <1>8 DEF Online!Refused, Online!Sent
  <2> QED BY <1>0, <1>p, <2>1, WorkEnds
<1>9. ASSUME NEW p \in OnlineProcs, Online!Fails(p) PROVE Taking'
  <2>1. Online!Sent' = Online!Sent /\ UNCHANGED <<pLinks, pPayment, pRefunds, pSeen>> /\ Online!Ends(p)
    BY <1>9 DEF Online!Fails, Online!Sent
  <2> QED BY <1>0, <2>1, WorkEnds
<1>10. ASSUME NEW p \in Deliveries, Online!PaymentLinkPaid(p) PROVE Taking'
  <2>1. PICK n \in pCollected : pTask[p].event = Online!Paid(n) /\ Online!LinkOf(pTask[p].event) = n
    BY <1>0, <1>10, WebhookTask DEF Online!PaymentLinkPaid, Online!Handles, Online!LinkOf
  <2>2. /\ pPayment' = [pPayment EXCEPT ![n] = [amount |-> pLinks[n].amount, alloc |-> pTask[p].amount]]
        /\ pLinks' = [pLinks EXCEPT ![n].status = "paid"] /\ pSeen' = pSeen \cup {pTask[p].event}
             /\ Online!Ends(p)
        /\ UNCHANGED <<pDoc, pCollected, pRefunds, pLost, pEvents>> /\ HandlesOne(p)
    BY <1>10, <2>1 DEF Online!PaymentLinkPaid, Online!Handled, Online!Handles, HandlesOne
  <2>3. \A m \in DOMAIN pLinks : m \in DOMAIN pLinks' /\ pLinks'[m].amount = pLinks[m].amount
    <3>1. \A m \in DOMAIN pLinks : pLinks[m] \in Link
      BY <1>0, OnlineShape
    <3> QED BY <2>2, <3>1 DEF Link
  <2>4. Online!Sent' = Online!Sent
    BY <2>2 DEF Online!Sent
  <2>5. pPayment[n].amount = 0
    <3>1. n \in DOMAIN pLinks /\ Online!Paid(n) \notin pSeen
      BY <1>0, <1>w, <2>1, <2>2 DEF HandlesOne
    <3> QED BY <1>0, <3>1 DEF NotYetOnBooks, NotHeardOf, Online!NoPayment
  <2>6. ASSUME NEW q \in Deliveries, NEW i \in DOMAIN pRefunds, Found(q, i)
        PROVE  pPayment'[pRefunds[i].link] = pPayment[pRefunds[i].link]
    <3>1. pRefunds[i].link # n
      BY <1>0, <2>5, <2>6 DEF FoundIsThere
    <3> QED BY <2>2, <3>1
  <2> QED BY <1>0, <1>p, <2>2, <2>3, <2>4, <2>6, WorkEnds
<1>11. ASSUME NEW p \in Deliveries, Online!RefundProcessed(p) PROVE Taking'
  <2>1. PICK i \in DOMAIN pRefunds : pTask[p].event = Online!Refunded(i) /\ pTask[p].event[2] = i
    BY <1>0, <1>11, WebhookTask DEF Online!RefundProcessed, Online!Handles
  <2>2. /\ IF pTask[p].amount = 0 THEN UNCHANGED pPayment
           ELSE pPayment' = [pPayment EXCEPT ![pRefunds[i].link] = Online!Shrunk(@, pRefunds[i].amount)]
        /\ pSeen' = pSeen \cup {pTask[p].event} /\ Online!Ends(p)
             /\ UNCHANGED <<pDoc, pLinks, pCollected, pRefunds, pEvents>> /\ HandlesOne(p)
    BY <1>11, <2>1 DEF Online!RefundProcessed, Online!Handled, Online!Handles, HandlesOne
  <2>3. Online!Sent' = Online!Sent
    BY <2>2 DEF Online!Sent
  <2>4. ASSUME NEW q \in Deliveries, NEW j \in DOMAIN pRefunds, q # p, Found(q, j)
        PROVE  pPayment'[pRefunds[j].link] = pPayment[pRefunds[j].link]
    <3>1. CASE pTask[p].amount = 0
      BY <2>2, <3>1
    <3>2. CASE pTask[p].amount # 0
      <4>1. pTask[p].amount \in 0 .. Total
        BY <1>0, <1>p DEF LinkTask
      <4>2. Found(p, i)
        BY <2>1, <2>2, <3>2, <4>1 DEF Found, HandlesEvent, HandlesOne, OnlineBounded
      <4>3. pRefunds[j].link # pRefunds[i].link
        BY <1>0, <2>4, <4>2 DEF FoundByOne
      <4>4. pRefunds[j].link \in DOMAIN pPayment
        BY <1>0, OnlineShape
      <4>5. pPayment' = [pPayment EXCEPT ![pRefunds[i].link] = Online!Shrunk(@, pRefunds[i].amount)]
        BY <2>2, <3>2
      <4> QED BY <4>3, <4>4, <4>5
    <3> QED BY <3>1, <3>2
  <2> QED BY <1>0, <1>p, <2>2, <2>3, <2>4, WorkEnds
<1> QED BY <1>1, <1>2, <1>3, <1>4, <1>5, <1>6, <1>7, <1>8, <1>9, <1>10, <1>11 DEF Online!Next, Online!Finish,
    OnlineProcs

-----------------------------------------------------------------------------
(* What is on the books *)

OnRecord == {i \in DOMAIN pRefunds : Online!Refunded(i) \in pSeen} \ pLost

(* Nothing on the books changes, and the invoice is for no less. *)
LEMMA SameBooks ==
  ASSUME OnlineBounded, OnlineInv, Online!TypeOK', UNCHANGED <<pPayment, pRefunds, pSeen, pLost>>,
         pDoc' = pDoc
             \/ Online!AmountPaid = 0, DOMAIN pLinks' = DOMAIN pLinks,
         \A n \in DOMAIN pLinks : pLinks'[n].amount = pLinks[n].amount
  PROVE  Booked'
<1>0. Online!TypeOK /\ Booked
  BY DEF OnlineInv
<1>1. Online!AmountPaid' = Online!AmountPaid /\ Online!AmountPaid \in Nat
  BY <1>0, AllocSums, OnlineSum DEF Online!AmountPaid
<1>2. Online!InvoiceNotOverpaid'
  BY <1>0, <1>1 DEF Booked, Online!InvoiceNotOverpaid, OnlineBounded, Online!TypeOK
<1>3. \A n, W : Online!RefundedOf(n, W)' = Online!RefundedOf(n, W)
  BY OnlineSum DEF Online!RefundedOf
<1>4. RefundsFit'
  BY <1>0, <1>3 DEF Booked, RefundsFit
<1>5. Online!BooksFollowGateway'
  BY <1>0, <1>3 DEF Booked, Online!BooksFollowGateway, Online!Paid, Online!Refunded
<1>6. NotYetOnBooks' /\ LostWasHandled'
  BY <1>0 DEF Booked, NotYetOnBooks, NotHeardOf, LostWasHandled, Online!Paid, Online!Refunded
<1> QED BY <1>2, <1>4, <1>5, <1>6 DEF Booked

LEMMA BookedKept ==
  ASSUME OnlineBounded, OnlineInv, [Online!Next]_Online!vars
  PROVE  Booked'
<1>0. Online!TypeOK /\ Online!TypeOK' /\ Taking /\ UnderWay /\ Booked /\ Online!InvoiceNotOverpaid
        /\ Online!BooksFollowGateway /\ NotYetOnBooks /\ RefundsFit
      /\ LostWasHandled /\ pCollected \subseteq DOMAIN pLinks /\ pSeen \subseteq Online!Sent
           /\ pLost \subseteq DOMAIN pRefunds
  BY OnlineTypesKept DEF OnlineInv, Taking, Booked, Online!TypeOK
<1>1. CASE UNCHANGED Online!vars
  BY <1>0, <1>1, SameBooks DEF Online!vars
<1>2. ASSUME NEW p \in LinkRequests, NEW amount \in 1 .. Total, Online!AskForLink(p, amount) PROVE Booked'
  BY <1>0, <1>2, SameBooks DEF Online!AskForLink
<1>3. ASSUME NEW p \in LinkRequests, Online!StoreLink(p) PROVE Booked'
  <2> DEFINE l == [amount |-> pTask[p].amount, status |-> "active"]
             N == Len(pLinks)
  <2>1. UNCHANGED <<pDoc, pRefunds, pSeen, pLost>> /\ pLinks' = Append(pLinks, l)
          /\ pPayment' = Append(pPayment, Online!NoPayment)
    BY <1>3 DEF Online!StoreLink
  <2>2. pLinks \in Seq(Link) /\ pLinks' \in Seq(Link) /\ pPayment \in Seq(OnBooks) /\ Len(pPayment) = N
    BY <1>0, OnlineShape DEF Online!TypeOK, Link
  <2>3. Online!AmountPaid' = Online!AmountPaid
    BY <1>0, <2>1, PaidStays
  <2>4. Online!InvoiceNotOverpaid'
    BY <1>0, <2>1, <2>3 DEF Online!InvoiceNotOverpaid
  <2> HIDE DEF l
  <2>5. DOMAIN pLinks' = DOMAIN pLinks \cup {N + 1} /\ N + 1 \notin DOMAIN pLinks
          /\ DOMAIN pPayment = DOMAIN pLinks
        /\ pLinks'[N + 1] = l /\ pPayment'[N + 1] = Online!NoPayment
        /\ \A n \in DOMAIN pLinks : pLinks'[n] = pLinks[n] /\ pPayment'[n] = pPayment[n]
    BY <2>1, <2>2
  <2>6. \A n, W : Online!RefundedOf(n, W)' = Online!RefundedOf(n, W)
    BY <2>1, OnlineSum DEF Online!RefundedOf
  <2>7. \A i \in DOMAIN pRefunds : pRefunds[i].link # N + 1
    BY <1>0, <2>5, OnlineShape
  <2>8. l.amount \in 1 .. Total
    <3>1. pTask[p].amount \in 0 .. Total /\ pTask[p].amount > 0
      BY <1>0, <1>3 DEF Taking, MintsSome, Online!StoreLink, Online!TypeOK
    <3> QED BY <3>1 DEF l, OnlineBounded
  <2>9. Online!Paid(N + 1) \notin pSeen
    BY <1>0, <2>5, EventsInSent
  <2>10. RefundsFit'
    <3>1. Online!RefundedOf(N + 1, DOMAIN pRefunds) = 0
      <4> DEFINE f == [i \in DOMAIN pRefunds |-> pRefunds[i].amount]
      <4>1. {i \in DOMAIN pRefunds : pRefunds[i].link = N + 1} = {}
        BY <2>7
      <4>2. f \in [DOMAIN pRefunds -> Int]
        BY <1>0, RefundSums
      <4>3. Online!RefundedOf(N + 1, DOMAIN pRefunds) = SumFunctionOnSet(f, {})
        BY <4>1, OnlineSum DEF Online!RefundedOf
      <4> HIDE DEF f
      <4> QED BY <4>2, <4>3, SumOfNone
    <3>2. ASSUME NEW n \in DOMAIN pLinks' PROVE Online!RefundedOf(n, DOMAIN pRefunds) <= pLinks'[n].amount
      <4>1. CASE n \in DOMAIN pLinks
        BY <1>0, <2>5, <4>1 DEF RefundsFit
      <4>2. CASE n = N + 1
        BY <2>5, <2>8, <3>1, <4>2 DEF OnlineBounded
      <4> QED BY <2>5, <4>1, <4>2
    <3> QED BY <2>1, <2>6, <3>2 DEF RefundsFit
  <2>11. Online!BooksFollowGateway'
    <3> SUFFICES ASSUME NEW n \in DOMAIN pLinks', Online!Paid(n) \in pSeen
                 PROVE  pPayment'[n].amount + Online!RefundedOf(n, OnRecord) = pLinks'[n].amount
      BY <2>1, <2>6 DEF Online!BooksFollowGateway, OnRecord, Online!Paid, Online!Refunded
    <3>1. n \in DOMAIN pLinks
      BY <2>5, <2>9
    <3> QED BY <1>0, <2>5, <3>1 DEF Online!BooksFollowGateway, OnRecord
  <2>12. NotYetOnBooks'
    <3> SUFFICES ASSUME NEW n \in DOMAIN pLinks', Online!Paid(n) \notin pSeen PROVE NotHeardOf(n)'
      BY <2>1 DEF NotYetOnBooks, Online!Paid
    <3>1. CASE n \in DOMAIN pLinks
      <4>1. NotHeardOf(n)
        BY <1>0, <3>1 DEF NotYetOnBooks
      <4> QED BY <2>1, <2>5, <3>1, <4>1 DEF NotHeardOf, Online!Refunded
    <3>2. CASE n = N + 1
      BY <2>1, <2>5, <2>7, <3>2 DEF NotHeardOf
    <3> QED BY <2>5, <3>1, <3>2
  <2>13. LostWasHandled'
    BY <1>0, <2>1 DEF LostWasHandled, Online!Refunded
  <2> QED BY <2>4, <2>10, <2>11, <2>12, <2>13 DEF Booked
<1>4. CASE Online!CancelInvoice
  <2>1. \A n \in DOMAIN pLinks : pLinks[n] \in Link
    BY <1>0, OnlineShape
  <2> QED BY <1>0, <1>4, <2>1, SameBooks DEF Online!CancelInvoice, Link
<1>5. ASSUME NEW n \in DOMAIN pLinks, Online!Pay(n) PROVE Booked'
  BY <1>0, <1>5, SameBooks DEF Online!Pay
<1>6. ASSUME NEW n \in DOMAIN pLinks, NEW amount \in 1 .. Total, Online!Refund(n, amount) PROVE Booked'
  <2> DEFINE N == Len(pRefunds)
  <2>1. /\ UNCHANGED <<pDoc, pLinks, pPayment, pSeen, pLost>>
             /\ pRefunds' = Append(pRefunds, [link |-> n, amount |-> amount])
        /\ amount <= pLinks[n].amount - Online!RefundedOf(n, DOMAIN pRefunds)
    BY <1>6 DEF Online!Refund
  <2>2. /\ DOMAIN pRefunds' = DOMAIN pRefunds \cup {N + 1} /\ N + 1 \notin DOMAIN pRefunds
        /\ \A i \in DOMAIN pRefunds : pRefunds'[i] = pRefunds[i]
        /\ \A m, W : W \subseteq DOMAIN pRefunds => Online!RefundedOf(m, W)' = Online!RefundedOf(m, W)
        /\ \A m : Online!RefundedOf(m, DOMAIN pRefunds)' = Online!RefundedOf(m, DOMAIN pRefunds) + (IF m = n
             THEN amount ELSE 0)
    BY <1>0, <2>1, RefundMade
  <2>3. Online!InvoiceNotOverpaid'
    <3>1. Online!AmountPaid' = Online!AmountPaid
      BY <2>1, OnlineSum DEF Online!AmountPaid
    <3> QED BY <1>0, <2>1, <3>1 DEF Online!InvoiceNotOverpaid
  <2>4. RefundsFit'
    <3> SUFFICES ASSUME NEW m \in DOMAIN pLinks PROVE Online!RefundedOf(m, DOMAIN pRefunds)' <= pLinks[m].amount
      BY <2>1 DEF RefundsFit
    <3>1. Online!RefundedOf(m, DOMAIN pRefunds) \in Int
            /\ Online!RefundedOf(m, DOMAIN pRefunds) <= pLinks[m].amount
      BY <1>0, RefundSums DEF RefundsFit
    <3>2. pLinks[m].amount \in Int /\ amount \in Int
      BY <1>0, OnlineShape DEF Link, OnlineBounded
    <3> QED BY <2>1, <2>2, <3>1, <3>2
  <2>5. Online!Refunded(N + 1) \notin pSeen
    BY <1>0, <2>2, EventsInSent
  <2>6. OnRecord' = OnRecord /\ OnRecord \subseteq DOMAIN pRefunds
    BY <2>1, <2>2, <2>5 DEF OnRecord, Online!Refunded
  <2>7. Online!BooksFollowGateway'
    <3> SUFFICES ASSUME NEW m \in DOMAIN pLinks, Online!Paid(m) \in pSeen
                 PROVE  pPayment[m].amount + Online!RefundedOf(m, OnRecord)' = pLinks[m].amount
      BY <2>1 DEF Online!BooksFollowGateway, OnRecord, Online!Paid, Online!Refunded
    <3> QED BY <1>0, <2>2, <2>6 DEF Online!BooksFollowGateway, OnRecord
  <2>8. NotYetOnBooks'
    BY <1>0, <2>1, <2>2, <2>5 DEF NotYetOnBooks, NotHeardOf, Online!Paid, Online!Refunded
  <2>9. LostWasHandled'
    BY <1>0, <2>1 DEF LostWasHandled, Online!Refunded
  <2> QED BY <2>3, <2>4, <2>7, <2>8, <2>9 DEF Booked
<1>7. ASSUME NEW p \in Deliveries, NEW event \in Online!Sent, Online!Receive(p, event) PROVE Booked'
  BY <1>0, <1>7, SameBooks DEF Online!Receive
<1>8. ASSUME NEW p \in Deliveries, Online!Refused(p) PROVE Booked'
  BY <1>0, <1>8, SameBooks DEF Online!Refused
<1>9. ASSUME NEW p \in OnlineProcs, Online!Fails(p) PROVE Booked'
  BY <1>0, <1>9, SameBooks DEF Online!Fails
<1>10. ASSUME NEW p \in Deliveries, Online!PaymentLinkPaid(p) PROVE Booked'
  <2>1. PICK n \in pCollected : pTask[p].event = Online!Paid(n) /\ Online!LinkOf(pTask[p].event) = n
    BY <1>0, <1>10, WebhookTask DEF Online!PaymentLinkPaid, Online!Handles, Online!LinkOf
  <2> DEFINE pay == [amount |-> pLinks[n].amount, alloc |-> pTask[p].amount]
  <2>2. /\ pPayment' = [pPayment EXCEPT ![n] = pay]
        /\ pLinks' = [pLinks EXCEPT ![n].status = "paid"] /\ pSeen' = pSeen \cup {Online!Paid(n)}
        /\ UNCHANGED <<pDoc, pRefunds, pLost>> /\ pTask[p].op = "webhook"
             /\ pTask[p].amount <= Online!Outstanding
    BY <1>10, <2>1 DEF Online!PaymentLinkPaid, Online!Handled, Online!Handles
  <2>3. /\ DOMAIN pLinks' = DOMAIN pLinks /\ DOMAIN pPayment = DOMAIN pLinks
             /\ DOMAIN pPayment' = DOMAIN pPayment /\ n \in DOMAIN pLinks
        /\ \A m \in DOMAIN pLinks : pLinks[m].amount \in 1 .. Total /\ pLinks'[m].amount = pLinks[m].amount
    <3>1. \A m \in DOMAIN pLinks : pLinks[m] \in Link
      BY <1>0, OnlineShape
    <3> QED BY <1>0, <2>2, <3>1, OnlineShape DEF Link
  <2>4. pay.alloc = pTask[p].amount /\ pay.amount = pLinks[n].amount
    OBVIOUS
  <2> HIDE DEF pay
  <2>5. Online!InvoiceNotOverpaid'
    <3>1. Online!AmountPaid' = Online!AmountPaid - pPayment[n].alloc + pay.alloc
      BY <1>0, <2>2, <2>3, PaidChanges
    <3>2. Online!AmountPaid \in Nat /\ pPayment[n].alloc \in Nat
      BY <1>0, <2>3, AllocSums
    <3>3. pTask[p].amount \in Nat
      BY <1>0, <2>2, WebhookTask DEF OnlineBounded
    <3>4. pDoc' = pDoc
      BY <2>2
    <3> QED BY <1>0, <2>2, <2>4, <3>1, <3>2, <3>3, <3>4 DEF Online!InvoiceNotOverpaid, Online!Outstanding,
        OnlineBounded
  <2>6. Online!Paid(n) \notin pSeen /\ NotHeardOf(n)
    BY <1>0, <2>1, <2>2, <2>3, WebhookTask DEF NotYetOnBooks
  <2>7. \A m : Online!Paid(m) \in pSeen' <=> Online!Paid(m) \in pSeen \/ m = n
    BY <2>2, EventsDiffer
  <2>8. \A i : Online!Refunded(i) \in pSeen' <=> Online!Refunded(i) \in pSeen
    BY <2>2, EventsDiffer
  <2>9. OnRecord' = OnRecord /\ OnRecord \subseteq DOMAIN pRefunds
    BY <2>2, <2>8 DEF OnRecord, Online!Refunded
  <2>10. \A m, W : Online!RefundedOf(m, W)' = Online!RefundedOf(m, W)
    BY <2>2, OnlineSum DEF Online!RefundedOf
  <2>11. RefundsFit'
    BY <1>0, <2>2, <2>3, <2>10 DEF RefundsFit
  <2>12. Online!BooksFollowGateway'
    <3> SUFFICES ASSUME NEW m \in DOMAIN pLinks, Online!Paid(m) \in pSeen'
                 PROVE  pPayment'[m].amount + Online!RefundedOf(m, OnRecord) = pLinks[m].amount
      BY <2>2, <2>3, <2>9, <2>10 DEF Online!BooksFollowGateway, OnRecord, Online!Paid, Online!Refunded
    <3>1. CASE m # n
      BY <1>0, <2>2, <2>3, <2>7, <3>1 DEF Online!BooksFollowGateway, OnRecord
    <3>2. CASE m = n
      <4> DEFINE f == [i \in DOMAIN pRefunds |-> pRefunds[i].amount]
      <4>1. {i \in OnRecord : pRefunds[i].link = n} = {}
        BY <2>6 DEF OnRecord, NotHeardOf
      <4>2. f \in [DOMAIN pRefunds -> Int]
        BY <1>0, RefundSums
      <4>3. Online!RefundedOf(n, OnRecord) = SumFunctionOnSet(f, {})
        BY <4>1, OnlineSum DEF Online!RefundedOf
      <4> HIDE DEF f
      <4>4. Online!RefundedOf(n, OnRecord) = 0
        BY <4>2, <4>3, SumOfNone
      <4>5. pPayment'[n] = pay
        BY <2>2, <2>3
      <4>6. pLinks[n].amount \in Int
        BY <2>3 DEF OnlineBounded
      <4> QED BY <2>4, <3>2, <4>4, <4>5, <4>6
    <3> QED BY <3>1, <3>2
  <2>13. NotYetOnBooks'
    <3> SUFFICES ASSUME NEW m \in DOMAIN pLinks, Online!Paid(m) \notin pSeen' PROVE NotHeardOf(m)'
      BY <2>3 DEF NotYetOnBooks, Online!Paid
    <3>1. NotHeardOf(m) /\ m # n
      BY <1>0, <2>7 DEF NotYetOnBooks
    <3> QED BY <2>2, <2>3, <2>8, <3>1 DEF NotHeardOf, Online!Refunded
  <2>14. LostWasHandled'
    BY <1>0, <2>2, <2>8 DEF LostWasHandled, Online!Refunded
  <2> QED BY <2>5, <2>11, <2>12, <2>13, <2>14 DEF Booked
<1>11. ASSUME NEW p \in Deliveries, Online!RefundProcessed(p) PROVE Booked'
  <2>1. PICK i \in DOMAIN pRefunds : pTask[p].event = Online!Refunded(i) /\ pTask[p].event[2] = i
    BY <1>0, <1>11, WebhookTask DEF Online!RefundProcessed, Online!Handles
  <2> DEFINE n == pRefunds[i].link
  <2>2. /\ IF pTask[p].amount = 0 THEN pLost' = pLost \cup {i} /\ UNCHANGED pPayment
           ELSE pPayment' = [pPayment EXCEPT ![n] = Online!Shrunk(@, pRefunds[i].amount)] /\ UNCHANGED pLost
        /\ pSeen' = pSeen \cup {Online!Refunded(i)} /\ UNCHANGED <<pDoc, pLinks, pRefunds>>
             /\ pTask[p].op = "webhook"
    BY <1>11, <2>1 DEF Online!RefundProcessed, Online!Handled, Online!Handles
  <2>3. /\ n \in DOMAIN pLinks /\ pRefunds[i].amount \in 1 .. Total /\ DOMAIN pPayment = DOMAIN pLinks
        /\ \A m \in DOMAIN pLinks : pLinks[m].amount \in Int
    BY <1>0, OnlineShape DEF Link, OnlineBounded
  <2>4. Online!Refunded(i) \notin pSeen
    BY <1>0, <2>1, <2>2, WebhookTask
  <2>5. \A m : Online!Paid(m) \in pSeen' <=> Online!Paid(m) \in pSeen
    BY <2>2, EventsDiffer
  <2>6. \A k : Online!Refunded(k) \in pSeen' <=> Online!Refunded(k) \in pSeen \/ k = i
    BY <2>2, EventsDiffer
  <2>7. \A m, W : Online!RefundedOf(m, W)' = Online!RefundedOf(m, W)
    BY <2>2, OnlineSum DEF Online!RefundedOf
  <2>8. RefundsFit'
    BY <1>0, <2>2, <2>7 DEF RefundsFit
  <2>9. CASE pTask[p].amount = 0
    <3>1. pLost' = pLost \cup {i} /\ pPayment' = pPayment
      BY <2>2, <2>9
    <3>2. OnRecord' = OnRecord
      BY <2>2, <2>4, <2>6, <3>1 DEF OnRecord, Online!Refunded
    <3>3. Online!InvoiceNotOverpaid'
      <4>1. Online!AmountPaid' = Online!AmountPaid
        BY <3>1, OnlineSum DEF Online!AmountPaid
      <4> QED BY <1>0, <2>2, <4>1 DEF Online!InvoiceNotOverpaid
    <3>4. Online!BooksFollowGateway'
      <4> SUFFICES ASSUME NEW m \in DOMAIN pLinks, Online!Paid(m) \in pSeen
                   PROVE  pPayment[m].amount + Online!RefundedOf(m, OnRecord) = pLinks[m].amount
        BY <2>2, <2>5, <2>7, <3>1, <3>2 DEF Online!BooksFollowGateway, OnRecord, Online!Paid, Online!Refunded
      <4> QED BY <1>0 DEF Online!BooksFollowGateway, OnRecord
    <3>5. NotYetOnBooks'
      BY <1>0, <2>2, <2>5, <2>6, <3>1 DEF NotYetOnBooks, NotHeardOf, Online!Paid, Online!Refunded
    <3>6. LostWasHandled'
      BY <1>0, <2>2, <2>6, <3>1 DEF LostWasHandled, Online!Refunded
    <3> QED BY <2>8, <3>3, <3>4, <3>5, <3>6 DEF Booked
  <2>10. CASE pTask[p].amount # 0
    <3> DEFINE pay == Online!Shrunk(pPayment[n], pRefunds[i].amount)
    <3>1. pLost' = pLost /\ pPayment' = [pPayment EXCEPT ![n] = pay]
      BY <2>2, <2>10
    <3>2. pPayment[n].amount > 0
      <4>1. pTask[p].amount \in 0 .. Total
        BY <1>0, <2>2, WebhookTask
      <4>2. Found(p, i)
        BY <2>1, <2>2, <2>10, <4>1 DEF Found, HandlesEvent, OnlineBounded
      <4> QED BY <1>0, <4>2 DEF Taking, FoundIsThere
    <3>3. Online!Paid(n) \in pSeen
      BY <1>0, <2>3, <3>2 DEF NotYetOnBooks, NotHeardOf, Online!NoPayment
    <3>4. i \notin pLost /\ i \notin OnRecord /\ OnRecord \subseteq DOMAIN pRefunds
            /\ OnRecord' = OnRecord \cup {i}
      BY <1>0, <2>2, <2>4, <2>6, <3>1 DEF OnRecord, LostWasHandled, Online!Refunded
    <3>5. /\ Online!RefundedOf(n, OnRecord \cup {i}) = Online!RefundedOf(n, OnRecord) + pRefunds[i].amount
          /\ \A m : m # n => Online!RefundedOf(m, OnRecord \cup {i}) = Online!RefundedOf(m, OnRecord)
          /\ Online!RefundedOf(n, OnRecord) + pRefunds[i].amount <= Online!RefundedOf(n, DOMAIN pRefunds)
      BY <1>0, <3>4, RefundsLeft
    <3>6. /\ Online!RefundedOf(n, OnRecord) \in Int /\ Online!RefundedOf(n, DOMAIN pRefunds) \in Int
               /\ pRefunds[i].amount \in Nat
          /\ pLinks[n].amount \in Int
          /\ pPayment[n].amount \in Nat /\ pPayment[n].alloc \in Nat /\ pPayment[n].alloc <= pPayment[n].amount
      BY <1>0, <2>3, <3>4, RefundSums, AllocSums
    <3>7. pPayment[n].amount + Online!RefundedOf(n, OnRecord) = pLinks[n].amount
            /\ Online!RefundedOf(n, DOMAIN pRefunds) <= pLinks[n].amount
      BY <1>0, <2>3, <3>3 DEF Online!BooksFollowGateway, RefundsFit, OnRecord
    <3>8. pRefunds[i].amount <= pPayment[n].amount
      <4> DEFINE a == Online!RefundedOf(n, OnRecord)
                 b == Online!RefundedOf(n, DOMAIN pRefunds)
                 c == pPayment[n].amount
                 d == pLinks[n].amount
                 e == pRefunds[i].amount
      <4>1. a \in Int /\ b \in Int /\ c \in Int /\ d \in Int /\ e \in Int /\ a + e <= b /\ c + a = d /\ b <= d
        BY <3>5, <3>6, <3>7
      <4> HIDE DEF a, b, c, d, e
      <4>2. e <= c
        BY <4>1
      <4> QED BY <4>2 DEF c, e
    <3>9. pay.amount = pPayment[n].amount - pRefunds[i].amount /\ pay.alloc <= pPayment[n].alloc
            /\ pay.alloc \in Nat
      BY <3>6, <3>8 DEF Online!Shrunk, Online!NoPayment, Online!Least
    <3> HIDE DEF pay
    <3>10. Online!InvoiceNotOverpaid'
      <4>1. Online!AmountPaid' = Online!AmountPaid - pPayment[n].alloc + pay.alloc
        BY <1>0, <2>3, <3>1, PaidChanges
      <4>2. Online!AmountPaid \in Nat
        BY <1>0, AllocSums
      <4>3. pDoc' = pDoc
        BY <2>2
      <4> QED BY <1>0, <3>6, <3>9, <4>1, <4>2, <4>3 DEF Online!InvoiceNotOverpaid, OnlineBounded
    <3>11. Online!BooksFollowGateway'
      <4> SUFFICES ASSUME NEW m \in DOMAIN pLinks, Online!Paid(m) \in pSeen
                   PROVE  pPayment'[m].amount + Online!RefundedOf(m, OnRecord \cup {i}) = pLinks[m].amount
        BY <2>2, <2>5, <2>7, <3>4 DEF Online!BooksFollowGateway, OnRecord, Online!Paid, Online!Refunded
      <4>1. CASE m # n
        <5>1. pPayment'[m] = pPayment[m]
          BY <2>3, <3>1, <4>1
        <5>2. Online!RefundedOf(m, OnRecord \cup {i}) = Online!RefundedOf(m, OnRecord)
          BY <3>5, <4>1
        <5> QED BY <1>0, <5>1, <5>2 DEF Online!BooksFollowGateway, OnRecord
      <4>2. CASE m = n
        <5>1. pPayment'[n] = pay
          BY <2>3, <3>1
        <5>2. pPayment'[n].amount + Online!RefundedOf(n, OnRecord \cup {i}) = pLinks[n].amount
          <6> DEFINE a == Online!RefundedOf(n, OnRecord)
                     b == Online!RefundedOf(n, OnRecord \cup {i})
                     c == pPayment[n].amount
                     d == pLinks[n].amount
                     e == pRefunds[i].amount
          <6>1. a \in Int /\ c \in Int /\ e \in Int /\ b = a + e /\ c + a = d /\ pPayment'[n].amount = c - e
            BY <3>5, <3>6, <3>7, <3>9, <5>1
          <6> HIDE DEF a, b, c, d, e
          <6>2. pPayment'[n].amount + b = d
            BY <6>1
          <6> QED BY <6>2 DEF b, d
        <5> QED BY <4>2, <5>2
      <4> QED BY <4>1, <4>2
    <3>12. NotYetOnBooks'
      <4> SUFFICES ASSUME NEW m \in DOMAIN pLinks, Online!Paid(m) \notin pSeen PROVE NotHeardOf(m)'
        BY <2>2, <2>5 DEF NotYetOnBooks, Online!Paid
      <4>1. NotHeardOf(m) /\ m # n
        BY <1>0, <3>3 DEF NotYetOnBooks
      <4> QED BY <2>2, <2>3, <2>6, <3>1, <4>1 DEF NotHeardOf, Online!Refunded
    <3>13. LostWasHandled'
      BY <1>0, <2>2, <2>6, <3>1 DEF LostWasHandled, Online!Refunded
    <3> QED BY <2>8, <3>10, <3>11, <3>12, <3>13 DEF Booked
  <2> QED BY <2>9, <2>10
<1> QED BY <1>1, <1>2, <1>3, <1>4, <1>5, <1>6, <1>7, <1>8, <1>9, <1>10, <1>11 DEF Online!Next, Online!Finish,
    OnlineProcs

LEMMA OnlineStart == OnlineBounded /\ Online!Init => OnlineInv
<1> SUFFICES ASSUME OnlineBounded, Online!Init PROVE OnlineInv
  OBVIOUS
<1>1. /\ pDoc = "open" /\ pLinks = <<>> /\ pPayment = <<>> /\ pCollected = {} /\ pRefunds = <<>> /\ pSeen = {}
           /\ pLost = {}
      /\ pTask = [p \in LinkRequests \cup Deliveries |-> Online!Idle] /\ pEvents = 0
  BY DEF Online!Init
<1>2. Online!TypeOK
  BY <1>1 DEF Online!TypeOK, Online!Idle, OnlineBounded
<1>3. Taking
  BY <1>1 DEF Taking, MintsSome, UnderWay, HandledOnce, NeedsNoMore, FoundIsThere, FoundByOne, HandlesOne,
      HandlesEvent, Found, Online!Idle
<1>4. Online!AmountPaid = 0
  <2> DEFINE f == [n \in DOMAIN pPayment |-> pPayment[n].alloc]
  <2>1. DOMAIN pPayment = {} /\ f \in [{} -> Int]
    BY <1>1
  <2>2. Online!AmountPaid = SumFunctionOnSet(f, {})
    BY <2>1, OnlineSum DEF Online!AmountPaid
  <2> HIDE DEF f
  <2> QED BY <2>1, <2>2, SumOfNone
<1>5. Booked
  BY <1>1, <1>4 DEF Booked, Online!InvoiceNotOverpaid, Online!BooksFollowGateway, NotYetOnBooks, RefundsFit,
      LostWasHandled, OnlineBounded
<1> QED BY <1>2, <1>3, <1>5 DEF OnlineInv

LEMMA OnlineKept == OnlineBounded /\ OnlineInv /\ [Online!Next]_Online!vars => OnlineInv'
  BY OnlineTypesKept, TakingKept, BookedKept DEF OnlineInv

LEMMA OnlineAlways == AllSpec => []OnlineInv
<1>1. AllInit => OnlineInv
  BY PartsAssumption, OnlineStart DEF AllInit, OnlineBounded
<1>2. OnlineInv /\ [AllNext]_<<focus, idem, jobs, gst, billing, online, filing>> => OnlineInv'
  <2>1. [AllNext]_<<focus, idem, jobs, gst, billing, online, filing>> => [Online!Next]_Online!vars
    BY DEF AllNext, online, Online!vars
  <2> QED BY PartsAssumption, <2>1, OnlineKept DEF OnlineBounded
<1> QED BY <1>1, <1>2, PTL DEF AllSpec

(* What was paid online is on the books once, and settles the invoice for no more than it needs, for any *)
(* amounts, links, refunds and webhooks, in any order (paymentLinkFor, paymentLinkPaid, refundProcessed).  *)
THEOREM PaidOnlineIsOnBooks == AllSpec => []BooksAgreeWithGateway
<1>1. OnlineInv => BooksAgreeWithGateway
  BY DEF OnlineInv, Booked, BooksAgreeWithGateway, Online!BooksAgreeWithGateway
<1> QED BY <1>1, OnlineAlways, PTL

-----------------------------------------------------------------------------
(* Compliance: its invariant is read first of the calls, then of the IRN, then of the bills. *)

Bounded == MaxAttempts \in Nat \ {0} /\ MaxPortalEvents \in Nat

(* The types of Gst!TypeOK, by name. *)
Status == {"pending", "settled", "failed"}
States == {"none", "active", "cancelled"}
Stages == {"idle", "claimed", "asked", "checked", "ready", "answered", "looking", "found"}
AttemptRow == [op : Gst!Ops, status : Status, age : {"fresh", "due", "old"},
             checked : BOOLEAN]
Bill == [status : {"active", "cancelled"}, attempt : Nat]
AnswerRow == [is : {"none", "ok", "refused", "unanswered"}, bill : Nat]
TaskRow ==
  [op : Gst!Ops \cup {"irn.generate", "none"}, st : Stages, attempt : Nat, answer : AnswerRow, old : BOOLEAN]
EInvoice == [status : {"none", "pending", "generated", "failed", "cancelled"}, overdue : BOOLEAN]
Request == [op : Gst!Ops \cup {"irn.generate"}, attempt : Nat]
HereTyped == gDoc \in {"final", "cancelled"} /\ gEinvoice \in EInvoice
RowsTyped == gRows \in [Gst!Bills -> States] /\ gCurrent \in {0} \cup Gst!Bills
PortalTyped == gPortalIrn \in States /\ gPortalBills \in Seq(Bill) /\ gWire \subseteq Request
FlagsTyped == gAdopted \in BOOLEAN /\ gUnsure \in BOOLEAN /\ gOverlapped \in BOOLEAN /\ gEvents \in Nat
Typed ==
  /\ HereTyped /\ RowsTyped /\ gAttempts \in Seq(AttemptRow)
  /\ PortalTyped /\ gTask \in [Gst!Procs -> TaskRow] /\ FlagsTyped

(* The portal has done nothing for attempt i, and nothing of it is on its way. *)
Unheard(i) == (\A n \in DOMAIN gPortalBills : gPortalBills[n].attempt # i) /\ \A m \in gWire : m.attempt # i
ReadyFor(i) == \E p \in Gst!Procs : gTask[p].st = "ready" /\ gTask[p].attempt = i
InCall(p) == gTask[p].st \in {"ready", "answered"} /\ gTask[p].attempt # 0
IsOf(i, op) == i \in DOMAIN gAttempts /\ gAttempts[i].op = op
Open_(i) == gAttempts[i].status = "pending"

(* The calls.  A task says how far it is, and for which attempt. *)
AttemptsFit == Len(gAttempts) <= MaxAttempts
TasksAreWhole ==
  \A p \in Gst!Procs :
    \/ gTask[p] = Gst!Idle
    \/ gTask[p].op \in Gst!Ops /\ gTask[p].st \in {"asked", "checked"} /\ gTask[p].attempt = 0
    \/ gTask[p].op = "irn.generate" /\ gTask[p].st \in {"claimed", "ready", "answered"} /\ gTask[p].attempt = 0
    \/ /\ gTask[p].op \in Gst!Ops /\ gTask[p].st \in {"ready", "answered", "looking"}
       /\ IsOf(gTask[p].attempt, gTask[p].op)
    \/ /\ gTask[p].op = "ewb.generate" /\ gTask[p].st = "found" /\ gTask[p].answer.is = "ok"
       /\ IsOf(gTask[p].attempt, gTask[p].op)
(* What the portal answered is so. *)
AnswerIsTrue(t) ==
  /\ t.answer.is \in {"ok", "refused", "unanswered"}
  /\ t.op = "ewb.generate" /\ t.answer.is = "ok" =>
       /\ t.answer.bill \in DOMAIN gPortalBills
       /\ t.st = "answered" => gPortalBills[t.answer.bill].attempt = t.attempt
  /\ t.op = "irn.cancel" /\ t.answer.is = "ok" => gPortalIrn = "cancelled"
  /\ t.op \in Gst!Ops /\ t.answer.is = "refused" => Unheard(t.attempt)
AnswersAreTrue == \A p \in Gst!Procs : gTask[p].st \in {"answered", "found"} => AnswerIsTrue(gTask[p])
(* Each attempt is called for once: by one request, before anything was heard of it. *)
CallsAreSingle == \A p, q \in Gst!Procs : InCall(p) /\ InCall(q) /\ gTask[p].attempt = gTask[q].attempt => p = q
ReadyIsUnheard == \A p \in Gst!Procs : InCall(p) /\ gTask[p].st = "ready" => Unheard(gTask[p].attempt)
WireIsOut ==
  \A m \in gWire :
    \/ m.op = "irn.generate" /\ m.attempt = 0
    \/ /\ m.op \in Gst!Ops /\ IsOf(m.attempt, m.op)
       /\ \A n \in DOMAIN gPortalBills : gPortalBills[n].attempt # m.attempt
       /\ \A p \in Gst!Procs : InCall(p) /\ gTask[p].attempt = m.attempt => gTask[p].answer.is = "unanswered"
BillsAreRaised ==
  /\ \A n \in DOMAIN gPortalBills : IsOf(gPortalBills[n].attempt, "ewb.generate")
  /\ \A n, k \in DOMAIN gPortalBills : gPortalBills[n].attempt = gPortalBills[k].attempt => n = k
(* Of what is half an hour old nothing is on its way. *)
Old(i) ==
  \/ Open_(i) /\ gAttempts[i].age = "old"
  \/ \E p \in Gst!Procs : gTask[p].st = "looking" /\ gTask[p].old /\ gTask[p].attempt = i
OldIsQuiet == \A i \in DOMAIN gAttempts : Old(i) => ~ReadyFor(i) /\ \A m \in gWire : m.attempt # i
PendingOnce == \A i, j \in DOMAIN gAttempts : Open_(i) /\ Open_(j) /\ gAttempts[i].op = gAttempts[j].op => i = j
CallsInv ==
  /\ AttemptsFit /\ TasksAreWhole /\ AnswersAreTrue /\ CallsAreSingle /\ ReadyIsUnheard
  /\ WireIsOut /\ BillsAreRaised /\ OldIsQuiet /\ PendingOnce

(* The IRN.  Until it is cancelled there one request at a time asks for it, the row says so, and a cancel *)
(* is asked for only of one that is live here. *)
Generates(p) == gTask[p].op = "irn.generate"
Generated(p) == Generates(p) /\ gTask[p].st = "answered" /\ gTask[p].answer.is = "ok"
NotYet == gPortalIrn = "none" => gEinvoice.status # "generated" /\ \A p \in Gst!Procs : ~Generated(p)
OneGenerates ==
  gPortalIrn # "cancelled" =>
    \A p \in Gst!Procs : Generates(p) =>
      /\ gEinvoice = [status |-> "pending", overdue |-> FALSE]
      /\ \A q \in Gst!Procs : Generates(q) => p = q
CancelsWhatIsThere ==
  gPortalIrn # "cancelled" /\ gEinvoice.status # "generated" =>
    /\ \A i \in DOMAIN gAttempts : gAttempts[i].op # "irn.cancel"
    /\ \A p \in Gst!Procs : ~Gst!At(p, "irn.cancel", "checked")
CancelIsOpen ==
  gPortalIrn # "cancelled" =>
    \A i \in DOMAIN gAttempts : gAttempts[i].op = "irn.cancel" =>
      /\ ReadyFor(i) => Open_(i)
      /\ (\E m \in gWire : m.attempt = i) => Open_(i) \/ gUnsure
AdoptedIsKnown == gPortalIrn = "cancelled" /\ ~gAdopted => \A p \in Gst!Procs : ~Generated(p)
(* The attempt whose call has cancelled it is open until the row says so. *)
Sent(i) ==
  \A p \in Gst!Procs : gTask[p].attempt = i =>
    gTask[p].st # "ready" /\ ~(gTask[p].st = "answered" /\ gTask[p].answer.is = "refused")
CancelIsSettled ==
  gEinvoice.status = "generated" /\ gPortalIrn = "cancelled" /\ ~gAdopted /\ ~gUnsure =>
    \E i \in DOMAIN gAttempts : gAttempts[i].op = "irn.cancel" /\ Open_(i) /\ Sent(i)
IrnInv == NotYet /\ OneGenerates /\ CancelsWhatIsThere /\ CancelIsOpen /\ AdoptedIsKnown /\ CancelIsSettled

(* The bills.  What failed was not done; a bill that is not recorded has its attempt open, and a recorded *)
(* one that is live is the current one; while one is live here no other attempt is open. *)
RowsAreBills ==
  /\ \A n \in Gst!Bills : gRows[n] # "none" => n \in DOMAIN gPortalBills
  /\ gCurrent # 0 => gCurrent \in DOMAIN gPortalBills
FailedIsQuiet ==
  \A i \in DOMAIN gAttempts :
    gAttempts[i].op = "ewb.generate" /\ gAttempts[i].status = "failed" /\ ~gUnsure => ~ReadyFor(i) /\ Unheard(i)
Orderly == ~gOverlapped /\ ~gUnsure
BillIsOpen ==
  Orderly =>
    \A i \in DOMAIN gAttempts :
      gAttempts[i].op = "ewb.generate" /\ (ReadyFor(i) \/ \E m \in gWire : m.attempt = i) => Open_(i)
RecordedOrOpen ==
  Orderly =>
    \A n \in DOMAIN gPortalBills :
      IF gRows[n] = "none" THEN Open_(gPortalBills[n].attempt)
      ELSE gPortalBills[n].status = "active" => gCurrent = n /\ gRows[n] = "active"
LiveIsOpen ==
  Orderly /\ Gst!LiveBill =>
    \A i \in DOMAIN gAttempts :
      gAttempts[i].op = "ewb.generate" /\ Open_(i) => gPortalBills[gCurrent].attempt = i
BillInv == RowsAreBills /\ FailedIsQuiet /\ BillIsOpen /\ RecordedOrOpen /\ LiveIsOpen

PortalInv == Gst!TypeOK /\ CallsInv /\ IrnInv /\ BillInv

(* What the steps do, field by field. *)
Others(p) == \A q \in Gst!Procs : q # p => gTask'[q] = gTask[q]
Became(p, st, attempt, reply) ==
  /\ gTask'[p].op = gTask[p].op /\ gTask'[p].old = gTask[p].old
  /\ gTask'[p].st = st /\ gTask'[p].attempt = attempt /\ gTask'[p].answer = reply
  /\ Others(p)
IsMarked(i, status) ==
  /\ DOMAIN gAttempts' = DOMAIN gAttempts /\ Len(gAttempts') = Len(gAttempts)
  /\ \A k \in DOMAIN gAttempts : k # i => gAttempts'[k] = gAttempts[k]
  /\ i \in DOMAIN gAttempts => gAttempts'[i].op = gAttempts[i].op /\ gAttempts'[i].status = status
IsAdded(i, op) ==
  /\ i \notin DOMAIN gAttempts /\ i # 0 /\ DOMAIN gAttempts' = DOMAIN gAttempts \cup {i} /\ Len(gAttempts') = i
  /\ \A k \in DOMAIN gAttempts : gAttempts'[k] = gAttempts[k]
  /\ gAttempts'[i].op = op /\ gAttempts'[i].status = "pending" /\ gAttempts'[i].age = "fresh"
IsRaised(n, a) ==
  /\ n \notin DOMAIN gPortalBills /\ n # 0 /\ Len(gPortalBills') = n
  /\ DOMAIN gPortalBills' = DOMAIN gPortalBills \cup {n}
  /\ \A k \in DOMAIN gPortalBills : gPortalBills'[k] = gPortalBills[k]
  /\ gPortalBills'[n].attempt = a /\ gPortalBills'[n].status = "active"
(* The portal has carried it out. *)
Did(op, a) ==
  /\ gPortalIrn' = CASE op = "irn.generate" /\ gPortalIrn = "none" -> "active"
                     [] op = "irn.cancel" /\ gPortalIrn = "active" -> "cancelled"
                     [] OTHER -> gPortalIrn
  /\ IF op = "ewb.generate" THEN IsRaised(Len(gPortalBills) + 1, a) ELSE UNCHANGED gPortalBills
CallDone(p, a) ==
  /\ Did(gTask[p].op, gTask[p].attempt) /\ UNCHANGED gWire
  /\ a.is \in {"ok", "unanswered"} /\ (gAdopted => gAdopted')
  /\ a.is = "ok" =>
       /\ gTask[p].op = "irn.cancel" => gPortalIrn = "active"
       /\ gTask[p].op = "irn.generate" /\ gPortalIrn = "cancelled" => gAdopted'
       /\ gTask[p].op = "ewb.generate" => a.bill = Len(gPortalBills')
CallInVain(p, a) ==
  /\ UNCHANGED <<gPortalIrn, gPortalBills, gAdopted>>
  /\ \/ a.is = "refused" /\ UNCHANGED gWire
     \/ a.is = "unanswered" /\ gWire' \in {gWire, gWire \cup {[op |-> gTask[p].op, attempt |-> gTask[p].attempt]}}

LEMMA Shape == ASSUME Gst!TypeOK PROVE
   /\ DOMAIN gAttempts = 1 .. Len(gAttempts) /\ Len(gAttempts) \in Nat
   /\ DOMAIN gPortalBills = 1 .. Len(gPortalBills) /\ Len(gPortalBills) \in Nat
   /\ \A i \in DOMAIN gAttempts : gAttempts[i] \in AttemptRow
   /\ \A i \in DOMAIN gPortalBills : gPortalBills[i] \in Bill
   /\ DOMAIN gTask = Gst!Procs
<1>1. gAttempts \in Seq(AttemptRow) /\ gPortalBills \in Seq(Bill)
  BY DEF Gst!TypeOK, AttemptRow, Bill, Status
<1>2. DOMAIN gTask = Gst!Procs
  BY DEF Gst!TypeOK
<1> QED BY <1>1, <1>2

LEMMA EndsIdle == ASSUME Gst!TypeOK, NEW p \in Gst!Procs, Gst!Ends(p) PROVE gTask'[p] = Gst!Idle /\ Others(p)
  BY Shape DEF Gst!Ends, Others, Gst!TypeOK

LEMMA Gone ==
  ASSUME Gst!TypeOK, NEW p \in Gst!Procs, NEW st, Gst!Goes(p, st)
  PROVE Became(p, st, gTask[p].attempt, gTask[p].answer)
  BY DEF Gst!Goes, Others, Gst!TypeOK, Became

LEMMA WasAnswered ==
  ASSUME Gst!TypeOK, NEW p \in Gst!Procs, NEW a, Gst!Answered(p, a)
  PROVE Became(p, "answered", gTask[p].attempt, a)
  BY DEF Gst!Answered, Others, Gst!TypeOK, Became

LEMMA WasMarked ==
  ASSUME Gst!TypeOK, TasksAreWhole, NEW p \in Gst!Procs, NEW s, Gst!Marked(p, s),
         IsOf(gTask[p].attempt, gTask[p].op)
  PROVE IsMarked(gTask[p].attempt, s)
<1> DEFINE r == [op |-> gTask[p].op, status |-> s, age |-> "fresh", checked |-> FALSE]
           i == gTask[p].attempt
<1>1. gAttempts' = [gAttempts EXCEPT ![i] = r] /\ i \in DOMAIN gAttempts /\ r.op = gAttempts[i].op
        /\ r.status = s
  BY DEF Gst!Marked, IsOf
<1>2. gAttempts \in Seq(AttemptRow)
  BY DEF Gst!TypeOK, AttemptRow, Status
<1> HIDE DEF r, i
<1>3. DOMAIN gAttempts' = DOMAIN gAttempts /\ Len(gAttempts') = Len(gAttempts)
  BY <1>1, <1>2
<1>4. gAttempts'[i] = r /\ \A k \in DOMAIN gAttempts : k # i => gAttempts'[k] = gAttempts[k]
  BY <1>1, <1>2
<1> QED BY <1>1, <1>3, <1>4 DEF IsMarked, i

LEMMA WasOpened == ASSUME Gst!TypeOK, NEW p \in Gst!Procs, Gst!Opened(p) PROVE
   /\ Became(p, "ready", Len(gAttempts) + 1, gTask[p].answer) /\ IsAdded(Len(gAttempts) + 1, gTask[p].op)
<1> DEFINE r == [op |-> gTask[p].op, status |-> "pending", age |-> "fresh", checked |-> FALSE]
<1>2. gAttempts \in Seq(AttemptRow)
  BY DEF Gst!TypeOK, AttemptRow, Status
<1>3. r \in [op : Gst!Ops \cup {"none", "irn.generate"}, status : Status, age : {"fresh", "due", "old"},
             checked : BOOLEAN]
  BY DEF Gst!TypeOK, Status
<1>4. gAttempts' = Append(gAttempts, r)
  BY DEF Gst!Opened
<1>5. r.op = gTask[p].op /\ r.status = "pending" /\ r.age = "fresh"
  OBVIOUS
<1> HIDE DEF r
<1>6. Len(gAttempts') = Len(gAttempts) + 1 /\ gAttempts'[Len(gAttempts) + 1] = r
        /\ \A k \in DOMAIN gAttempts : gAttempts'[k] = gAttempts[k]
  BY <1>2, <1>4
<1>7. DOMAIN gAttempts' = DOMAIN gAttempts \cup {Len(gAttempts) + 1}
        /\ Len(gAttempts) + 1 \notin DOMAIN gAttempts /\ Len(gAttempts) + 1 # 0
  BY <1>2, <1>4, Shape
<1>8. Became(p, "ready", Len(gAttempts) + 1, gTask[p].answer)
  <2>1. gTask' = [gTask EXCEPT ![p] = [gTask[p] EXCEPT !.st = "ready", !.attempt = Len(gAttempts) + 1]]
    BY <1>6 DEF Gst!Opened, Gst!TypeOK
  <2> QED BY <2>1 DEF Gst!TypeOK, Became, Others
<1> QED BY <1>5, <1>6, <1>7, <1>8 DEF IsAdded

LEMMA WasRaised == ASSUME Gst!TypeOK, NEW a \in Nat, Gst!Raise(a) PROVE IsRaised(Len(gPortalBills) + 1, a)
<1> DEFINE r == [status |-> "active", attempt |-> a]
<1>1. gPortalBills \in Seq(Bill) /\ r \in Bill /\ gPortalBills' = Append(gPortalBills, r) /\ r.attempt = a
        /\ r.status = "active"
  BY DEF Gst!Raise, Gst!TypeOK, Bill
<1> HIDE DEF r
<1>2. Len(gPortalBills') = Len(gPortalBills) + 1 /\ gPortalBills'[Len(gPortalBills) + 1] = r
        /\ \A k \in DOMAIN gPortalBills : gPortalBills'[k] = gPortalBills[k]
  BY <1>1
<1>3. DOMAIN gPortalBills' = DOMAIN gPortalBills \cup {Len(gPortalBills) + 1}
        /\ Len(gPortalBills) + 1 \notin DOMAIN gPortalBills /\ Len(gPortalBills) + 1 # 0
  BY <1>1, Shape
<1> QED BY <1>1, <1>2, <1>3 DEF IsRaised

LEMMA EndKeepsCalls == ASSUME PortalInv, NEW p \in Gst!Procs, gTask'[p] = Gst!Idle, Others(p), UNCHANGED Gst!portal,
    UNCHANGED gAttempts \/ \E s \in {"settled", "failed"} : IsMarked(gTask[p].attempt, s)
  PROVE  CallsInv'
<1> USE DEF PortalInv, CallsInv
<1>0. /\ gPortalBills' = gPortalBills /\ gWire' = gWire /\ gPortalIrn' = gPortalIrn
      /\ DOMAIN gAttempts' = DOMAIN gAttempts /\ Len(gAttempts') = Len(gAttempts)
      /\ \A k \in DOMAIN gAttempts : gAttempts'[k].op = gAttempts[k].op
      /\ \A k \in DOMAIN gAttempts : gAttempts'[k] = gAttempts[k] \/ ~Open_(k)'
  BY DEF Gst!portal, IsMarked, Open_
<1>1. AttemptsFit' BY <1>0 DEF AttemptsFit
<1>2. TasksAreWhole' /\ AnswersAreTrue' /\ CallsAreSingle' /\ ReadyIsUnheard'
  BY <1>0 DEF TasksAreWhole, AnswersAreTrue, AnswerIsTrue, CallsAreSingle, ReadyIsUnheard, Others, IsOf,
      Unheard, InCall, Gst!Idle, Gst!NoAnswer
<1>3. WireIsOut' /\ BillsAreRaised'
  BY <1>0 DEF WireIsOut, BillsAreRaised, IsOf, InCall, Others, Gst!Idle
<1>4. OldIsQuiet' /\ PendingOnce'
  BY <1>0 DEF OldIsQuiet, PendingOnce, Old, Open_, ReadyFor, Others, Gst!Idle
<1> QED BY <1>1, <1>2, <1>3, <1>4

\* A step that opens nothing and asks nothing of a portal
LEMMA StepKeepsCalls == ASSUME PortalInv, NEW p \in Gst!Procs, Others(p), UNCHANGED Gst!portal,
    \/ gTask'[p].st \in {"asked", "checked", "claimed", "looking", "found"}
    \/ (gTask'[p].st = "ready" /\ gTask'[p].op = "irn.generate"),
    DOMAIN gAttempts' = DOMAIN gAttempts, Len(gAttempts') = Len(gAttempts),
    \A k \in DOMAIN gAttempts : gAttempts'[k].op = gAttempts[k].op /\ gAttempts'[k].status = gAttempts[k].status
      /\ gAttempts'[k].age = gAttempts[k].age,
    \/ gTask'[p].op \in Gst!Ops /\ gTask'[p].st \in {"asked", "checked"} /\ gTask'[p].attempt = 0
    \/ gTask'[p].op = "irn.generate" /\ gTask'[p].st \in {"claimed", "ready"} /\ gTask'[p].attempt = 0
    \/ /\ gTask'[p].op \in Gst!Ops /\ gTask'[p].st = "looking" /\ IsOf(gTask'[p].attempt, gTask'[p].op)
       /\ gTask'[p].old => Open_(gTask'[p].attempt) /\ gAttempts[gTask'[p].attempt].age = "old"
    \/ /\ gTask'[p].op = "ewb.generate" /\ gTask'[p].st = "found" /\ IsOf(gTask'[p].attempt, gTask'[p].op)
       /\ gTask'[p].answer.is = "ok" /\ gTask'[p].answer.bill \in DOMAIN gPortalBills
  PROVE  CallsInv'
<1> USE DEF PortalInv, CallsInv
<1>0. /\ gPortalBills' = gPortalBills /\ gWire' = gWire /\ gPortalIrn' = gPortalIrn
  BY DEF Gst!portal
<1>1. AttemptsFit' BY <1>0 DEF AttemptsFit
<1>2. TasksAreWhole' /\ CallsAreSingle'
  BY <1>0 DEF TasksAreWhole, CallsAreSingle, Others, IsOf, InCall, Gst!Ops
<1>a. AnswersAreTrue'
  <2> SUFFICES ASSUME NEW q \in Gst!Procs, gTask'[q].st \in {"answered", "found"} PROVE AnswerIsTrue(gTask[q])'
    BY DEF AnswersAreTrue
  <2>1. CASE q # p
    <3>1. gTask'[q] = gTask[q] /\ AnswerIsTrue(gTask[q])
      BY <2>1 DEF Others, AnswersAreTrue
    <3> QED BY <1>0, <3>1 DEF AnswerIsTrue, Unheard
  <2>2. CASE q = p
    BY <1>0, <2>2 DEF AnswerIsTrue, Unheard, Gst!Ops
  <2> QED BY <2>1, <2>2
<1>b. ReadyIsUnheard'
  BY <1>0 DEF ReadyIsUnheard, Others, IsOf, Unheard, InCall, Gst!Ops
<1>3. WireIsOut' /\ BillsAreRaised'
  BY <1>0 DEF WireIsOut, BillsAreRaised, IsOf, InCall, Others
<1>4. OldIsQuiet' /\ PendingOnce'
  BY <1>0 DEF OldIsQuiet, PendingOnce, Old, Open_, ReadyFor, Others, IsOf, Gst!Ops
<1> QED BY <1>1, <1>2, <1>a, <1>b, <1>3, <1>4

LEMMA OpenKeepsCalls ==
  ASSUME PortalInv, NEW p \in Gst!Procs, gTask[p].st = "checked", NEW n, n = Len(gAttempts) + 1,
         IsAdded(n, gTask[p].op), Became(p, "ready", n, gTask[p].answer), UNCHANGED Gst!portal,
     ~Gst!Pending(gTask[p].op), Len(gAttempts) # MaxAttempts, Bounded
  PROVE CallsInv'
<1> USE DEF PortalInv, CallsInv
<1>0. /\ gPortalBills' = gPortalBills /\ gWire' = gWire /\ gPortalIrn' = gPortalIrn
  BY DEF Gst!portal
<1>a. gTask[p].op \in Gst!Ops
  BY DEF TasksAreWhole, Gst!Idle
<1>1. AttemptsFit'
  <2>1. Len(gAttempts) \in Nat /\ Len(gAttempts') = Len(gAttempts) + 1
    BY Shape DEF IsAdded
  <2>2. Len(gAttempts) <= MaxAttempts /\ MaxAttempts \in Nat
    BY DEF AttemptsFit, Bounded
  <2> QED BY <2>1, <2>2 DEF AttemptsFit
<1>b. \A q \in Gst!Procs : gTask[q].attempt \in DOMAIN gAttempts \cup {0}
  BY DEF TasksAreWhole, Gst!Idle, IsOf
<1>2. TasksAreWhole'
  BY <1>0, <1>a DEF TasksAreWhole, Others, IsOf, Became, IsAdded
<1>5. AnswersAreTrue' /\ CallsAreSingle'
  BY <1>0, <1>b DEF AnswersAreTrue, AnswerIsTrue, CallsAreSingle, Others, Unheard, InCall, Became, IsAdded
<1>6. ReadyIsUnheard'
  BY <1>0 DEF ReadyIsUnheard, Others, Unheard, InCall, Became, IsAdded, WireIsOut, BillsAreRaised, IsOf
<1>3. WireIsOut' /\ BillsAreRaised'
  BY <1>0, <1>a DEF WireIsOut, BillsAreRaised, IsOf, InCall, Others, Became, IsAdded
<1>4. OldIsQuiet' /\ PendingOnce'
  BY <1>0, <1>a DEF OldIsQuiet, PendingOnce, Old, Open_, ReadyFor, Others, Became, IsAdded, Gst!Pending,
      TasksAreWhole, IsOf, Gst!Idle, WireIsOut
<1> QED BY <1>1, <1>2, <1>3, <1>4, <1>5, <1>6

\* Answered without the portal having done anything of it
LEMMA VainKeepsCalls ==
  ASSUME PortalInv, NEW p \in Gst!Procs, gTask[p].st = "ready", NEW a, Became(p, "answered", gTask[p].attempt, a),
     UNCHANGED <<gAttempts, gPortalIrn, gPortalBills>>,
     \/ a.is = "refused" /\ UNCHANGED gWire
     \/ a.is = "unanswered" /\ gWire' \subseteq gWire \cup {[op |-> gTask[p].op, attempt |-> gTask[p].attempt]}
          /\ gWire \subseteq gWire'
  PROVE CallsInv'
<1> USE DEF PortalInv, CallsInv
<1>a. gTask[p].op \in Gst!Ops \cup {"irn.generate"} /\ (gTask[p].op \in Gst!Ops => InCall(p)
        /\ IsOf(gTask[p].attempt, gTask[p].op)) /\ (gTask[p].op \notin Gst!Ops => gTask[p].attempt = 0)
   /\ gTask[p].op # "none"
  BY Shape DEF TasksAreWhole, Gst!Idle, InCall, IsOf, Gst!Ops
<1>1. AttemptsFit' /\ TasksAreWhole'
  BY ZenonT(60), <1>a DEF AttemptsFit, TasksAreWhole, Others, IsOf, Became, Gst!Idle
<1>2. AnswersAreTrue'
  <2> SUFFICES ASSUME NEW q \in Gst!Procs, gTask'[q].st \in {"answered", "found"} PROVE AnswerIsTrue(gTask[q])'
    BY DEF AnswersAreTrue
  <2>1. CASE q = p
    BY <2>1, <1>a DEF Became, AnswerIsTrue, ReadyIsUnheard, Unheard
  <2>2. CASE q # p
    <3>1. gTask'[q] = gTask[q]
      BY <2>2 DEF Became, Others
    <3>2. gTask[q].op \in Gst!Ops /\ gTask[q].st = "answered" => InCall(q)
      BY Shape DEF InCall, TasksAreWhole, IsOf, Gst!Idle, Gst!Ops
    <3>3. gTask[q].op \in Gst!Ops /\ gTask[q].answer.is = "refused" => gTask[q].st = "answered"
      BY <3>1 DEF TasksAreWhole, Gst!Idle, Gst!Ops
    <3>4. gTask[q].op \in Gst!Ops /\ gTask[q].st = "answered" /\ gTask[p].op \in Gst!Ops
            => gTask[q].attempt # gTask[p].attempt
      BY <2>2, <3>2, <1>a DEF CallsAreSingle
    <3>5. gTask[q].op \in Gst!Ops /\ gTask[q].st = "answered" => gTask[q].attempt # 0
      BY <3>2 DEF InCall
    <3> QED BY <2>2, <3>1, <3>3, <3>4, <3>5, <1>a DEF AnswersAreTrue, AnswerIsTrue, Unheard
  <2> QED BY <2>1, <2>2
<1>3. CallsAreSingle'
  BY <1>a DEF CallsAreSingle, InCall, Others, Became
<1>4. ReadyIsUnheard'
  BY <1>a DEF ReadyIsUnheard, InCall, Others, Unheard, Became, CallsAreSingle
<1>5. WireIsOut'
  BY <1>a DEF WireIsOut, IsOf, InCall, Others, Became, ReadyIsUnheard, Unheard, CallsAreSingle
<1>6. BillsAreRaised' /\ PendingOnce'
  BY DEF BillsAreRaised, IsOf, PendingOnce, Open_
<1>7. OldIsQuiet'
  BY <1>a, Shape DEF OldIsQuiet, Old, Open_, ReadyFor, Others, Became, IsOf, Gst!Ops, InCall
<1> QED BY <1>1, <1>2, <1>3, <1>4, <1>5, <1>6, <1>7

\* Carried out: what the portal holds of the e-invoice changes, and a bill may be raised.
LEMMA DoneKeepsCalls ==
  ASSUME PortalInv, NEW p \in Gst!Procs, gTask[p].st = "ready", NEW a, Became(p, "answered", gTask[p].attempt, a),
     UNCHANGED <<gAttempts, gWire>>, gPortalIrn = "cancelled" => gPortalIrn' = "cancelled",
     a.is \in {"ok", "unanswered"}, gTask[p].op = "irn.cancel" /\ a.is = "ok" => gPortalIrn' = "cancelled",
     NEW n, IF gTask[p].op = "ewb.generate" THEN IsRaised(n, gTask[p].attempt) /\ (a.is = "ok"
         => a.bill = Len(gPortalBills')) ELSE UNCHANGED gPortalBills
  PROVE CallsInv'
<1> USE DEF PortalInv, CallsInv
<1>a. gTask[p].op \in Gst!Ops \cup {"irn.generate"} /\ (gTask[p].op \in Gst!Ops => InCall(p)
        /\ IsOf(gTask[p].attempt, gTask[p].op)) /\ (gTask[p].op \notin Gst!Ops => gTask[p].attempt = 0)
   /\ gTask[p].op # "none"
  BY Shape DEF TasksAreWhole, Gst!Idle, InCall, IsOf, Gst!Ops
<1>b. \A q \in Gst!Procs : InCall(q) /\ gTask[q].attempt = gTask[p].attempt /\ gTask[p].op \in Gst!Ops => q = p
  BY <1>a DEF CallsAreSingle
<1>c. /\ \A k \in DOMAIN gPortalBills : k \in DOMAIN gPortalBills' /\ gPortalBills'[k] = gPortalBills[k]
      /\ \A k \in DOMAIN gPortalBills' : k \in DOMAIN gPortalBills
           \/ (gPortalBills'[k].attempt = gTask[p].attempt /\ gTask[p].op = "ewb.generate"
           /\ k = Len(gPortalBills'))
  <2>1. CASE gTask[p].op = "ewb.generate"
    BY <2>1 DEF IsRaised
  <2>2. CASE gTask[p].op # "ewb.generate"
    BY <2>2
  <2> QED BY <2>1, <2>2
<1>d. gTask[p].op \in Gst!Ops => (\A k \in DOMAIN gPortalBills : gPortalBills[k].attempt # gTask[p].attempt)
        /\ \A m \in gWire : m.attempt # gTask[p].attempt
  BY <1>a DEF ReadyIsUnheard, Unheard
<1>1. AttemptsFit' /\ TasksAreWhole'
  BY ZenonT(60), <1>a DEF AttemptsFit, TasksAreWhole, Others, IsOf, Became, Gst!Idle
<1>3. CallsAreSingle'
  BY <1>a DEF Others, Became, CallsAreSingle, InCall
<1>2. AnswersAreTrue'
  <2> SUFFICES ASSUME NEW q \in Gst!Procs, gTask'[q].st \in {"answered", "found"} PROVE AnswerIsTrue(gTask[q])'
    BY DEF AnswersAreTrue
  <2>1. CASE q = p
    BY <2>1, <1>a, <1>c DEF Became, IsRaised, Gst!Ops, AnswerIsTrue
  <2>2. CASE q # p
    <3>1. gTask'[q] = gTask[q]
      BY <2>2 DEF Became, Others
    <3>2. gTask[q].op \in Gst!Ops /\ gTask[q].st = "answered" => InCall(q)
      BY Shape DEF InCall, TasksAreWhole, IsOf, Gst!Idle, Gst!Ops
    <3>3. gTask[q].op \in Gst!Ops /\ gTask[q].answer.is = "refused" => gTask[q].st = "answered"
      BY <3>1 DEF TasksAreWhole, Gst!Idle, Gst!Ops
    <3> QED BY <2>2, <3>1, <3>2, <3>3, <1>a, <1>b, <1>c DEF AnswersAreTrue, AnswerIsTrue, Unheard, Gst!Ops
  <2> QED BY <2>1, <2>2
<1>4. ReadyIsUnheard'
  BY <1>a, <1>b, <1>c DEF ReadyIsUnheard, InCall, Others, Unheard, Became
<1>5. WireIsOut'
  BY <1>a, <1>c, <1>d DEF WireIsOut, IsOf, InCall, Others, Became, Gst!Ops
<1>6. BillsAreRaised'
  BY <1>a, <1>c, <1>d DEF BillsAreRaised, IsOf, IsRaised, Gst!Ops
<1>7. OldIsQuiet' /\ PendingOnce'
  BY <1>a DEF OldIsQuiet, Old, Open_, ReadyFor, Others, Became, IsOf, Gst!Ops, InCall, PendingOnce
<1> QED BY <1>1, <1>2, <1>3, <1>4, <1>5, <1>6, <1>7

LEMMA ArrivalKeepsCalls == ASSUME PortalInv, NEW m \in gWire, gWire' = gWire \ {m}, UNCHANGED <<gAttempts, gTask>>,
     gPortalIrn = "cancelled" => gPortalIrn' = "cancelled",
     NEW n, IF m.op = "ewb.generate" THEN IsRaised(n, m.attempt) ELSE UNCHANGED gPortalBills
  PROVE CallsInv'
<1> USE DEF PortalInv, CallsInv
<1>1. AttemptsFit' /\ TasksAreWhole' /\ CallsAreSingle'
  BY DEF AttemptsFit, TasksAreWhole, IsOf, CallsAreSingle, InCall
<1>2. /\ \A k \in DOMAIN gPortalBills : k \in DOMAIN gPortalBills' /\ gPortalBills'[k] = gPortalBills[k]
      /\ \A k \in DOMAIN gPortalBills' : k \in DOMAIN gPortalBills
           \/ (gPortalBills'[k].attempt = m.attempt /\ m.op = "ewb.generate" /\ k = Len(gPortalBills'))
  <2>1. CASE m.op = "ewb.generate"
    BY <2>1 DEF IsRaised
  <2>2. CASE m.op # "ewb.generate"
    BY <2>2
  <2> QED BY <2>1, <2>2
<1>3. m.op = "ewb.generate" =>
        /\ IsOf(m.attempt, m.op)
        /\ \A k \in DOMAIN gPortalBills : gPortalBills[k].attempt # m.attempt
        /\ \A p \in Gst!Procs : InCall(p) /\ gTask[p].attempt = m.attempt => gTask[p].answer.is = "unanswered"
             /\ gTask[p].st # "ready"
  BY DEF WireIsOut, ReadyIsUnheard, Unheard
<1>4. m.op = "ewb.generate" => \A k \in gWire : k.attempt = m.attempt => k = m
  BY DEF WireIsOut, IsOf, Gst!TypeOK
<1>5. AnswersAreTrue'
  <2> SUFFICES ASSUME NEW q \in Gst!Procs, gTask[q].st \in {"answered", "found"} PROVE AnswerIsTrue(gTask[q])'
    BY DEF AnswersAreTrue
  <2>1. gTask[q].op \in Gst!Ops /\ gTask[q].answer.is = "refused" => InCall(q)
    BY Shape DEF TasksAreWhole, InCall, Gst!Idle, IsOf, Gst!Ops
  <2> QED BY <2>1, <1>2, <1>3 DEF AnswersAreTrue, AnswerIsTrue, Unheard, Gst!Ops
<1>6. ReadyIsUnheard'
  BY <1>2, <1>3 DEF ReadyIsUnheard, Unheard, InCall
<1>7. WireIsOut'
  BY <1>2, <1>4 DEF WireIsOut, IsOf, InCall
<1>8. BillsAreRaised'
  BY <1>2, <1>3 DEF BillsAreRaised, IsOf
<1>9. OldIsQuiet' /\ PendingOnce'
  BY DEF OldIsQuiet, Old, Open_, ReadyFor, PendingOnce
<1> QED BY <1>1, <1>5, <1>6, <1>7, <1>8, <1>9

LEMMA StillKeepsCalls == ASSUME PortalInv, UNCHANGED <<gWire, gPortalIrn, gTask>>,
    DOMAIN gPortalBills' = DOMAIN gPortalBills,
    \A n \in DOMAIN gPortalBills : gPortalBills'[n].attempt = gPortalBills[n].attempt,
    DOMAIN gAttempts' = DOMAIN gAttempts, Len(gAttempts') = Len(gAttempts),
    \A k \in DOMAIN gAttempts : gAttempts'[k].op = gAttempts[k].op /\ gAttempts'[k].status = gAttempts[k].status,
    \A k \in DOMAIN gAttempts : gAttempts'[k].age = "old" /\ gAttempts[k].age # "old" =>
       (\A m \in gWire : m.attempt # k) /\ \A p \in Gst!Procs : gTask[p].attempt # k
  PROVE CallsInv'
<1> USE DEF PortalInv, CallsInv
<1>1. AttemptsFit' /\ TasksAreWhole' /\ CallsAreSingle'
  BY DEF AttemptsFit, TasksAreWhole, IsOf, CallsAreSingle, InCall
<1>2. AnswersAreTrue' /\ ReadyIsUnheard'
  BY DEF AnswersAreTrue, AnswerIsTrue, ReadyIsUnheard, Unheard, InCall
<1>3. WireIsOut' /\ BillsAreRaised'
  BY DEF WireIsOut, BillsAreRaised, IsOf, InCall
<1>4. OldIsQuiet' /\ PendingOnce'
  BY DEF OldIsQuiet, Old, Open_, ReadyFor, PendingOnce
<1> QED BY <1>1, <1>2, <1>3, <1>4

LEMMA Fewer == ASSUME NEW a \in Nat, NEW b \in Nat, NEW f \in Injection(1 .. b, 1 .. a) PROVE b <= a
<1>1. ASSUME NEW k \in Nat PROVE IsFiniteSet(1 .. k) /\ Cardinality(1 .. k) = k
  <2>1. IsFiniteSet(1 .. k) /\ Cardinality(1 .. k) = IF 1 > k THEN 0 ELSE k - 1 + 1
    BY FS_Interval
  <2> QED BY <2>1
<1>2. Cardinality(1 .. b) <= Cardinality(1 .. a)
  BY <1>1, FS_Injection
<1> QED BY <1>1, <1>2

LEMMA BillsAreFew ==
  ASSUME Bounded, Gst!TypeOK, AttemptsFit, BillsAreRaised
  PROVE DOMAIN gPortalBills \subseteq Gst!Bills
<1> DEFINE f == [n \in 1 .. Len(gPortalBills) |-> gPortalBills[n].attempt]
<1>1. f \in Injection(1 .. Len(gPortalBills), 1 .. Len(gAttempts))
  BY Shape DEF BillsAreRaised, IsOf, Injection, IsInjective
<1>2. Len(gAttempts) \in Nat /\ Len(gPortalBills) \in Nat
  BY Shape
<1> HIDE DEF f
<1>3. Len(gPortalBills) <= Len(gAttempts)
  BY <1>1, <1>2, Fewer
<1> QED BY <1>2, <1>3, Shape DEF Gst!Bills, AttemptsFit, Bounded

LEMMA BillsStayFew ==
  ASSUME Bounded, Gst!TypeOK', AttemptsFit', BillsAreRaised'
  PROVE DOMAIN gPortalBills' \subseteq Gst!Bills
<1> DEFINE f == [n \in 1 .. Len(gPortalBills') |-> gPortalBills'[n].attempt]
<1>0. gAttempts' \in Seq(AttemptRow) /\ gPortalBills' \in Seq(Bill)
  BY DEF Gst!TypeOK, AttemptRow, Bill, Status
<1>1. f \in Injection(1 .. Len(gPortalBills'), 1 .. Len(gAttempts'))
  BY SMTT(30), <1>0 DEF BillsAreRaised, IsOf, Injection, IsInjective
<1>2. Len(gAttempts') \in Nat /\ Len(gPortalBills') \in Nat /\ DOMAIN gPortalBills' = 1 .. Len(gPortalBills')
  BY <1>0
<1> HIDE DEF f
<1>3. Len(gPortalBills') <= Len(gAttempts')
  BY <1>1, <1>2, Fewer
<1> QED BY <1>2, <1>3 DEF Gst!Bills, AttemptsFit, Bounded

LEMMA QuietForIrn ==
  ASSUME PortalInv, UNCHANGED <<gEinvoice, gPortalIrn>>, gAdopted => gAdopted', gUnsure => gUnsure',
    \A m \in gWire' : m \in gWire \/ ~IsOf(m.attempt, "irn.cancel"),
    \A q \in Gst!Procs : \/ gTask'[q] = gTask[q]
                         \/ ~Generates(q)' /\ gTask'[q].st # "checked"
                                  /\ ~(gTask'[q].op = "irn.cancel" /\ gTask'[q].st \in {"ready", "answered"}),
    DOMAIN gAttempts' = DOMAIN gAttempts,
    \A k \in DOMAIN gAttempts : gAttempts'[k].op = gAttempts[k].op
      /\ (gAttempts[k].op = "irn.cancel" => gAttempts'[k].status = gAttempts[k].status),
    TasksAreWhole'
  PROVE IrnInv'
<1> USE DEF PortalInv, IrnInv
<1>1. NotYet' /\ OneGenerates' /\ AdoptedIsKnown'
  BY DEF NotYet, OneGenerates, AdoptedIsKnown, Generated, Generates
<1>2. CancelsWhatIsThere'
  BY DEF CancelsWhatIsThere, Gst!At
<1>3. \A k \in DOMAIN gAttempts : gAttempts[k].op = "irn.cancel" => \A q \in Gst!Procs : gTask'[q].attempt = k
        => gTask'[q] = gTask[q] \/ gTask'[q].st \notin {"ready", "answered"}
  BY Shape DEF TasksAreWhole, IsOf, Gst!Idle
<1>4. CancelIsOpen'
  BY <1>3 DEF CancelIsOpen, ReadyFor, Open_, IsOf
<1>5. CancelIsSettled'
  BY <1>3 DEF CancelIsSettled, Sent, Open_
<1> QED BY <1>1, <1>2, <1>4, <1>5

LEMMA MarkForIrn ==
  ASSUME PortalInv, NEW p \in Gst!Procs, NEW s, gTask'[p] = Gst!Idle, Others(p), UNCHANGED <<Gst!portal, gAdopted>>,
         gUnsure => gUnsure',
    IsMarked(gTask[p].attempt, s),
    gTask[p].op = "irn.cancel",
    gTask[p].st = "answered" \/ (gTask[p].st = "looking" /\ gTask[p].old) \/ gPortalIrn = "cancelled",
    \/ UNCHANGED gEinvoice /\ (gUnsure' \/ gPortalIrn # "cancelled" \/ (gTask[p].answer.is = "refused"
         /\ gTask[p].st = "answered"))
       /\ (gUnsure' \/ (gPortalIrn # "cancelled" => \A m \in gWire : m.attempt # gTask[p].attempt))
    \/ gPortalIrn = "cancelled" /\ gEinvoice'.status = "cancelled"
  PROVE IrnInv'
<1> USE DEF PortalInv, IrnInv, CallsInv
<1>0. /\ gPortalBills' = gPortalBills /\ gWire' = gWire /\ gPortalIrn' = gPortalIrn
      /\ DOMAIN gAttempts' = DOMAIN gAttempts
      /\ \A k \in DOMAIN gAttempts : gAttempts'[k].op = gAttempts[k].op
      /\ \A k \in DOMAIN gAttempts : k # gTask[p].attempt => gAttempts'[k] = gAttempts[k]
  BY DEF Gst!portal, IsMarked
<1>1. NotYet' /\ OneGenerates' /\ AdoptedIsKnown' /\ CancelsWhatIsThere'
  BY <1>0 DEF NotYet, OneGenerates, AdoptedIsKnown, Generated, Generates, Others, Gst!Idle, CancelsWhatIsThere,
      Gst!At
<1>2. gTask[p].attempt \in DOMAIN gAttempts \/ gTask[p].attempt = 0
  BY DEF TasksAreWhole, IsOf, Gst!Idle
<1>a. IsOf(gTask[p].attempt, gTask[p].op) \/ gTask[p].st \notin {"answered", "looking"}
  BY DEF TasksAreWhole, Gst!Idle, Gst!Ops
<1>3. ASSUME gPortalIrn # "cancelled", NEW q \in Gst!Procs, q # p, gTask[q].st = "ready"
      PROVE gTask[q].attempt # gTask[p].attempt
  <2>1. CASE gTask[p].st = "answered"
    BY <1>3, <1>a, <2>1, Shape DEF CallsAreSingle, InCall, IsOf
  <2>2. CASE gTask[p].st = "looking" /\ gTask[p].old
    BY <1>3, <1>a, <2>2 DEF OldIsQuiet, Old, ReadyFor, IsOf
  <2> QED BY <1>3, <2>1, <2>2
<1>4. CancelIsOpen'
  BY <1>0, <1>3 DEF CancelIsOpen, ReadyFor, Open_, Others, Gst!Idle
<1>5. CancelIsSettled'
  BY <1>0 DEF CancelIsSettled, Sent, Open_, Others, Gst!Idle
<1> QED BY <1>1, <1>4, <1>5

LEMMA SubmitForIrn ==
  ASSUME PortalInv, NEW p \in Gst!Procs, Gst!Submit(p), gTask[p] = Gst!Idle \/ Gst!At(p, "irn.generate", "claimed"),
         TasksAreWhole'
  PROVE IrnInv'
<1> USE DEF PortalInv, IrnInv, CallsInv
<1>1. /\ UNCHANGED <<gAttempts, gPortalIrn, gWire, gAdopted, gUnsure>> /\ Others(p)
      /\ gTask'[p].op = "irn.generate" /\ gTask'[p].st = "ready" /\ gTask'[p].attempt = 0
      /\ gEinvoice' = [status |-> "pending", overdue |-> FALSE]
  BY Shape DEF Gst!Submit, Others, Gst!Idle, Gst!portal, Gst!TypeOK
<1>2. gPortalIrn # "cancelled" => \A q \in Gst!Procs : Generates(q) => q = p
  BY DEF OneGenerates, Gst!Submit, Gst!MayAsk, Gst!At, Gst!Idle, Generates
<1>3. OneGenerates'
  BY <1>1, <1>2 DEF OneGenerates, Others, Generates
<1>4. NotYet' /\ AdoptedIsKnown' /\ CancelIsSettled'
  BY <1>1 DEF NotYet, AdoptedIsKnown, Generated, Generates, Others, CancelIsSettled
<1>5. CancelsWhatIsThere'
  BY <1>1 DEF CancelsWhatIsThere, Gst!At, Others, Gst!Submit
<1>6. CancelIsOpen'
  BY <1>1, Shape DEF CancelIsOpen, ReadyFor, Open_, Others
<1> QED BY <1>3, <1>4, <1>5, <1>6

LEMMA FinishForIrn == ASSUME PortalInv, NEW p \in Gst!Procs, Gst!FinishIrn(p) PROVE IrnInv'
<1> USE DEF PortalInv, IrnInv, CallsInv
<1>1. /\ UNCHANGED <<gAttempts, gPortalIrn, gWire, gAdopted, gUnsure>> /\ gTask'[p] = Gst!Idle /\ Others(p)
  BY EndsIdle DEF Gst!FinishIrn, Gst!portal
<1>2. Generates(p) /\ gTask[p].st = "answered" /\ (gEinvoice'.status = "generated"
        => gEinvoice.status = "generated" \/ Generated(p))
   /\ (gEinvoice.status = "generated" => gEinvoice'.status = "generated"
        \/ gEinvoice' = [status |-> "failed", overdue |-> FALSE])
  BY DEF Gst!FinishIrn, Generates, Generated, Gst!At, AnswersAreTrue, AnswerIsTrue
<1>3. gPortalIrn # "cancelled" => gEinvoice.status = "pending" /\ \A q \in Gst!Procs : Generates(q) => q = p
  BY <1>2 DEF OneGenerates
<1>4. NotYet' /\ AdoptedIsKnown'
  BY <1>1, <1>2 DEF NotYet, AdoptedIsKnown, Generated, Generates, Others, Gst!Idle
<1>5. OneGenerates'
  BY <1>1, <1>3 DEF OneGenerates, Others, Generates, Gst!Idle
<1>6. CancelsWhatIsThere'
  BY <1>1, <1>3 DEF CancelsWhatIsThere, Gst!At, Others, Gst!Idle
<1>7. CancelIsOpen'
  BY <1>1, Shape DEF CancelIsOpen, ReadyFor, Open_, Others, Gst!Idle
<1>8. CancelIsSettled'
  BY <1>1, <1>2, Shape DEF CancelIsSettled, Sent, Open_, AdoptedIsKnown, Others, Gst!Idle
<1> QED BY <1>4, <1>5, <1>6, <1>7, <1>8

LEMMA QuietForBills ==
  ASSUME PortalInv, UNCHANGED <<Gst!bills, gPortalBills>>, gUnsure => gUnsure', gOverlapped => gOverlapped',
    \A m \in gWire' : m \in gWire \/ ~IsOf(m.attempt, "ewb.generate"),
    \A q \in Gst!Procs : \/ gTask'[q] = gTask[q] \/ gTask'[q].st # "ready" \/ ~IsOf(gTask'[q].attempt, "ewb.generate"),
    DOMAIN gAttempts' = DOMAIN gAttempts,
    \A k \in DOMAIN gAttempts : gAttempts'[k].op = gAttempts[k].op /\ (gAttempts[k].op = "ewb.generate"
        => gAttempts'[k].status = gAttempts[k].status)
  PROVE BillInv'
<1> USE DEF PortalInv, BillInv, Gst!bills
<1>1. RowsAreBills'
  BY DEF RowsAreBills
<1>2. \A k \in DOMAIN gAttempts : gAttempts[k].op = "ewb.generate" => (ReadyFor(k)' => ReadyFor(k))
        /\ (\A m \in gWire' : m.attempt = k => m \in gWire)
  BY DEF ReadyFor, IsOf
<1>3. FailedIsQuiet'
  BY <1>2 DEF FailedIsQuiet, Unheard
<1>4. BillIsOpen'
  BY <1>2 DEF BillIsOpen, Orderly, Open_
<1>5. RecordedOrOpen' /\ LiveIsOpen'
  BY DEF RecordedOrOpen, LiveIsOpen, Orderly, Open_, Gst!LiveBill, CallsInv, BillsAreRaised, IsOf
<1> QED BY <1>1, <1>3, <1>4, <1>5

\* Every mark an attempt to raise a bill gets, that changes no bill
LEMMA MarkForBills ==
  ASSUME PortalInv, NEW p \in Gst!Procs, NEW s \in {"settled", "failed"}, gTask'[p] = Gst!Idle, Others(p),
         UNCHANGED <<Gst!bills, Gst!portal>>, gUnsure => gUnsure', gOverlapped => gOverlapped',
    IsMarked(gTask[p].attempt, s), IsOf(gTask[p].attempt, "ewb.generate"),
    \/ gUnsure'
    \/ s = "failed" /\ Unheard(gTask[p].attempt) /\ \A q \in Gst!Procs : q # p /\ gTask[q].st = "ready"
         => gTask[q].attempt # gTask[p].attempt
    \/ s = "settled" /\ Gst!LiveBill
  PROVE BillInv'
<1> USE DEF PortalInv, BillInv, CallsInv, Gst!bills
<1>0. /\ gPortalBills' = gPortalBills /\ gWire' = gWire
      /\ DOMAIN gAttempts' = DOMAIN gAttempts
      /\ \A k \in DOMAIN gAttempts : gAttempts'[k].op = gAttempts[k].op
      /\ \A k \in DOMAIN gAttempts : k # gTask[p].attempt => gAttempts'[k] = gAttempts[k]
      /\ gTask[p].attempt \in DOMAIN gAttempts /\ gAttempts'[gTask[p].attempt].status = s
  BY DEF Gst!portal, IsMarked, IsOf
<1>1. RowsAreBills'
  BY <1>0 DEF RowsAreBills
<1>2. \A k \in DOMAIN gAttempts : ReadyFor(k)' => \E q \in Gst!Procs : q # p /\ gTask[q].st = "ready"
        /\ gTask[q].attempt = k
  BY DEF ReadyFor, Others, Gst!Idle
<1>3. FailedIsQuiet'
  BY <1>0, <1>2 DEF FailedIsQuiet, Unheard, ReadyFor
<1>4. s = "settled" /\ Orderly' /\ Open_(gTask[p].attempt) => gPortalBills[gCurrent].attempt = gTask[p].attempt
        /\ gCurrent \in DOMAIN gPortalBills
         /\ gRows[gCurrent] # "none"
  BY <1>0 DEF LiveIsOpen, RowsAreBills, Gst!LiveBill, Orderly, IsOf
<1>5. s = "settled" /\ Orderly' /\ Open_(gTask[p].attempt) => ~ReadyFor(gTask[p].attempt)
        /\ \A m \in gWire : m.attempt # gTask[p].attempt
  BY <1>0, <1>4, Shape DEF ReadyIsUnheard, InCall, Unheard, WireIsOut, ReadyFor, IsOf
<1>6. BillIsOpen'
  BY <1>0, <1>2, <1>5 DEF BillIsOpen, Orderly, Open_, ReadyFor, Unheard, IsOf
<1>7. RecordedOrOpen'
  BY <1>0, <1>4 DEF RecordedOrOpen, Orderly, Open_, BillsAreRaised, IsOf, Unheard
<1>8. LiveIsOpen'
  BY <1>0 DEF LiveIsOpen, Orderly, Open_, Gst!LiveBill
<1> QED BY <1>1, <1>3, <1>6, <1>7, <1>8

LEMMA RecordForBills ==
  ASSUME PortalInv, NEW p \in Gst!Procs, NEW n, gTask'[p] = Gst!Idle, Others(p),
         UNCHANGED <<Gst!portal, gUnsure, gOverlapped>>,
    IsMarked(gTask[p].attempt, "settled"), IsOf(gTask[p].attempt, "ewb.generate"), n \in DOMAIN gPortalBills,
    DOMAIN gPortalBills \subseteq Gst!Bills,
    gRows[n] = "none", gRows' = [gRows EXCEPT ![n] = "active"], gCurrent' = n
  PROVE BillInv'
<1> USE DEF PortalInv, BillInv, CallsInv
<1>0. /\ gPortalBills' = gPortalBills /\ gWire' = gWire
      /\ DOMAIN gAttempts' = DOMAIN gAttempts
      /\ \A k \in DOMAIN gAttempts : gAttempts'[k].op = gAttempts[k].op
      /\ \A k \in DOMAIN gAttempts : k # gTask[p].attempt => gAttempts'[k] = gAttempts[k]
      /\ gTask[p].attempt \in DOMAIN gAttempts /\ gAttempts'[gTask[p].attempt].status = "settled"
  BY DEF Gst!portal, IsMarked, IsOf
<1>1. gRows'[n] = "active" /\ \A k \in Gst!Bills : k # n => gRows'[k] = gRows[k]
  BY DEF Gst!TypeOK
<1>2. RowsAreBills'
  BY <1>0, <1>1 DEF RowsAreBills
<1>3. FailedIsQuiet'
  BY <1>0 DEF FailedIsQuiet, Unheard, ReadyFor, Others, Gst!Idle
<1> DEFINE a == gPortalBills[n].attempt
<1>4. Orderly => a \in DOMAIN gAttempts /\ gAttempts[a].op = "ewb.generate" /\ Open_(a)
  BY DEF RecordedOrOpen, BillsAreRaised, IsOf
<1>5. ASSUME Orderly, NEW k \in DOMAIN gAttempts, gAttempts[k].op = "ewb.generate", Open_(k) PROVE k = a
  BY <1>4, <1>5 DEF PendingOnce
<1>6. ~ReadyFor(a) /\ \A m \in gWire : m.attempt # a
  BY Shape DEF ReadyFor, ReadyIsUnheard, InCall, Unheard, WireIsOut, BillsAreRaised, IsOf
<1>7. BillIsOpen'
  <2> SUFFICES ASSUME Orderly, NEW k \in DOMAIN gAttempts, gAttempts[k].op = "ewb.generate",
                      ReadyFor(k)' \/ \E m \in gWire : m.attempt = k
      PROVE FALSE
    BY <1>0 DEF BillIsOpen, Orderly, ReadyFor
  <2>1. ReadyFor(k) \/ \E m \in gWire : m.attempt = k
    BY DEF ReadyFor, Others, Gst!Idle
  <2> QED BY <2>1, <1>5, <1>6 DEF BillIsOpen
<1>8. ASSUME Orderly, NEW k \in DOMAIN gPortalBills, k # n
      PROVE gRows[k] # "none" /\ gPortalBills[k].status # "active"
  <2>1. gRows[k] # "none"
    BY <1>4, <1>5, <1>8 DEF RecordedOrOpen, BillsAreRaised, IsOf
  <2>2. CASE gPortalBills[k].status = "active"
    <3>1. gCurrent = k /\ gRows[k] = "active" /\ gCurrent # 0
      BY <1>8, <2>1, <2>2, Shape DEF RecordedOrOpen
    <3>2. gPortalBills[k].attempt = a
      BY <1>8, <3>1, <1>4 DEF LiveIsOpen, Gst!LiveBill
    <3> QED BY <1>8, <3>2 DEF BillsAreRaised
  <2> QED BY <2>1, <2>2
<1>9. RecordedOrOpen'
  <2> SUFFICES ASSUME Orderly, NEW k \in DOMAIN gPortalBills
      PROVE gRows'[k] # "none" /\ (gPortalBills[k].status = "active" => gCurrent' = k /\ gRows'[k] = "active")
    BY <1>0 DEF RecordedOrOpen, Orderly
  <2> QED BY <1>1, <1>8, <1>0 DEF Gst!TypeOK
<1>10. LiveIsOpen'
  BY <1>0, <1>5 DEF LiveIsOpen, Orderly, Open_
<1> QED BY <1>2, <1>3, <1>7, <1>9, <1>10

LEMMA WhatIsDone ==
  ASSUME Gst!TypeOK, NEW op \in Gst!Ops \cup {"irn.generate"}, NEW a \in Nat, Gst!Done(op, a)
  PROVE Did(op, a)
<1>1. CASE op = "irn.generate"
  BY <1>1 DEF Gst!Done, Did, Gst!Register
<1>2. CASE op = "irn.cancel"
  BY <1>2 DEF Gst!Done, Did, Gst!Withdraw
<1>3. CASE op = "ewb.generate"
  BY <1>3, WasRaised DEF Gst!Done, Did, Gst!Raise
<1> QED BY <1>1, <1>2, <1>3 DEF Gst!Ops

LEMMA WhatTheCallDid == ASSUME Gst!TypeOK, TasksAreWhole, NEW p \in Gst!Procs, Gst!CallPortal(p)
  PROVE /\ gTask[p].st = "ready" /\ UNCHANGED <<gDoc, gEinvoice, Gst!bills, gAttempts, gUnsure, gOverlapped>>
        /\ \E a : Became(p, "answered", gTask[p].attempt, a) /\ (CallDone(p, a) \/ CallInVain(p, a))
<1>1. gTask[p].st = "ready" /\ UNCHANGED <<gDoc, gEinvoice, Gst!bills, gAttempts, gUnsure, gOverlapped>>
  BY DEF Gst!CallPortal
<1>2. gTask[p].op \in Gst!Ops \cup {"irn.generate"} /\ gTask[p].attempt \in Nat
  BY <1>1, Shape DEF TasksAreWhole, Gst!Idle, IsOf, Gst!Ops
<1>3. ASSUME NEW a, Gst!Answered(p, a) PROVE Became(p, "answered", gTask[p].attempt, a)
  BY <1>3, WasAnswered
<1>4. CASE \E n : /\ gTask[p].op = "irn.cancel" => gPortalIrn = "active"
                  /\ Gst!Done(gTask[p].op, gTask[p].attempt) /\ Gst!Answered(p, Gst!Ok(n))
                       /\ (gTask[p].op = "ewb.generate" => n = Len(gPortalBills'))
                  /\ gAdopted' = (gAdopted \/ (gTask[p].op = "irn.generate" /\ gPortalIrn = "cancelled"))
                       /\ UNCHANGED gWire
  <2>1. PICK n :
          /\ gTask[p].op = "irn.cancel" => gPortalIrn = "active"
          /\ Gst!Done(gTask[p].op, gTask[p].attempt) /\ Gst!Answered(p, Gst!Ok(n))
               /\ (gTask[p].op = "ewb.generate" => n = Len(gPortalBills'))
          /\ gAdopted' = (gAdopted \/ (gTask[p].op = "irn.generate" /\ gPortalIrn = "cancelled"))
               /\ UNCHANGED gWire
    BY <1>4
  <2>2. (gAdopted => gAdopted') /\ (gTask[p].op = "irn.generate" /\ gPortalIrn = "cancelled" => gAdopted')
    BY <2>1, Zenon
  <2>3. Did(gTask[p].op, gTask[p].attempt)
    BY <1>2, <2>1, WhatIsDone
  <2>4. Gst!Ok(n).is = "ok" /\ Gst!Ok(n).bill = n
    BY DEF Gst!Ok
  <2>5. CallDone(p, Gst!Ok(n))
    BY <2>1, <2>2, <2>3, <2>4 DEF CallDone
  <2>6. Became(p, "answered", gTask[p].attempt, Gst!Ok(n))
    BY <1>3, <2>1
  <2> QED BY <1>1, <2>5, <2>6
<1>5. CASE Gst!NotDone /\ Gst!Answered(p, Gst!Refused) /\ UNCHANGED <<gWire, gAdopted>>
  <2>1. CallInVain(p, Gst!Refused)
    BY <1>5 DEF Gst!NotDone, CallInVain, Gst!Refused
  <2> QED BY <1>1, <1>3, <1>5, <2>1
<1>6. CASE Gst!Lost(p, Gst!Done(gTask[p].op, gTask[p].attempt)) /\ UNCHANGED gAdopted
  <2>1. CallDone(p, Gst!Unanswered) \/ CallInVain(p, Gst!Unanswered)
    BY <1>2, <1>6, WhatIsDone DEF Gst!Lost, Gst!NotDone, CallDone, CallInVain, Gst!Unanswered
  <2>2. Gst!Answered(p, Gst!Unanswered)
    BY <1>6 DEF Gst!Lost
  <2> QED BY <1>1, <1>3, <2>1, <2>2
<1> QED BY <1>4, <1>5, <1>6 DEF Gst!CallPortal

LEMMA CallKeepsCalls == ASSUME PortalInv, NEW p \in Gst!Procs, Gst!CallPortal(p) PROVE CallsInv'
<1>1. PICK a : Became(p, "answered", gTask[p].attempt, a) /\ (CallDone(p, a) \/ CallInVain(p, a))
  BY WhatTheCallDid DEF PortalInv, CallsInv
<1>2. gTask[p].st = "ready" /\ UNCHANGED gAttempts
  BY WhatTheCallDid DEF PortalInv, CallsInv
<1>3. CASE CallDone(p, a)
  BY <1>1, <1>2, <1>3, DoneKeepsCalls DEF CallDone, Did
<1>4. CASE CallInVain(p, a)
  BY <1>1, <1>2, <1>4, VainKeepsCalls DEF CallInVain
<1> QED BY <1>1, <1>3, <1>4

LEMMA CallForIrn == ASSUME PortalInv, NEW p \in Gst!Procs, Gst!CallPortal(p), TasksAreWhole' PROVE IrnInv'
<1> USE DEF PortalInv, IrnInv, CallsInv
<1>1. PICK a : Became(p, "answered", gTask[p].attempt, a) /\ (CallDone(p, a) \/ CallInVain(p, a))
  BY WhatTheCallDid
<1>2. gTask[p].st = "ready" /\ UNCHANGED <<gEinvoice, gAttempts, gUnsure>>
  BY WhatTheCallDid
<1>3. /\ gPortalIrn' # "cancelled" => gPortalIrn # "cancelled"
      /\ gPortalIrn' = "none" => gPortalIrn = "none" /\ ~(Generates(p) /\ a.is = "ok")
      /\ gAdopted => gAdopted'
      /\ Generates(p) /\ a.is = "ok" /\ gPortalIrn' = "cancelled" => gAdopted'
      /\ gPortalIrn' = gPortalIrn \/ ~(Generates(p) /\ gPortalIrn' = "cancelled")
  BY <1>1 DEF CallDone, CallInVain, Did, Generates, Gst!TypeOK
<1>4. \A q \in Gst!Procs : gTask'[q].op = gTask[q].op /\ gTask'[q].attempt = gTask[q].attempt /\ (q # p
        => gTask'[q] = gTask[q])
  BY <1>1 DEF Became, Others
<1>5. NotYet' /\ OneGenerates' /\ CancelsWhatIsThere'
  BY <1>1, <1>2, <1>3, <1>4 DEF NotYet, OneGenerates, CancelsWhatIsThere, Generated, Generates, Gst!At, Became
<1>6. gTask[p].op = "irn.cancel" => IsOf(gTask[p].attempt, "irn.cancel")
        /\ gTask[p].attempt \in DOMAIN gAttempts /\ gTask[p].attempt # 0
  BY <1>2, Shape DEF TasksAreWhole, IsOf, Gst!Idle
<1>7. \A q \in Gst!Procs : gTask[p].op = "irn.cancel" /\ InCall(q) /\ gTask[q].attempt = gTask[p].attempt
        => q = p
  BY <1>2, <1>6 DEF CallsAreSingle, InCall
<1>8. gTask[p].op = "irn.cancel" /\ gPortalIrn # "cancelled" => gEinvoice.status = "generated"
        /\ Open_(gTask[p].attempt) /\ \A q \in Gst!Procs : ~Generates(q)
  BY <1>2, <1>6 DEF CancelsWhatIsThere, CancelIsOpen, ReadyFor, OneGenerates, IsOf
<1>9. AdoptedIsKnown'
  <2> SUFFICES ASSUME gPortalIrn' = "cancelled", ~gAdopted', NEW q \in Gst!Procs, Generated(q)' PROVE FALSE
    BY DEF AdoptedIsKnown
  <2>1. CASE gPortalIrn = "cancelled"
    BY <2>1, <1>1, <1>2, <1>3, <1>4 DEF AdoptedIsKnown, Generated, Generates, Became
  <2>2. CASE gPortalIrn # "cancelled"
    BY <2>2, <1>1, <1>3, <1>4, <1>8 DEF Generated, Generates, CallDone, CallInVain, Did
  <2> QED BY <2>1, <2>2
<1>10. CancelIsOpen'
  <2> SUFFICES ASSUME gPortalIrn # "cancelled", NEW i \in DOMAIN gAttempts, gAttempts[i].op = "irn.cancel"
               PROVE  (ReadyFor(i)' => Open_(i)) /\ ((\E m \in gWire' : m.attempt = i) => Open_(i) \/ gUnsure)
    BY <1>2, <1>3 DEF CancelIsOpen, ReadyFor, Open_
  <2>1. ReadyFor(i)' => ReadyFor(i)
    BY <1>1, <1>4 DEF ReadyFor, Became
  <2>2. \A m \in gWire' : m \in gWire \/ m.attempt = gTask[p].attempt
    BY <1>1 DEF CallDone, CallInVain
  <2>3. gTask[p].attempt = i => ReadyFor(i)
    BY <1>2 DEF ReadyFor
  <2> QED BY <2>1, <2>2, <2>3 DEF CancelIsOpen
<1>11. CancelIsSettled'
  <2> SUFFICES ASSUME gEinvoice.status = "generated", gPortalIrn' = "cancelled", ~gAdopted', ~gUnsure
               PROVE  \E i \in DOMAIN gAttempts : gAttempts[i].op = "irn.cancel" /\ Open_(i) /\ Sent(i)'
    BY <1>2 DEF CancelIsSettled, Open_, Sent
  <2>1. CASE gPortalIrn = "cancelled"
    <3>1. PICK i \in DOMAIN gAttempts : gAttempts[i].op = "irn.cancel" /\ Open_(i) /\ Sent(i)
      BY <2>1, <1>3 DEF CancelIsSettled
    <3>2. gTask[p].attempt # i
      BY <3>1, <1>2 DEF Sent
    <3> QED BY <3>1, <3>2, <1>4 DEF Sent
  <2>2. CASE gPortalIrn # "cancelled"
    <3>1. gTask[p].op = "irn.cancel" /\ a.is # "refused"
      BY <1>1, <2>2 DEF CallDone, CallInVain, Did
    <3>2. \A q \in Gst!Procs : gTask'[q].attempt = gTask[p].attempt => gTask'[q].st # "ready"
            /\ ~(gTask'[q].st = "answered" /\ gTask'[q].answer.is = "refused")
      BY <1>1, <1>4, <1>6, <1>7, <3>1 DEF InCall, Became
    <3> QED BY <1>6, <1>8, <2>2, <3>1, <3>2 DEF Sent, IsOf
  <2> QED BY <2>1, <2>2
<1> QED BY <1>5, <1>9, <1>10, <1>11

LEMMA ArrivalForIrn == ASSUME PortalInv, NEW m \in gWire, Gst!Arrive(m) PROVE IrnInv'
<1> USE DEF PortalInv, IrnInv, CallsInv
<1>1. /\ Did(m.op, m.attempt) /\ gWire' = gWire \ {m}
           /\ UNCHANGED <<gEinvoice, gAttempts, gTask, gUnsure, gAdopted>>
  BY WhatIsDone DEF Gst!Arrive, Gst!TypeOK
<1>2. /\ gPortalIrn' # "cancelled" => gPortalIrn # "cancelled"
      /\ gPortalIrn' = "none" => gPortalIrn = "none"
      /\ gPortalIrn' = "cancelled" => gPortalIrn = "cancelled" \/ (gPortalIrn = "active" /\ m.op = "irn.cancel")
  BY <1>1 DEF Did, Gst!TypeOK
<1>3. NotYet' /\ OneGenerates' /\ CancelsWhatIsThere' /\ CancelIsOpen'
  BY <1>1, <1>2 DEF NotYet, OneGenerates, CancelsWhatIsThere, Generated, Generates, Gst!At, CancelIsOpen,
      ReadyFor, Open_
<1>4. m.op = "irn.cancel" /\ gPortalIrn # "cancelled" =>
        /\ gEinvoice.status = "generated" /\ \A q \in Gst!Procs : ~Generates(q)
        /\ IsOf(m.attempt, "irn.cancel") /\ (Open_(m.attempt) \/ gUnsure) /\ Sent(m.attempt)
  BY Shape DEF WireIsOut, IsOf, CancelsWhatIsThere, CancelIsOpen, OneGenerates, Sent, InCall, ReadyIsUnheard,
      Unheard
<1>5. AdoptedIsKnown'
  BY <1>1, <1>2, <1>4 DEF AdoptedIsKnown, Generated, Generates
<1>6. CancelIsSettled'
  BY <1>1, <1>2, <1>4 DEF CancelIsSettled, Open_, Sent, IsOf
<1> QED BY <1>3, <1>5, <1>6

\* A bill is raised, or still may be, for an attempt the portal had heard nothing of.
LEMMA RaiseForBills ==
  ASSUME PortalInv, Bounded, NEW i, IsOf(i, "ewb.generate"), Orderly => Open_(i),
         gAttempts[i].status = "failed" => gUnsure,
     \A n \in DOMAIN gPortalBills : gPortalBills[n].attempt # i,
     UNCHANGED <<Gst!bills, gAttempts, gUnsure, gOverlapped>>,
     \A q \in Gst!Procs : gTask'[q] = gTask[q] \/ gTask'[q].st # "ready",
     \A m \in gWire' : m \in gWire \/ m.attempt = i,
     UNCHANGED gPortalBills \/ IsRaised(Len(gPortalBills) + 1, i),
     DOMAIN gPortalBills' \subseteq Gst!Bills
  PROVE BillInv'
<1> USE DEF PortalInv, BillInv, CallsInv, Gst!bills
<1>1. /\ \A k \in DOMAIN gPortalBills : k \in DOMAIN gPortalBills' /\ gPortalBills'[k] = gPortalBills[k]
      /\ \A k \in DOMAIN gPortalBills' : k \in DOMAIN gPortalBills \/ (gPortalBills'[k].attempt = i
           /\ k \notin DOMAIN gPortalBills)
  BY DEF IsRaised
<1>2. RowsAreBills'
  BY <1>1 DEF RowsAreBills
<1>3. FailedIsQuiet'
  BY <1>1 DEF FailedIsQuiet, Unheard, ReadyFor
<1>4. BillIsOpen'
  BY <1>1 DEF BillIsOpen, ReadyFor, Open_, Orderly
<1>5. RecordedOrOpen'
  <2> SUFFICES ASSUME Orderly, NEW n \in DOMAIN gPortalBills'
               PROVE  IF gRows[n] = "none" THEN Open_(gPortalBills'[n].attempt) ELSE gPortalBills'[n].status = "active"
                       => gCurrent = n /\ gRows[n] = "active"
    BY DEF RecordedOrOpen, Orderly, Open_
  <2>1. CASE n \in DOMAIN gPortalBills
    BY <2>1, <1>1 DEF RecordedOrOpen
  <2>2. CASE n \notin DOMAIN gPortalBills
    BY <2>2, <1>1 DEF RowsAreBills
  <2> QED BY <2>1, <2>2
<1>6. LiveIsOpen'
  BY <1>1 DEF LiveIsOpen, Gst!LiveBill, RowsAreBills, Orderly, Open_
<1> QED BY <1>2, <1>3, <1>4, <1>5, <1>6

LEMMA CallForBills ==
  ASSUME Bounded, PortalInv, NEW p \in Gst!Procs, Gst!CallPortal(p), DOMAIN gPortalBills' \subseteq Gst!Bills
  PROVE BillInv'
<1> USE DEF PortalInv, CallsInv
<1>1. PICK a : Became(p, "answered", gTask[p].attempt, a) /\ (CallDone(p, a) \/ CallInVain(p, a))
  BY WhatTheCallDid
<1>2. gTask[p].st = "ready" /\ UNCHANGED <<Gst!bills, gAttempts, gUnsure, gOverlapped>>
  BY WhatTheCallDid
<1>3. CASE gTask[p].op = "ewb.generate"
  <2> DEFINE i == gTask[p].attempt
  <2>1. IsOf(i, "ewb.generate") /\ InCall(p) /\ ReadyFor(i)
    BY <1>2, <1>3, Shape DEF TasksAreWhole, Gst!Idle, IsOf, InCall, ReadyFor
  <2>2. (Orderly => Open_(i)) /\ (gAttempts[i].status = "failed" => gUnsure)
          /\ \A n \in DOMAIN gPortalBills : gPortalBills[n].attempt # i
    BY <2>1, <1>2 DEF BillInv, BillIsOpen, FailedIsQuiet, ReadyIsUnheard, Unheard, IsOf
  <2>3. (\A m \in gWire' : m \in gWire \/ m.attempt = i) /\ (UNCHANGED gPortalBills
          \/ IsRaised(Len(gPortalBills) + 1, i))
    BY <1>1, <1>3 DEF CallDone, CallInVain, Did
  <2>4. \A q \in Gst!Procs : gTask'[q] = gTask[q] \/ gTask'[q].st # "ready"
    BY <1>1 DEF Became, Others
  <2> QED BY <1>2, <2>1, <2>2, <2>3, <2>4, RaiseForBills
<1>4. CASE gTask[p].op # "ewb.generate"
  <2>1. UNCHANGED gPortalBills /\ \A m \in gWire' : m \in gWire \/ m.attempt = gTask[p].attempt
    BY <1>1, <1>4 DEF CallDone, CallInVain, Did
  <2>2. ~IsOf(gTask[p].attempt, "ewb.generate")
    BY <1>2, <1>4, Shape DEF TasksAreWhole, Gst!Idle, IsOf
  <2> QED BY <1>1, <1>2, <2>1, <2>2, QuietForBills DEF Became, Others
<1> QED BY <1>3, <1>4

LEMMA ArrivalForBills ==
  ASSUME Bounded, PortalInv, NEW m \in gWire, Gst!Arrive(m), DOMAIN gPortalBills' \subseteq Gst!Bills
  PROVE BillInv'
<1> USE DEF PortalInv, CallsInv
<1>1. /\ Did(m.op, m.attempt) /\ gWire' = gWire \ {m}
           /\ UNCHANGED <<Gst!bills, gAttempts, gTask, gUnsure, gOverlapped>>
  BY WhatIsDone DEF Gst!Arrive, Gst!TypeOK
<1>2. CASE m.op = "ewb.generate"
  <2>1. IsOf(m.attempt, "ewb.generate") /\ \A n \in DOMAIN gPortalBills : gPortalBills[n].attempt # m.attempt
    BY <1>2 DEF WireIsOut
  <2>2. (Orderly => Open_(m.attempt)) /\ (gAttempts[m.attempt].status = "failed" => gUnsure)
    BY <2>1 DEF BillInv, BillIsOpen, FailedIsQuiet, Unheard, IsOf
  <2>3. IsRaised(Len(gPortalBills) + 1, m.attempt)
    BY <1>1, <1>2 DEF Did
  <2> QED BY <1>1, <2>1, <2>2, <2>3, RaiseForBills
<1>3. CASE m.op # "ewb.generate"
  BY <1>1, <1>3, QuietForBills DEF Did
<1> QED BY <1>2, <1>3

LEMMA OpenForBoth ==
  ASSUME PortalInv, NEW p \in Gst!Procs, gTask[p].st = "checked", NEW n, n = Len(gAttempts) + 1,
         IsAdded(n, gTask[p].op), Became(p, "ready", n, gTask[p].answer),
     UNCHANGED <<Gst!portal, gEinvoice, Gst!bills, gAdopted, gUnsure>>, gOverlapped' = (gOverlapped
         \/ (gTask[p].op = "ewb.generate" /\ Gst!LiveBill))
  PROVE IrnInv' /\ BillInv'
<1> USE DEF PortalInv, CallsInv
<1>a. (gOverlapped => gOverlapped') /\ (gTask[p].op = "ewb.generate" /\ Gst!LiveBill => gOverlapped')
  BY Zenon
<1>0. /\ gPortalBills' = gPortalBills /\ gWire' = gWire /\ gPortalIrn' = gPortalIrn /\ gRows' = gRows
           /\ gCurrent' = gCurrent
      /\ gTask[p].op \in Gst!Ops /\ (Orderly' => Orderly) /\ (Orderly' /\ gTask[p].op = "ewb.generate"
           => ~Gst!LiveBill)
  BY <1>a DEF Gst!portal, Gst!bills, TasksAreWhole, Gst!Idle, Orderly
<1>1. /\ \A q \in Gst!Procs : gTask[q].attempt # n
      /\ \A m \in gWire : m.attempt # n
      /\ \A k \in DOMAIN gPortalBills : gPortalBills[k].attempt # n
  BY Shape DEF TasksAreWhole, Gst!Idle, IsOf, WireIsOut, BillsAreRaised, IsAdded
<1>2. NotYet' /\ OneGenerates' /\ AdoptedIsKnown' /\ CancelsWhatIsThere'
  BY <1>0 DEF IrnInv, NotYet, OneGenerates, AdoptedIsKnown, CancelsWhatIsThere, Generated, Generates, Gst!At,
      Became, Others, IsAdded, Gst!Ops
<1>3. CancelIsOpen'
  BY <1>0, <1>1 DEF IrnInv, CancelIsOpen, ReadyFor, Open_, Became, Others, IsAdded
<1>4. CancelIsSettled'
  BY <1>0, <1>1 DEF IrnInv, CancelIsSettled, Sent, Open_, Became, Others, IsAdded
<1>5. RowsAreBills' /\ FailedIsQuiet'
  BY <1>0, <1>1 DEF BillInv, RowsAreBills, FailedIsQuiet, Unheard, ReadyFor, Became, Others, IsAdded
<1>6. BillIsOpen'
  BY <1>0, <1>1 DEF BillInv, BillIsOpen, ReadyFor, Open_, Became, Others, IsAdded
<1>7. RecordedOrOpen'
  BY <1>0 DEF BillInv, RecordedOrOpen, Open_, IsAdded, BillsAreRaised, IsOf
<1>8. LiveIsOpen'
  BY <1>0 DEF BillInv, LiveIsOpen, Gst!LiveBill, Open_, IsAdded, Gst!Ops
<1> QED BY <1>2, <1>3, <1>4, <1>5, <1>6, <1>7, <1>8 DEF IrnInv, BillInv

LEMMA RowTypes ==
   /\ \A t \in TaskRow, st \in Stages : [t EXCEPT !.st = st] \in TaskRow
   /\ \A t \in TaskRow, a \in AnswerRow : [t EXCEPT !.answer = a] \in TaskRow
   /\ \A t \in TaskRow, n \in Nat : [t EXCEPT !.attempt = n] \in TaskRow
   /\ \A t \in AttemptRow, a \in {"fresh", "due", "old"} : [t EXCEPT !.age = a] \in AttemptRow
   /\ \A t \in AttemptRow, c \in BOOLEAN : [t EXCEPT !.checked = c] \in AttemptRow
<1>1. \A t \in TaskRow, st \in Stages : [t EXCEPT !.st = st] \in TaskRow
  BY SMT DEF TaskRow
<1>2. \A t \in TaskRow, a \in AnswerRow : [t EXCEPT !.answer = a] \in TaskRow
  BY SMT DEF TaskRow
<1>3. \A t \in TaskRow, n \in Nat : [t EXCEPT !.attempt = n] \in TaskRow
  BY SMT DEF TaskRow
<1>4. \A t \in AttemptRow, a \in {"fresh", "due", "old"} : [t EXCEPT !.age = a] \in AttemptRow
  BY SMT DEF AttemptRow
<1>5. \A t \in AttemptRow, c \in BOOLEAN : [t EXCEPT !.checked = c] \in AttemptRow
  BY SMT DEF AttemptRow
<1> QED BY <1>1, <1>2, <1>3, <1>4, <1>5

LEMMA TaskTypes == ASSUME Gst!TypeOK, NEW p \in Gst!Procs PROVE
   /\ gTask[p] \in TaskRow /\ Gst!Idle \in TaskRow
   /\ Gst!Ends(p) => gTask' \in [Gst!Procs -> TaskRow]
   /\ \A st \in Stages : Gst!Goes(p, st) => gTask' \in [Gst!Procs -> TaskRow]
   /\ \A a \in AnswerRow : Gst!Answered(p, a) => gTask' \in [Gst!Procs -> TaskRow]
   /\ \A t \in TaskRow : Gst!Begins(p, t) => gTask' \in [Gst!Procs -> TaskRow]
   /\ \A n \in Nat : gTask' = [gTask EXCEPT ![p].st = "ready", ![p].attempt = n]
        => gTask' \in [Gst!Procs -> TaskRow]
<1>1. gTask \in [Gst!Procs -> TaskRow]
  BY SMT DEF Gst!TypeOK, TaskRow, AnswerRow, Stages
<1>2. gTask[p] \in TaskRow
  BY <1>1, SMT
<1>3. Gst!Idle \in TaskRow
  BY SMT DEF Gst!Idle, Gst!NoAnswer, TaskRow, AnswerRow, Stages
<1>4. Gst!Ends(p) => gTask' \in [Gst!Procs -> TaskRow]
  BY <1>1, <1>3, SMT DEF Gst!Ends
<1>5. \A st \in Stages : Gst!Goes(p, st) => gTask' \in [Gst!Procs -> TaskRow]
  <2> SUFFICES ASSUME NEW st \in Stages, Gst!Goes(p, st) PROVE gTask' \in [Gst!Procs -> TaskRow]
    OBVIOUS
  <2>1. [gTask[p] EXCEPT !.st = st] \in TaskRow
    BY <1>2, RowTypes, Zenon
  <2> QED BY <1>1, <2>1, SMT DEF Gst!Goes
<1>6. \A a \in AnswerRow : Gst!Answered(p, a) => gTask' \in [Gst!Procs -> TaskRow]
  BY <1>1, SMT DEF Gst!Answered, TaskRow, Stages, AnswerRow, Gst!Procs
<1>7. \A t \in TaskRow : Gst!Begins(p, t) => gTask' \in [Gst!Procs -> TaskRow]
  BY <1>1, SMT DEF Gst!Begins
<1>8. \A n \in Nat : gTask' = [gTask EXCEPT ![p].st = "ready", ![p].attempt = n]
        => gTask' \in [Gst!Procs -> TaskRow]
  BY <1>1, SMT DEF TaskRow, Stages, AnswerRow, Gst!Procs
<1> QED BY <1>2, <1>3, <1>4, <1>5, <1>6, <1>7, <1>8

LEMMA AttemptTypes == ASSUME Gst!TypeOK PROVE
   /\ \A p \in Gst!Procs, s \in Status : gTask[p].op \in Gst!Ops /\ IsOf(gTask[p].attempt, gTask[p].op)
        /\ Gst!Marked(p, s) => gAttempts' \in Seq(AttemptRow)
   /\ \A p \in Gst!Procs : gTask[p].op \in Gst!Ops /\ Gst!Opened(p) => gAttempts' \in Seq(AttemptRow)
        /\ gTask' \in [Gst!Procs -> TaskRow]
   /\ \A i \in DOMAIN gAttempts, a \in {"due", "old"} : gAttempts' = [gAttempts EXCEPT ![i].age = a]
        => gAttempts' \in Seq(AttemptRow)
   /\ \A i \in DOMAIN gAttempts, c \in BOOLEAN : gAttempts' = [gAttempts EXCEPT ![i].checked = c]
        => gAttempts' \in Seq(AttemptRow)
<1>0. gAttempts \in Seq(AttemptRow) /\ DOMAIN gAttempts = 1 .. Len(gAttempts) /\ Len(gAttempts) \in Nat
  BY SMT DEF Gst!TypeOK, AttemptRow, Status
<1>1. \A i \in DOMAIN gAttempts, a \in AttemptRow : [gAttempts EXCEPT ![i] = a] \in Seq(AttemptRow)
  BY <1>0, SMT
<1>2. ASSUME NEW p \in Gst!Procs, NEW s \in Status, gTask[p].op \in Gst!Ops,
             IsOf(gTask[p].attempt, gTask[p].op), Gst!Marked(p, s)
      PROVE gAttempts' \in Seq(AttemptRow)
  <2>1. [op |-> gTask[p].op, status |-> s, age |-> "fresh", checked |-> FALSE] \in AttemptRow
    BY <1>2, SMT DEF AttemptRow
  <2> QED BY <1>1, <1>2, <2>1, Zenon DEF Gst!Marked, IsOf
<1>3. ASSUME NEW p \in Gst!Procs, gTask[p].op \in Gst!Ops, Gst!Opened(p)
      PROVE gAttempts' \in Seq(AttemptRow) /\ gTask' \in [Gst!Procs -> TaskRow]
  <2>1. [op |-> gTask[p].op, status |-> "pending", age |-> "fresh", checked |-> FALSE] \in AttemptRow
    BY <1>3, SMT DEF AttemptRow, Status
  <2>2. gAttempts' \in Seq(AttemptRow) /\ Len(gAttempts') \in Nat
    BY <1>0, <1>3, <2>1, SMT DEF Gst!Opened
  <2>4. gTask' = [gTask EXCEPT ![p].st = "ready", ![p].attempt = Len(gAttempts')]
    BY <1>3 DEF Gst!Opened
  <2>7. gTask' \in [Gst!Procs -> TaskRow]
    BY <2>2, <2>4, TaskTypes, Zenon
  <2> QED BY <2>2, <2>7
<1>4. ASSUME NEW i \in DOMAIN gAttempts, NEW a \in {"due", "old"}, gAttempts' = [gAttempts EXCEPT ![i].age = a]
      PROVE gAttempts' \in Seq(AttemptRow)
  <2>1. [gAttempts[i] EXCEPT !.age = a] \in AttemptRow
    BY <1>0, Shape, RowTypes, Zenon
  <2> QED BY <1>0, <1>1, <1>4, <2>1, SMT
<1>5. ASSUME NEW i \in DOMAIN gAttempts, NEW c \in BOOLEAN, gAttempts' = [gAttempts EXCEPT ![i].checked = c]
      PROVE gAttempts' \in Seq(AttemptRow)
  <2>1. [gAttempts[i] EXCEPT !.checked = c] \in AttemptRow
    BY <1>0, Shape, RowTypes, Zenon
  <2> QED BY <1>0, <1>1, <1>5, <2>1, SMT
<1> QED BY <1>2, <1>3, <1>4, <1>5

LEMMA PortalTypes == ASSUME Gst!TypeOK, NEW op \in Gst!Ops \cup {"irn.generate"}, NEW a \in Nat, Gst!Done(op, a)
  PROVE gPortalIrn' \in {"none", "active", "cancelled"} /\ gPortalBills' \in Seq(Bill)
<1>1. CASE op = "irn.generate"
  BY <1>1, SMT DEF Gst!TypeOK, Gst!Done, Gst!Register, Gst!Ops, Bill
<1>2. CASE op = "irn.cancel"
  BY <1>2, SMT DEF Gst!TypeOK, Gst!Done, Gst!Withdraw, Gst!Ops, Bill
<1>3. CASE op = "ewb.generate"
  <2>1. Gst!Raise(a)
    BY <1>3, SMT DEF Gst!Done
  <2>2. [status |-> "active", attempt |-> a] \in Bill /\ gPortalBills \in Seq(Bill)
          /\ gPortalIrn \in {"none", "active", "cancelled"}
    BY SMT DEF Bill, Gst!TypeOK
  <2> QED BY <2>1, <2>2, SMT DEF Gst!Raise
<1> QED BY <1>1, <1>2, <1>3, SMT DEF Gst!Ops

LEMMA TypedIs == (Gst!TypeOK <=> Typed) /\ (Gst!TypeOK' <=> Typed')
  BY DEF Gst!TypeOK, Typed, HereTyped, RowsTyped, PortalTyped, FlagsTyped, AttemptRow, Status, Bill, EInvoice,
      States, Request, TaskRow, AnswerRow, Stages

LEMMA MarkTypes == ASSUME Gst!TypeOK, TasksAreWhole, NEW p \in Gst!Procs,
     gTask[p].st \in {"looking", "found"} \/ (gTask[p].st = "answered" /\ gTask[p].op # "irn.generate")
  PROVE gTask[p].op \in Gst!Ops /\ IsOf(gTask[p].attempt, gTask[p].op) /\ \A s \in Status : Gst!Marked(p, s)
          => gAttempts' \in Seq(AttemptRow)
<1>1. gTask[p].op \in Gst!Ops /\ IsOf(gTask[p].attempt, gTask[p].op)
  BY SMT DEF TasksAreWhole, Gst!Idle, Gst!Ops
<1> QED BY <1>1, AttemptTypes, Zenon

LEMMA StartTypes ==
   /\ \A op \in Gst!Ops : [Gst!Idle EXCEPT !.op = op, !.st = "asked"] \in TaskRow
   /\ [Gst!Idle EXCEPT !.op = "irn.generate", !.st = "claimed"] \in TaskRow
   /\ [Gst!Idle EXCEPT !.op = "irn.generate", !.st = "ready"] \in TaskRow
   /\ \A op \in Gst!Ops, i \in Nat, old \in BOOLEAN :
     [Gst!Idle EXCEPT !.op = op, !.st = "looking", !.attempt = i, !.old = old] \in TaskRow
<1>1. Gst!Idle \in TaskRow
  BY SMT DEF Gst!Idle, Gst!NoAnswer, TaskRow, AnswerRow, Stages, Gst!Ops
<1>2. \A t \in TaskRow, op \in Gst!Ops \cup {"irn.generate"} : [t EXCEPT !.op = op] \in TaskRow
  BY SMT DEF TaskRow
<1>3. \A t \in TaskRow, st \in Stages : [t EXCEPT !.st = st] \in TaskRow
  BY SMT DEF TaskRow
<1>4. \A t \in TaskRow, i \in Nat : [t EXCEPT !.attempt = i] \in TaskRow
  BY SMT DEF TaskRow
<1>5. \A t \in TaskRow, old \in BOOLEAN : [t EXCEPT !.old = old] \in TaskRow
  BY SMT DEF TaskRow
<1>6. \A op \in Gst!Ops \cup {"irn.generate"}, st \in Stages : [Gst!Idle EXCEPT !.op = op, !.st = st] \in TaskRow
  BY <1>1, <1>2, <1>3, Zenon
<1>7. {"asked", "claimed", "ready", "looking"} \subseteq Stages
  BY DEF Stages
<1>8. \A op \in Gst!Ops, i \in Nat, old \in BOOLEAN :
     [Gst!Idle EXCEPT !.op = op, !.st = "looking", !.attempt = i, !.old = old] \in TaskRow
  <2> TAKE op \in Gst!Ops, i \in Nat, old \in BOOLEAN
  <2>1. [Gst!Idle EXCEPT !.op = op, !.st = "looking"] \in TaskRow
    BY <1>6, <1>7, Zenon
  <2>2. [[Gst!Idle EXCEPT !.op = op, !.st = "looking"] EXCEPT !.attempt = i] \in TaskRow
    BY <1>4, <2>1, Zenon
  <2> QED BY <1>5, <2>2, Zenon
<1> QED BY <1>6, <1>7, <1>8, Zenon

LEMMA BillsAreBills == ASSUME Gst!TypeOK PROVE \A k \in DOMAIN gPortalBills : gPortalBills[k] \in Bill
<1>1. gPortalBills \in Seq(Bill)
  BY DEF Gst!TypeOK, Bill
<1> QED BY <1>1

LEMMA AnswerTypes == Gst!Refused \in AnswerRow /\ Gst!Unanswered \in AnswerRow
    /\ \A n \in Nat : Gst!Ok(n) \in AnswerRow
  BY SMT DEF Gst!Refused, Gst!Unanswered, Gst!Ok, AnswerRow

LEMMA EInvoiceTypes ==
  ASSUME gEinvoice \in EInvoice, NEW b \in BOOLEAN, gEinvoice' = [gEinvoice EXCEPT !.overdue = b]
  PROVE gEinvoice' \in EInvoice
  BY SMT DEF EInvoice

LEMMA WhatTheCallSends == ASSUME Gst!TypeOK, TasksAreWhole, NEW p \in Gst!Procs, Gst!CallPortal(p)
  PROVE /\ gTask' \in [Gst!Procs -> TaskRow] /\ gWire' \subseteq Request /\ gAdopted' \in BOOLEAN
             /\ gEvents' \in Nat
        /\ gPortalIrn' \in States /\ gPortalBills' \in Seq(Bill)
<1>0. Typed /\ gTask[p].op \in Gst!Ops \cup {"irn.generate"} /\ gTask[p].attempt \in Nat
        /\ [op |-> gTask[p].op, attempt |-> gTask[p].attempt] \in Request
  <2>1. Typed
    BY TypedIs
  <2>2. gTask[p].op \in Gst!Ops \cup {"irn.generate"} /\ gTask[p].attempt \in Nat
    BY <2>1, SMT DEF Typed, TaskRow, TasksAreWhole, Gst!CallPortal, Gst!Idle, Gst!Ops
  <2> QED BY <2>1, <2>2, SMT DEF Request
<1>1. (UNCHANGED <<gPortalIrn, gPortalBills>> \/ Gst!Done(gTask[p].op, gTask[p].attempt))
        /\ gWire' \in {gWire, gWire \cup {[op |-> gTask[p].op, attempt |-> gTask[p].attempt]}}
  BY DEF Gst!CallPortal, Gst!Lost, Gst!NotDone
<1>2. gPortalIrn' \in States /\ gPortalBills' \in Seq(Bill)
  <2>1. CASE UNCHANGED <<gPortalIrn, gPortalBills>>
    BY <1>0, <2>1 DEF Typed, PortalTyped
  <2>2. CASE Gst!Done(gTask[p].op, gTask[p].attempt)
    BY <1>0, <2>2, PortalTypes, Zenon DEF States
  <2> QED BY <1>1, <2>1, <2>2
<1>3. gWire' \subseteq Request
  BY <1>0, <1>1, SMT DEF Typed, PortalTyped
<1>4. gAdopted' \in BOOLEAN
  <2>1. gAdopted' = (gAdopted \/ (gTask[p].op = "irn.generate" /\ gPortalIrn = "cancelled"))
          \/ gAdopted' = gAdopted
    BY Zenon DEF Gst!CallPortal
  <2> QED BY <1>0, <2>1, Zenon DEF Typed, FlagsTyped
<1>5. gEvents' \in Nat
  BY <1>0, SMT DEF Gst!CallPortal, Typed, FlagsTyped, Gst!Happens, Gst!Lost
<1>6. Len(gPortalBills') \in Nat
  BY <1>2, SMT
<1>7. gTask' \in [Gst!Procs -> TaskRow]
  <2>1. \E a \in AnswerRow : Gst!Answered(p, a)
    <3>1. \/ Gst!Answered(p, Gst!Ok(IF gTask[p].op = "ewb.generate" THEN Len(gPortalBills') ELSE 0))
               \/ Gst!Answered(p, Gst!Refused) \/ Gst!Answered(p, Gst!Unanswered)
      BY Zenon DEF Gst!CallPortal, Gst!Lost
    <3>2. Gst!Ok(IF gTask[p].op = "ewb.generate" THEN Len(gPortalBills') ELSE 0) \in AnswerRow
      BY <1>6, AnswerTypes, SMT
    <3> QED BY <3>1, <3>2, AnswerTypes, Zenon
  <2> QED BY <2>1, TaskTypes, Zenon
<1> QED BY <1>2, <1>3, <1>4, <1>5, <1>7

LEMMA SubmitType ==
  ASSUME Bounded, PortalInv, DOMAIN gPortalBills \subseteq Gst!Bills, NEW p \in Gst!Procs, Gst!Submit(p)
  PROVE Gst!TypeOK'
<1>0. Gst!TypeOK /\ Typed /\ TasksAreWhole
  BY TypedIs DEF PortalInv, CallsInv
<1>1. HereTyped'
  BY <1>0, SMT DEF Typed, HereTyped, EInvoice, Gst!Submit, Gst!bills, Gst!portal, Gst!Happens, Gst!At
<1>2. RowsTyped'
  BY <1>0, SMT DEF Typed, RowsTyped, States, Gst!Submit, Gst!bills, Gst!portal
<1>3. gAttempts' \in Seq(AttemptRow)
  BY <1>0, AttemptTypes, Zenon DEF Typed, Gst!Submit, Gst!bills, Gst!portal, Status
<1>4. PortalTyped'
  BY <1>0, PortalTypes, SMT DEF Typed, PortalTyped, Gst!Submit, Gst!bills, Gst!portal
<1>5. gTask' \in [Gst!Procs -> TaskRow]
  <2>1. gTask \in [Gst!Procs -> TaskRow]
          /\ gTask' = [gTask EXCEPT ![p] = [Gst!Idle EXCEPT !.op = "irn.generate", !.st = "ready"]]
    BY <1>0 DEF Gst!Submit, Typed
  <2> DEFINE r == [Gst!Idle EXCEPT !.op = "irn.generate", !.st = "ready"]
  <2>2. r \in TaskRow
    BY StartTypes
  <2> HIDE DEF r
  <2>3. gTask' = [gTask EXCEPT ![p] = r]
    BY <2>1 DEF r
  <2> QED BY <2>1, <2>2, <2>3, SMT
<1>6. FlagsTyped'
  BY <1>0, SMT DEF Typed, FlagsTyped, Gst!Submit, Gst!bills, Gst!portal, Gst!Happens
<1> QED BY <1>1, <1>2, <1>3, <1>4, <1>5, <1>6, TypedIs DEF Typed

LEMMA InvalidType ==
  ASSUME Bounded, PortalInv, DOMAIN gPortalBills \subseteq Gst!Bills, NEW p \in Gst!Procs, Gst!Invalid(p)
  PROVE Gst!TypeOK'
<1>0. Gst!TypeOK /\ Typed /\ TasksAreWhole
  BY TypedIs DEF PortalInv, CallsInv
<1>1. HereTyped'
  BY <1>0, SMT DEF Typed, HereTyped, EInvoice, Gst!Invalid, Gst!bills, Gst!portal, Gst!Happens, Gst!At
<1>2. RowsTyped'
  BY <1>0, SMT DEF Typed, RowsTyped, States, Gst!Invalid, Gst!bills, Gst!portal
<1>3. gAttempts' \in Seq(AttemptRow)
  BY <1>0, AttemptTypes, Zenon DEF Typed, Gst!Invalid, Gst!bills, Gst!portal, Status
<1>4. PortalTyped'
  BY <1>0, PortalTypes, SMT DEF Typed, PortalTyped, Gst!Invalid, Gst!bills, Gst!portal
<1>5. gTask' \in [Gst!Procs -> TaskRow]
  BY <1>0, TaskTypes, Zenon DEF Typed, Gst!Invalid, Gst!bills, Gst!portal
<1>6. FlagsTyped'
  BY <1>0, SMT DEF Typed, FlagsTyped, Gst!Invalid, Gst!bills, Gst!portal, Gst!Happens
<1> QED BY <1>1, <1>2, <1>3, <1>4, <1>5, <1>6, TypedIs DEF Typed

LEMMA CallPortalType ==
  ASSUME Bounded, PortalInv, DOMAIN gPortalBills \subseteq Gst!Bills, NEW p \in Gst!Procs, Gst!CallPortal(p)
  PROVE Gst!TypeOK'
<1>0. Gst!TypeOK /\ Typed /\ TasksAreWhole
  BY TypedIs DEF PortalInv, CallsInv
<1>1. HereTyped'
  BY <1>0, SMT DEF Typed, HereTyped, EInvoice, Gst!CallPortal, Gst!bills, Gst!portal, Gst!Happens, Gst!At
<1>2. RowsTyped'
  BY <1>0, SMT DEF Typed, RowsTyped, States, Gst!CallPortal, Gst!bills, Gst!portal
<1>3. gAttempts' \in Seq(AttemptRow)
  BY <1>0, AttemptTypes, Zenon DEF Typed, Gst!CallPortal, Gst!bills, Gst!portal, Status
<1>4. PortalTyped'
  BY <1>0, WhatTheCallSends DEF PortalTyped
<1>5. gTask' \in [Gst!Procs -> TaskRow]
  BY <1>0, WhatTheCallSends
<1>6. FlagsTyped'
  BY <1>0, WhatTheCallSends, Zenon DEF FlagsTyped, Typed, Gst!CallPortal
<1> QED BY <1>1, <1>2, <1>3, <1>4, <1>5, <1>6, TypedIs DEF Typed

LEMMA FinishIrnType ==
  ASSUME Bounded, PortalInv, DOMAIN gPortalBills \subseteq Gst!Bills, NEW p \in Gst!Procs, Gst!FinishIrn(p)
  PROVE Gst!TypeOK'
<1>0. Gst!TypeOK /\ Typed /\ TasksAreWhole
  BY TypedIs DEF PortalInv, CallsInv
<1>1. HereTyped'
  BY <1>0, SMT DEF Typed, HereTyped, EInvoice, Gst!FinishIrn, Gst!bills, Gst!portal, Gst!Happens, Gst!At
<1>2. RowsTyped'
  BY <1>0, SMT DEF Typed, RowsTyped, States, Gst!FinishIrn, Gst!bills, Gst!portal
<1>3. gAttempts' \in Seq(AttemptRow)
  BY <1>0, AttemptTypes, Zenon DEF Typed, Gst!FinishIrn, Gst!bills, Gst!portal, Status
<1>4. PortalTyped'
  BY <1>0, PortalTypes, SMT DEF Typed, PortalTyped, Gst!FinishIrn, Gst!bills, Gst!portal
<1>5. gTask' \in [Gst!Procs -> TaskRow]
  BY <1>0, TaskTypes, Zenon DEF Typed, Gst!FinishIrn, Gst!bills, Gst!portal
<1>6. FlagsTyped'
  BY <1>0, SMT DEF Typed, FlagsTyped, Gst!FinishIrn, Gst!bills, Gst!portal, Gst!Happens
<1> QED BY <1>1, <1>2, <1>3, <1>4, <1>5, <1>6, TypedIs DEF Typed

LEMMA ClaimType ==
  ASSUME Bounded, PortalInv, DOMAIN gPortalBills \subseteq Gst!Bills, NEW p \in Gst!Procs, Gst!Claim(p)
  PROVE Gst!TypeOK'
<1>0. Gst!TypeOK /\ Typed /\ TasksAreWhole
  BY TypedIs DEF PortalInv, CallsInv
<1>1. HereTyped'
  BY <1>0, EInvoiceTypes, Zenon DEF HereTyped, Typed, Gst!Claim
<1>2. RowsTyped'
  BY <1>0, SMT DEF Typed, RowsTyped, States, Gst!Claim, Gst!bills, Gst!portal
<1>3. gAttempts' \in Seq(AttemptRow)
  BY <1>0, AttemptTypes, Zenon DEF Typed, Gst!Claim, Gst!bills, Gst!portal, Status
<1>4. PortalTyped'
  BY <1>0, PortalTypes, SMT DEF Typed, PortalTyped, Gst!Claim, Gst!bills, Gst!portal
<1>5. gTask' \in [Gst!Procs -> TaskRow]
  BY <1>0, TaskTypes, StartTypes, Zenon DEF Gst!Claim
<1>6. FlagsTyped'
  BY <1>0, SMT DEF Typed, FlagsTyped, Gst!Claim, Gst!bills, Gst!portal, Gst!Happens
<1> QED BY <1>1, <1>2, <1>3, <1>4, <1>5, <1>6, TypedIs DEF Typed

LEMMA ReconcileInVainType ==
  ASSUME Bounded, PortalInv, DOMAIN gPortalBills \subseteq Gst!Bills, NEW p \in Gst!Procs, Gst!ReconcileInVain(p)
  PROVE Gst!TypeOK'
<1>0. Gst!TypeOK /\ Typed /\ TasksAreWhole
  BY TypedIs DEF PortalInv, CallsInv
<1>1. HereTyped'
  BY <1>0, SMT DEF Typed, HereTyped, EInvoice, Gst!ReconcileInVain, Gst!bills, Gst!portal, Gst!Happens, Gst!At
<1>2. RowsTyped'
  BY <1>0, SMT DEF Typed, RowsTyped, States, Gst!ReconcileInVain, Gst!bills, Gst!portal
<1>3. gAttempts' \in Seq(AttemptRow)
  BY <1>0, AttemptTypes, Zenon DEF Typed, Gst!ReconcileInVain, Gst!bills, Gst!portal, Status
<1>4. PortalTyped'
  BY <1>0, PortalTypes, SMT DEF Typed, PortalTyped, Gst!ReconcileInVain, Gst!bills, Gst!portal
<1>5. gTask' \in [Gst!Procs -> TaskRow]
  BY <1>0, TaskTypes, Zenon DEF Typed, Gst!ReconcileInVain, Gst!bills, Gst!portal
<1>6. FlagsTyped'
  BY <1>0, SMT DEF Typed, FlagsTyped, Gst!ReconcileInVain, Gst!bills, Gst!portal, Gst!Happens
<1> QED BY <1>1, <1>2, <1>3, <1>4, <1>5, <1>6, TypedIs DEF Typed

LEMMA GrowsOverdueType ==
  ASSUME Bounded, PortalInv, DOMAIN gPortalBills \subseteq Gst!Bills, Gst!GrowsOverdue
  PROVE Gst!TypeOK'
<1>0. Gst!TypeOK /\ Typed /\ TasksAreWhole
  BY TypedIs DEF PortalInv, CallsInv
<1>1. HereTyped'
  BY <1>0, EInvoiceTypes, Zenon DEF HereTyped, Typed, Gst!GrowsOverdue
<1>2. RowsTyped'
  BY <1>0, SMT DEF Typed, RowsTyped, States, Gst!GrowsOverdue, Gst!bills, Gst!portal
<1>3. gAttempts' \in Seq(AttemptRow)
  BY <1>0, AttemptTypes, Zenon DEF Typed, Gst!GrowsOverdue, Gst!bills, Gst!portal, Status
<1>4. PortalTyped'
  BY <1>0, PortalTypes, SMT DEF Typed, PortalTyped, Gst!GrowsOverdue, Gst!bills, Gst!portal
<1>5. gTask' \in [Gst!Procs -> TaskRow]
  BY <1>0, TaskTypes, Zenon DEF Typed, Gst!GrowsOverdue, Gst!bills, Gst!portal
<1>6. FlagsTyped'
  BY <1>0, SMT DEF Typed, FlagsTyped, Gst!GrowsOverdue, Gst!bills, Gst!portal, Gst!Happens
<1> QED BY <1>1, <1>2, <1>3, <1>4, <1>5, <1>6, TypedIs DEF Typed

LEMMA AskType ==
  ASSUME Bounded, PortalInv, DOMAIN gPortalBills \subseteq Gst!Bills, NEW p \in Gst!Procs, NEW op \in Gst!Ops,
         Gst!Ask(p, op)
  PROVE Gst!TypeOK'
<1>0. Gst!TypeOK /\ Typed /\ TasksAreWhole
  BY TypedIs DEF PortalInv, CallsInv
<1>1. HereTyped'
  BY <1>0, SMT DEF Typed, HereTyped, EInvoice, Gst!Ask, Gst!bills, Gst!portal, Gst!Happens, Gst!At
<1>2. RowsTyped'
  BY <1>0, SMT DEF Typed, RowsTyped, States, Gst!Ask, Gst!bills, Gst!portal
<1>3. gAttempts' \in Seq(AttemptRow)
  BY <1>0, AttemptTypes, Zenon DEF Typed, Gst!Ask, Gst!bills, Gst!portal, Status
<1>4. PortalTyped'
  BY <1>0, PortalTypes, SMT DEF Typed, PortalTyped, Gst!Ask, Gst!bills, Gst!portal
<1>5. gTask' \in [Gst!Procs -> TaskRow]
  BY <1>0, TaskTypes, StartTypes, Zenon DEF Gst!Ask
<1>6. FlagsTyped'
  BY <1>0, SMT DEF Typed, FlagsTyped, Gst!Ask, Gst!bills, Gst!portal, Gst!Happens
<1> QED BY <1>1, <1>2, <1>3, <1>4, <1>5, <1>6, TypedIs DEF Typed

LEMMA CheckType ==
  ASSUME Bounded, PortalInv, DOMAIN gPortalBills \subseteq Gst!Bills, NEW p \in Gst!Procs, Gst!Check(p)
  PROVE Gst!TypeOK'
<1>0. Gst!TypeOK /\ Typed /\ TasksAreWhole
  BY TypedIs DEF PortalInv, CallsInv
<1>1. HereTyped'
  BY <1>0, SMT DEF Typed, HereTyped, EInvoice, Gst!Check, Gst!bills, Gst!portal, Gst!Happens, Gst!At
<1>2. RowsTyped'
  BY <1>0, SMT DEF Typed, RowsTyped, States, Gst!Check, Gst!bills, Gst!portal
<1>3. gAttempts' \in Seq(AttemptRow)
  BY <1>0, AttemptTypes, Zenon DEF Typed, Gst!Check, Gst!bills, Gst!portal, Status
<1>4. PortalTyped'
  BY <1>0, PortalTypes, SMT DEF Typed, PortalTyped, Gst!Check, Gst!bills, Gst!portal
<1>5. gTask' \in [Gst!Procs -> TaskRow]
  BY <1>0, TaskTypes, Zenon DEF Gst!Check, Stages
<1>6. FlagsTyped'
  BY <1>0, SMT DEF Typed, FlagsTyped, Gst!Check, Gst!bills, Gst!portal, Gst!Happens
<1> QED BY <1>1, <1>2, <1>3, <1>4, <1>5, <1>6, TypedIs DEF Typed

LEMMA OpenType ==
  ASSUME Bounded, PortalInv, DOMAIN gPortalBills \subseteq Gst!Bills, NEW p \in Gst!Procs, Gst!Open(p)
  PROVE Gst!TypeOK'
<1>0. Gst!TypeOK /\ Typed /\ TasksAreWhole
  BY TypedIs DEF PortalInv, CallsInv
<1>1. HereTyped'
  BY <1>0, SMT DEF Typed, HereTyped, EInvoice, Gst!Open, Gst!bills, Gst!portal, Gst!Happens, Gst!At
<1>2. RowsTyped'
  BY <1>0, SMT DEF Typed, RowsTyped, States, Gst!Open, Gst!bills, Gst!portal
<1>3. gAttempts' \in Seq(AttemptRow)
  <2>1. gTask[p].op \in Gst!Ops
    BY <1>0, SMT DEF TasksAreWhole, Gst!Open, Gst!Idle, Gst!Ops
  <2> QED BY <1>0, <2>1, AttemptTypes, Zenon DEF Typed, Gst!Open
<1>4. PortalTyped'
  BY <1>0, PortalTypes, SMT DEF Typed, PortalTyped, Gst!Open, Gst!bills, Gst!portal
<1>5. gTask' \in [Gst!Procs -> TaskRow]
  <2>1. gTask[p].op \in Gst!Ops
    BY <1>0, SMT DEF TasksAreWhole, Gst!Open, Gst!Idle, Gst!Ops
  <2> QED BY <1>0, <2>1, AttemptTypes, TaskTypes, Zenon DEF Gst!Open
<1>6. FlagsTyped'
  <2>1. gOverlapped' = (gOverlapped \/ (gTask[p].op = "ewb.generate" /\ Gst!LiveBill))
          \/ gOverlapped' = gOverlapped
    BY Zenon DEF Gst!Open, Gst!Opened
  <2> QED BY <1>0, <2>1, Zenon DEF Typed, FlagsTyped, Gst!Open
<1> QED BY <1>1, <1>2, <1>3, <1>4, <1>5, <1>6, TypedIs DEF Typed

LEMMA NotOkType ==
  ASSUME Bounded, PortalInv, DOMAIN gPortalBills \subseteq Gst!Bills, NEW p \in Gst!Procs, Gst!NotOk(p)
  PROVE Gst!TypeOK'
<1>0. Gst!TypeOK /\ Typed /\ TasksAreWhole
  BY TypedIs DEF PortalInv, CallsInv
<1>1. HereTyped'
  BY <1>0, SMT DEF Typed, HereTyped, EInvoice, Gst!NotOk, Gst!bills, Gst!portal, Gst!Happens, Gst!At
<1>2. RowsTyped'
  BY <1>0, SMT DEF Typed, RowsTyped, States, Gst!NotOk, Gst!bills, Gst!portal
<1>3. gAttempts' \in Seq(AttemptRow)
  BY <1>0, MarkTypes, Zenon DEF Typed, Gst!NotOk, Status
<1>4. PortalTyped'
  BY <1>0, PortalTypes, SMT DEF Typed, PortalTyped, Gst!NotOk, Gst!bills, Gst!portal
<1>5. gTask' \in [Gst!Procs -> TaskRow]
  BY <1>0, TaskTypes, Zenon DEF Typed, Gst!NotOk, Gst!bills, Gst!portal
<1>6. FlagsTyped'
  BY <1>0, SMT DEF Typed, FlagsTyped, Gst!NotOk, Gst!bills, Gst!portal, Gst!Happens
<1> QED BY <1>1, <1>2, <1>3, <1>4, <1>5, <1>6, TypedIs DEF Typed

LEMMA IrnCancelledType ==
  ASSUME Bounded, PortalInv, DOMAIN gPortalBills \subseteq Gst!Bills, NEW p \in Gst!Procs, Gst!IrnCancelled(p)
  PROVE Gst!TypeOK'
<1>0. Gst!TypeOK /\ Typed /\ TasksAreWhole
  BY TypedIs DEF PortalInv, CallsInv
<1>1. HereTyped'
  BY <1>0, SMT DEF Typed, HereTyped, EInvoice, Gst!IrnCancelled, Gst!bills, Gst!portal, Gst!Happens, Gst!At
<1>2. RowsTyped'
  BY <1>0, SMT DEF Typed, RowsTyped, States, Gst!IrnCancelled, Gst!bills, Gst!portal
<1>3. gAttempts' \in Seq(AttemptRow)
  <2>1. gTask[p].st = "answered" /\ gTask[p].op # "irn.generate"
    BY SMT DEF Gst!IrnCancelled, Gst!At
  <2> QED BY <1>0, <2>1, MarkTypes, Zenon DEF Typed, Gst!IrnCancelled, Status
<1>4. PortalTyped'
  BY <1>0, PortalTypes, SMT DEF Typed, PortalTyped, Gst!IrnCancelled, Gst!bills, Gst!portal
<1>5. gTask' \in [Gst!Procs -> TaskRow]
  BY <1>0, TaskTypes, Zenon DEF Typed, Gst!IrnCancelled, Gst!bills, Gst!portal
<1>6. FlagsTyped'
  BY <1>0, SMT DEF Typed, FlagsTyped, Gst!IrnCancelled, Gst!bills, Gst!portal, Gst!Happens
<1> QED BY <1>1, <1>2, <1>3, <1>4, <1>5, <1>6, TypedIs DEF Typed

LEMMA RecordBillType ==
  ASSUME Bounded, PortalInv, DOMAIN gPortalBills \subseteq Gst!Bills, NEW p \in Gst!Procs, Gst!RecordBill(p)
  PROVE Gst!TypeOK'
<1>0. Gst!TypeOK /\ Typed /\ TasksAreWhole
  BY TypedIs DEF PortalInv, CallsInv
<1>1. HereTyped'
  BY <1>0, SMT DEF Typed, HereTyped, EInvoice, Gst!RecordBill, Gst!bills, Gst!portal, Gst!Happens, Gst!At
<1>2. RowsTyped'
  <2>1. gTask[p].answer.bill \in Gst!Bills
    BY <1>0, SMT DEF Gst!RecordBill, PortalInv, CallsInv, AnswersAreTrue, AnswerIsTrue
  <2> QED BY <1>0, <2>1, SMT DEF Typed, RowsTyped, States, Gst!RecordBill, Gst!bills
<1>3. gAttempts' \in Seq(AttemptRow)
  <2>1. gTask[p].st = "found" \/ (gTask[p].st = "answered" /\ gTask[p].op # "irn.generate")
    BY SMT DEF Gst!RecordBill, Gst!At
  <2> QED BY <1>0, <2>1, MarkTypes, Zenon DEF Typed, Gst!RecordBill, Gst!Throws, Gst!GivesUp, Status
<1>4. PortalTyped'
  BY <1>0, PortalTypes, SMT DEF Typed, PortalTyped, Gst!RecordBill, Gst!bills, Gst!portal
<1>5. gTask' \in [Gst!Procs -> TaskRow]
  BY <1>0, TaskTypes, Zenon DEF Typed, Gst!RecordBill, Gst!bills, Gst!portal
<1>6. FlagsTyped'
  BY <1>0, Zenon DEF Typed, FlagsTyped, Gst!RecordBill, Gst!Throws
<1> QED BY <1>1, <1>2, <1>3, <1>4, <1>5, <1>6, TypedIs DEF Typed

LEMMA CancelBillType ==
  ASSUME Bounded, PortalInv, DOMAIN gPortalBills \subseteq Gst!Bills, NEW n \in DOMAIN gPortalBills,
         Gst!CancelBill(n)
  PROVE Gst!TypeOK'
<1>0. Gst!TypeOK /\ Typed /\ TasksAreWhole
  BY TypedIs DEF PortalInv, CallsInv
<1>1. HereTyped'
  BY <1>0, SMT DEF Typed, HereTyped, EInvoice, Gst!CancelBill, Gst!bills, Gst!portal, Gst!Happens, Gst!At
<1>2. RowsTyped'
  BY <1>0, SMT DEF Typed, RowsTyped, States, Gst!CancelBill, Gst!bills, Gst!portal
<1>3. gAttempts' \in Seq(AttemptRow)
  BY <1>0, AttemptTypes, Zenon DEF Typed, Gst!CancelBill, Gst!bills, Gst!portal, Status
<1>4. PortalTyped'
  <2>1. [gPortalBills[n] EXCEPT !.status = "cancelled"] \in Bill
    <3>1. gPortalBills[n] \in Bill
      BY <1>0, BillsAreBills
    <3>2. \A b \in Bill : [b EXCEPT !.status = "cancelled"] \in Bill
      BY SMT DEF Bill
    <3> QED BY <3>1, <3>2, Zenon
  <2>2. gPortalBills' \in Seq(Bill)
    BY <1>0, <2>1, Shape, SMT DEF Typed, PortalTyped, Gst!CancelBill
  <2> QED BY <1>0, <2>2, Zenon DEF Typed, PortalTyped, Gst!CancelBill
<1>5. gTask' \in [Gst!Procs -> TaskRow]
  BY <1>0, TaskTypes, Zenon DEF Typed, Gst!CancelBill, Gst!bills, Gst!portal
<1>6. FlagsTyped'
  BY <1>0, SMT DEF Typed, FlagsTyped, Gst!CancelBill, Gst!bills, Gst!portal, Gst!Happens
<1> QED BY <1>1, <1>2, <1>3, <1>4, <1>5, <1>6, TypedIs DEF Typed

LEMMA GrowsDueType ==
  ASSUME Bounded, PortalInv, DOMAIN gPortalBills \subseteq Gst!Bills, NEW i \in DOMAIN gAttempts, Gst!GrowsDue(i)
  PROVE Gst!TypeOK'
<1>0. Gst!TypeOK /\ Typed /\ TasksAreWhole
  BY TypedIs DEF PortalInv, CallsInv
<1>1. HereTyped'
  BY <1>0, SMT DEF Typed, HereTyped, EInvoice, Gst!GrowsDue, Gst!bills, Gst!portal, Gst!Happens, Gst!At
<1>2. RowsTyped'
  BY <1>0, SMT DEF Typed, RowsTyped, States, Gst!GrowsDue, Gst!bills, Gst!portal
<1>3. gAttempts' \in Seq(AttemptRow)
  BY <1>0, AttemptTypes, Zenon DEF Typed, Gst!GrowsDue, Gst!bills, Gst!portal, Status
<1>4. PortalTyped'
  BY <1>0, PortalTypes, SMT DEF Typed, PortalTyped, Gst!GrowsDue, Gst!bills, Gst!portal
<1>5. gTask' \in [Gst!Procs -> TaskRow]
  BY <1>0, TaskTypes, Zenon DEF Typed, Gst!GrowsDue, Gst!bills, Gst!portal
<1>6. FlagsTyped'
  BY <1>0, SMT DEF Typed, FlagsTyped, Gst!GrowsDue, Gst!bills, Gst!portal, Gst!Happens
<1> QED BY <1>1, <1>2, <1>3, <1>4, <1>5, <1>6, TypedIs DEF Typed

LEMMA GrowsOldType ==
  ASSUME Bounded, PortalInv, DOMAIN gPortalBills \subseteq Gst!Bills, NEW i \in DOMAIN gAttempts, Gst!GrowsOld(i)
  PROVE Gst!TypeOK'
<1>0. Gst!TypeOK /\ Typed /\ TasksAreWhole
  BY TypedIs DEF PortalInv, CallsInv
<1>1. HereTyped'
  BY <1>0, SMT DEF Typed, HereTyped, EInvoice, Gst!GrowsOld, Gst!bills, Gst!portal, Gst!Happens, Gst!At
<1>2. RowsTyped'
  BY <1>0, SMT DEF Typed, RowsTyped, States, Gst!GrowsOld, Gst!bills, Gst!portal
<1>3. gAttempts' \in Seq(AttemptRow)
  BY <1>0, AttemptTypes, Zenon DEF Typed, Gst!GrowsOld, Gst!bills, Gst!portal, Status
<1>4. PortalTyped'
  BY <1>0, PortalTypes, SMT DEF Typed, PortalTyped, Gst!GrowsOld, Gst!bills, Gst!portal
<1>5. gTask' \in [Gst!Procs -> TaskRow]
  BY <1>0, TaskTypes, Zenon DEF Typed, Gst!GrowsOld, Gst!bills, Gst!portal
<1>6. FlagsTyped'
  BY <1>0, SMT DEF Typed, FlagsTyped, Gst!GrowsOld, Gst!bills, Gst!portal, Gst!Happens
<1> QED BY <1>1, <1>2, <1>3, <1>4, <1>5, <1>6, TypedIs DEF Typed

LEMMA RecheckType ==
  ASSUME Bounded, PortalInv, DOMAIN gPortalBills \subseteq Gst!Bills, NEW i \in DOMAIN gAttempts, Gst!Recheck(i)
  PROVE Gst!TypeOK'
<1>0. Gst!TypeOK /\ Typed /\ TasksAreWhole
  BY TypedIs DEF PortalInv, CallsInv
<1>1. HereTyped'
  BY <1>0, SMT DEF Typed, HereTyped, EInvoice, Gst!Recheck, Gst!bills, Gst!portal, Gst!Happens, Gst!At
<1>2. RowsTyped'
  BY <1>0, SMT DEF Typed, RowsTyped, States, Gst!Recheck, Gst!bills, Gst!portal
<1>3. gAttempts' \in Seq(AttemptRow)
  BY <1>0, AttemptTypes, Zenon DEF Typed, Gst!Recheck, Gst!bills, Gst!portal, Status
<1>4. PortalTyped'
  BY <1>0, PortalTypes, SMT DEF Typed, PortalTyped, Gst!Recheck, Gst!bills, Gst!portal
<1>5. gTask' \in [Gst!Procs -> TaskRow]
  BY <1>0, TaskTypes, Zenon DEF Typed, Gst!Recheck, Gst!bills, Gst!portal
<1>6. FlagsTyped'
  BY <1>0, SMT DEF Typed, FlagsTyped, Gst!Recheck, Gst!bills, Gst!portal, Gst!Happens
<1> QED BY <1>1, <1>2, <1>3, <1>4, <1>5, <1>6, TypedIs DEF Typed

LEMMA TakeUpType ==
  ASSUME Bounded, PortalInv, DOMAIN gPortalBills \subseteq Gst!Bills, NEW p \in Gst!Procs,
         NEW i \in DOMAIN gAttempts, Gst!TakeUp(p, i)
  PROVE Gst!TypeOK'
<1>0. Gst!TypeOK /\ Typed /\ TasksAreWhole
  BY TypedIs DEF PortalInv, CallsInv
<1>1. HereTyped'
  BY <1>0, SMT DEF Typed, HereTyped, EInvoice, Gst!TakeUp, Gst!bills, Gst!portal, Gst!Happens, Gst!At
<1>2. RowsTyped'
  BY <1>0, SMT DEF Typed, RowsTyped, States, Gst!TakeUp, Gst!bills, Gst!portal
<1>3. gAttempts' \in Seq(AttemptRow)
  BY <1>0, AttemptTypes, Zenon DEF Typed, Gst!TakeUp, Gst!bills, Gst!portal, Status
<1>4. PortalTyped'
  BY <1>0, PortalTypes, SMT DEF Typed, PortalTyped, Gst!TakeUp, Gst!bills, Gst!portal
<1>5. gTask' \in [Gst!Procs -> TaskRow]
  <2>1. gAttempts[i].op \in Gst!Ops /\ i \in Nat /\ (gAttempts[i].age = "old") \in BOOLEAN
    BY <1>0, Shape, SMT DEF AttemptRow
  <2>2. Gst!Begins(p, [Gst!Idle EXCEPT !.op = gAttempts[i].op, !.st = "looking", !.attempt = i,
                                       !.old = gAttempts[i].age = "old"])
    BY DEF Gst!TakeUp
  <2> QED BY <1>0, <2>1, <2>2, TaskTypes, StartTypes, Zenon
<1>6. FlagsTyped'
  BY <1>0, SMT DEF Typed, FlagsTyped, Gst!TakeUp, Gst!bills, Gst!portal, Gst!Happens
<1> QED BY <1>1, <1>2, <1>3, <1>4, <1>5, <1>6, TypedIs DEF Typed

LEMMA AbsentType ==
  ASSUME Bounded, PortalInv, DOMAIN gPortalBills \subseteq Gst!Bills, NEW p \in Gst!Procs, Gst!Absent(p)
  PROVE Gst!TypeOK'
<1>0. Gst!TypeOK /\ Typed /\ TasksAreWhole
  BY TypedIs DEF PortalInv, CallsInv
<1>1. HereTyped'
  BY <1>0, SMT DEF Typed, HereTyped, EInvoice, Gst!Absent, Gst!bills, Gst!portal, Gst!Happens, Gst!At
<1>2. RowsTyped'
  BY <1>0, SMT DEF Typed, RowsTyped, States, Gst!Absent, Gst!bills, Gst!portal
<1>3. gAttempts' \in Seq(AttemptRow)
  <2>1. gTask[p].st = "looking"
    BY SMT DEF Gst!Absent, Gst!At
  <2> QED BY <1>0, <2>1, MarkTypes, Zenon DEF Typed, Gst!Absent, Gst!Throws, Gst!GivesUp, Status
<1>4. PortalTyped'
  BY <1>0, PortalTypes, SMT DEF Typed, PortalTyped, Gst!Absent, Gst!bills, Gst!portal
<1>5. gTask' \in [Gst!Procs -> TaskRow]
  BY <1>0, TaskTypes, Zenon DEF Typed, Gst!Absent, Gst!bills, Gst!portal
<1>6. FlagsTyped'
  BY <1>0, SMT DEF Typed, FlagsTyped, Gst!Absent, Gst!bills, Gst!portal, Gst!Happens
<1> QED BY <1>1, <1>2, <1>3, <1>4, <1>5, <1>6, TypedIs DEF Typed

LEMMA FoundCancelledType ==
  ASSUME Bounded, PortalInv, DOMAIN gPortalBills \subseteq Gst!Bills, NEW p \in Gst!Procs, Gst!FoundCancelled(p)
  PROVE Gst!TypeOK'
<1>0. Gst!TypeOK /\ Typed /\ TasksAreWhole
  BY TypedIs DEF PortalInv, CallsInv
<1>1. HereTyped'
  BY <1>0, SMT DEF Typed, HereTyped, EInvoice, Gst!FoundCancelled, Gst!bills, Gst!portal, Gst!Happens, Gst!At
<1>2. RowsTyped'
  BY <1>0, SMT DEF Typed, RowsTyped, States, Gst!FoundCancelled, Gst!bills, Gst!portal
<1>3. gAttempts' \in Seq(AttemptRow)
  <2>1. gTask[p].st = "looking"
    BY SMT DEF Gst!FoundCancelled, Gst!At
  <2> QED BY <1>0, <2>1, MarkTypes, Zenon DEF Typed, Gst!FoundCancelled, Gst!Throws, Gst!GivesUp, Status
<1>4. PortalTyped'
  BY <1>0, PortalTypes, SMT DEF Typed, PortalTyped, Gst!FoundCancelled, Gst!bills, Gst!portal
<1>5. gTask' \in [Gst!Procs -> TaskRow]
  BY <1>0, TaskTypes, Zenon DEF Typed, Gst!FoundCancelled, Gst!bills, Gst!portal
<1>6. FlagsTyped'
  BY <1>0, SMT DEF Typed, FlagsTyped, Gst!FoundCancelled, Gst!bills, Gst!portal, Gst!Happens
<1> QED BY <1>1, <1>2, <1>3, <1>4, <1>5, <1>6, TypedIs DEF Typed

LEMMA FoundBillType ==
  ASSUME Bounded, PortalInv, DOMAIN gPortalBills \subseteq Gst!Bills, NEW p \in Gst!Procs, Gst!FoundBill(p)
  PROVE Gst!TypeOK'
<1>0. Gst!TypeOK /\ Typed /\ TasksAreWhole
  BY TypedIs DEF PortalInv, CallsInv
<1>1. HereTyped'
  BY <1>0, SMT DEF Typed, HereTyped, EInvoice, Gst!FoundBill, Gst!bills, Gst!portal, Gst!Happens, Gst!At
<1>2. RowsTyped'
  BY <1>0, SMT DEF Typed, RowsTyped, States, Gst!FoundBill, Gst!bills, Gst!portal
<1>3. gAttempts' \in Seq(AttemptRow)
  <2>1. gTask[p].st = "looking"
    BY SMT DEF Gst!FoundBill, Gst!At
  <2> QED BY <1>0, <2>1, MarkTypes, Zenon DEF Typed, Gst!FoundBill, Gst!Throws, Gst!GivesUp, Status
<1>4. PortalTyped'
  BY <1>0, PortalTypes, SMT DEF Typed, PortalTyped, Gst!FoundBill, Gst!bills, Gst!portal
<1>5. gTask' \in [Gst!Procs -> TaskRow]
  <2>1. DOMAIN gPortalBills \subseteq Nat
    BY <1>0, Shape, SMT
  <2>2. CASE Gst!Ends(p)
    BY <1>0, <2>2, TaskTypes, Zenon
  <2>3. ASSUME NEW n \in DOMAIN gPortalBills, gTask' = [gTask EXCEPT ![p].st = "found", ![p].answer = Gst!Ok(n)]
        PROVE gTask' \in [Gst!Procs -> TaskRow]
    <3>1. gTask \in [Gst!Procs -> TaskRow] /\ Gst!Ok(n) \in AnswerRow
      BY <1>0, <2>1, AnswerTypes DEF Typed
    <3> HIDE DEF Gst!Ok
    <3> QED BY <2>3, <3>1, SMT DEF TaskRow, Stages, AnswerRow, Gst!Procs
  <2> QED BY <2>2, <2>3, Zenon DEF Gst!FoundBill
<1>6. FlagsTyped'
  BY <1>0, Zenon DEF Typed, FlagsTyped, Gst!FoundBill, Gst!Throws
<1> QED BY <1>1, <1>2, <1>3, <1>4, <1>5, <1>6, TypedIs DEF Typed

LEMMA LookupFailsType ==
  ASSUME Bounded, PortalInv, DOMAIN gPortalBills \subseteq Gst!Bills, NEW p \in Gst!Procs, Gst!LookupFails(p)
  PROVE Gst!TypeOK'
<1>0. Gst!TypeOK /\ Typed /\ TasksAreWhole
  BY TypedIs DEF PortalInv, CallsInv
<1>1. HereTyped'
  BY <1>0, SMT DEF Typed, HereTyped, EInvoice, Gst!LookupFails, Gst!bills, Gst!portal, Gst!Happens, Gst!At
<1>2. RowsTyped'
  BY <1>0, SMT DEF Typed, RowsTyped, States, Gst!LookupFails, Gst!bills, Gst!portal
<1>3. gAttempts' \in Seq(AttemptRow)
  <2>1. gTask[p].st = "looking"
    BY SMT DEF Gst!LookupFails, Gst!At
  <2> QED BY <1>0, <2>1, MarkTypes, Zenon DEF Typed, Gst!LookupFails, Gst!Throws, Gst!GivesUp, Status
<1>4. PortalTyped'
  BY <1>0, PortalTypes, SMT DEF Typed, PortalTyped, Gst!LookupFails, Gst!bills, Gst!portal
<1>5. gTask' \in [Gst!Procs -> TaskRow]
  BY <1>0, TaskTypes, Zenon DEF Typed, Gst!LookupFails, Gst!bills, Gst!portal
<1>6. FlagsTyped'
  <2>1. gEvents' \in Nat
    BY <1>0, SMT DEF Typed, FlagsTyped, Gst!LookupFails, Gst!Happens
  <2> QED BY <1>0, <2>1, Zenon DEF Typed, FlagsTyped, Gst!LookupFails, Gst!Throws
<1> QED BY <1>1, <1>2, <1>3, <1>4, <1>5, <1>6, TypedIs DEF Typed

LEMMA CancelDocumentType ==
  ASSUME Bounded, PortalInv, DOMAIN gPortalBills \subseteq Gst!Bills, Gst!CancelDocument
  PROVE Gst!TypeOK'
<1>0. Gst!TypeOK /\ Typed /\ TasksAreWhole
  BY TypedIs DEF PortalInv, CallsInv
<1>1. HereTyped'
  BY <1>0, SMT DEF Typed, HereTyped, EInvoice, Gst!CancelDocument, Gst!bills, Gst!portal, Gst!Happens, Gst!At
<1>2. RowsTyped'
  BY <1>0, SMT DEF Typed, RowsTyped, States, Gst!CancelDocument, Gst!bills, Gst!portal
<1>3. gAttempts' \in Seq(AttemptRow)
  BY <1>0, AttemptTypes, Zenon DEF Typed, Gst!CancelDocument, Gst!bills, Gst!portal, Status
<1>4. PortalTyped'
  BY <1>0, PortalTypes, SMT DEF Typed, PortalTyped, Gst!CancelDocument, Gst!bills, Gst!portal
<1>5. gTask' \in [Gst!Procs -> TaskRow]
  BY <1>0, TaskTypes, Zenon DEF Typed, Gst!CancelDocument, Gst!bills, Gst!portal
<1>6. FlagsTyped'
  BY <1>0, SMT DEF Typed, FlagsTyped, Gst!CancelDocument, Gst!bills, Gst!portal, Gst!Happens
<1> QED BY <1>1, <1>2, <1>3, <1>4, <1>5, <1>6, TypedIs DEF Typed

LEMMA DieType ==
  ASSUME Bounded, PortalInv, DOMAIN gPortalBills \subseteq Gst!Bills, NEW p \in Gst!Procs, Gst!Die(p)
  PROVE Gst!TypeOK'
<1>0. Gst!TypeOK /\ Typed /\ TasksAreWhole
  BY TypedIs DEF PortalInv, CallsInv
<1>1. HereTyped'
  BY <1>0, SMT DEF Typed, HereTyped, EInvoice, Gst!Die, Gst!bills, Gst!portal, Gst!Happens, Gst!At
<1>2. RowsTyped'
  BY <1>0, SMT DEF Typed, RowsTyped, States, Gst!Die, Gst!bills, Gst!portal
<1>3. gAttempts' \in Seq(AttemptRow)
  BY <1>0, AttemptTypes, Zenon DEF Typed, Gst!Die, Gst!bills, Gst!portal, Status
<1>4. PortalTyped'
  BY <1>0, PortalTypes, SMT DEF Typed, PortalTyped, Gst!Die, Gst!bills, Gst!portal
<1>5. gTask' \in [Gst!Procs -> TaskRow]
  BY <1>0, TaskTypes, Zenon DEF Typed, Gst!Die, Gst!bills, Gst!portal
<1>6. FlagsTyped'
  BY <1>0, SMT DEF Typed, FlagsTyped, Gst!Die, Gst!bills, Gst!portal, Gst!Happens
<1> QED BY <1>1, <1>2, <1>3, <1>4, <1>5, <1>6, TypedIs DEF Typed

LEMMA ArriveType ==
  ASSUME Bounded, PortalInv, DOMAIN gPortalBills \subseteq Gst!Bills, NEW m \in gWire, Gst!Arrive(m)
  PROVE Gst!TypeOK'
<1>0. Gst!TypeOK /\ Typed /\ TasksAreWhole
  BY TypedIs DEF PortalInv, CallsInv
<1>1. HereTyped'
  BY <1>0, SMT DEF Typed, HereTyped, EInvoice, Gst!Arrive, Gst!bills, Gst!portal, Gst!Happens, Gst!At
<1>2. RowsTyped'
  BY <1>0, SMT DEF Typed, RowsTyped, States, Gst!Arrive, Gst!bills, Gst!portal
<1>3. gAttempts' \in Seq(AttemptRow)
  BY <1>0, AttemptTypes, Zenon DEF Typed, Gst!Arrive, Gst!bills, Gst!portal, Status
<1>4. PortalTyped'
  <2>1. m.op \in Gst!Ops \cup {"irn.generate"} /\ m.attempt \in Nat /\ Gst!Done(m.op, m.attempt)
          /\ gWire' \subseteq Request
    BY <1>0, SMT DEF Typed, PortalTyped, Request, Gst!Arrive
  <2> QED BY <1>0, <2>1, PortalTypes, Zenon DEF PortalTyped, States
<1>5. gTask' \in [Gst!Procs -> TaskRow]
  BY <1>0, TaskTypes, Zenon DEF Typed, Gst!Arrive, Gst!bills, Gst!portal
<1>6. FlagsTyped'
  BY <1>0, SMT DEF Typed, FlagsTyped, Gst!Arrive, Gst!bills, Gst!portal, Gst!Happens
<1> QED BY <1>1, <1>2, <1>3, <1>4, <1>5, <1>6, TypedIs DEF Typed

LEMMA EndedQuietly ==
  ASSUME PortalInv, NEW p \in Gst!Procs, gTask'[p] = Gst!Idle, Others(p),
         UNCHANGED <<Gst!portal, Gst!bills, gAttempts, gEinvoice>>,
     gAdopted => gAdopted', gUnsure => gUnsure', gOverlapped => gOverlapped'
  PROVE CallsInv' /\ IrnInv' /\ BillInv'
<1>1. UNCHANGED <<gWire, gPortalIrn, gPortalBills>>
  BY DEF Gst!portal
<1>2. CallsInv'
  BY EndKeepsCalls
<1>3. \A q \in Gst!Procs : gTask'[q] = gTask[q] \/ gTask'[q] = Gst!Idle
  BY DEF Others
<1>4. IrnInv'
  BY <1>1, <1>2, <1>3, QuietForIrn DEF CallsInv, Gst!Idle, Generates
<1>5. BillInv'
  BY <1>1, <1>3, QuietForBills DEF Gst!Idle
<1> QED BY <1>2, <1>4, <1>5

LEMMA EndedWithBill ==
  ASSUME PortalInv, NEW p \in Gst!Procs, NEW s \in {"settled", "failed"}, gTask'[p] = Gst!Idle, Others(p),
         UNCHANGED <<Gst!portal, gEinvoice>>,
     IsMarked(gTask[p].attempt, s), IsOf(gTask[p].attempt, "ewb.generate"), gAdopted => gAdopted', gUnsure
         => gUnsure'
  PROVE CallsInv' /\ IrnInv'
<1>1. UNCHANGED <<gWire, gPortalIrn, gPortalBills>>
  BY DEF Gst!portal
<1>2. CallsInv'
  BY EndKeepsCalls
<1>3. \A q \in Gst!Procs : gTask'[q] = gTask[q] \/ gTask'[q] = Gst!Idle
  BY DEF Others
<1>4. /\ DOMAIN gAttempts' = DOMAIN gAttempts
      /\ \A k \in DOMAIN gAttempts : gAttempts'[k].op = gAttempts[k].op /\ (gAttempts[k].op = "irn.cancel"
           => gAttempts'[k].status = gAttempts[k].status)
  BY DEF IsMarked, IsOf
<1>5. IrnInv'
  BY <1>1, <1>2, <1>3, <1>4, QuietForIrn DEF CallsInv, Gst!Idle, Generates
<1> QED BY <1>2, <1>5

LEMMA EndedWithCancel ==
  ASSUME PortalInv, NEW p \in Gst!Procs, NEW s \in {"settled", "failed"}, gTask'[p] = Gst!Idle, Others(p),
         UNCHANGED <<Gst!portal, Gst!bills>>,
     IsMarked(gTask[p].attempt, s), IsOf(gTask[p].attempt, "irn.cancel"), gOverlapped => gOverlapped', gUnsure
         => gUnsure'
  PROVE CallsInv' /\ BillInv'
<1>1. UNCHANGED <<gWire, gPortalIrn, gPortalBills>>
  BY DEF Gst!portal
<1>2. CallsInv'
  BY EndKeepsCalls
<1>3. \A q \in Gst!Procs : gTask'[q] = gTask[q] \/ gTask'[q] = Gst!Idle
  BY DEF Others
<1>4. /\ DOMAIN gAttempts' = DOMAIN gAttempts
      /\ \A k \in DOMAIN gAttempts : gAttempts'[k].op = gAttempts[k].op /\ (gAttempts[k].op = "ewb.generate"
           => gAttempts'[k].status = gAttempts[k].status)
  BY DEF IsMarked, IsOf
<1>5. BillInv'
  BY <1>1, <1>3, <1>4, QuietForBills DEF Gst!Idle
<1> QED BY <1>2, <1>5

LEMMA SteppedQuietly ==
  ASSUME PortalInv, NEW p \in Gst!Procs, Others(p),
         UNCHANGED <<Gst!portal, Gst!bills, gAdopted, gUnsure, gOverlapped>>,
    gTask'[p].st \in {"asked", "claimed", "looking", "found", "checked"},
    DOMAIN gAttempts' = DOMAIN gAttempts, Len(gAttempts') = Len(gAttempts),
    \A k \in DOMAIN gAttempts : gAttempts'[k].op = gAttempts[k].op /\ gAttempts'[k].status = gAttempts[k].status
      /\ gAttempts'[k].age = gAttempts[k].age,
    \/ gTask'[p].op \in Gst!Ops /\ gTask'[p].st \in {"asked", "checked"} /\ gTask'[p].attempt = 0
    \/ gTask'[p].op = "irn.generate" /\ gTask'[p].st = "claimed" /\ gTask'[p].attempt = 0
    \/ /\ gTask'[p].op \in Gst!Ops /\ gTask'[p].st = "looking" /\ IsOf(gTask'[p].attempt, gTask'[p].op)
       /\ gTask'[p].old => Open_(gTask'[p].attempt) /\ gAttempts[gTask'[p].attempt].age = "old"
    \/ /\ gTask'[p].op = "ewb.generate" /\ gTask'[p].st = "found" /\ IsOf(gTask'[p].attempt, gTask'[p].op)
       /\ gTask'[p].answer.is = "ok" /\ gTask'[p].answer.bill \in DOMAIN gPortalBills
  PROVE CallsInv' /\ BillInv' /\ (gTask'[p].op \in Gst!Ops /\ gTask'[p].st # "checked" /\ UNCHANGED gEinvoice
          => IrnInv')
<1>1. UNCHANGED <<gWire, gPortalIrn, gPortalBills>>
  BY DEF Gst!portal
<1>2. CallsInv'
  BY StepKeepsCalls
<1>3. \A q \in Gst!Procs : gTask'[q] = gTask[q] \/ gTask'[q].st # "ready"
  BY DEF Others
<1>4. BillInv'
  BY <1>1, <1>3, QuietForBills
<1>5. ASSUME gTask'[p].op \in Gst!Ops, gTask'[p].st # "checked", UNCHANGED gEinvoice PROVE IrnInv'
  <2>1. \A q \in Gst!Procs : \/ gTask'[q] = gTask[q]
                             \/ ~Generates(q)' /\ gTask'[q].st # "checked"
                                  /\ ~(gTask'[q].op = "irn.cancel"
                                  /\ gTask'[q].st \in {"ready", "answered"})
    BY <1>5 DEF Others, Generates, Gst!Ops
  <2>2. TasksAreWhole'
    BY <1>2 DEF CallsInv
  <2> QED BY <1>1, <1>5, <2>1, <2>2, QuietForIrn
<1> QED BY <1>2, <1>4, <1>5

LEMMA WasTouched == ASSUME Gst!TypeOK, NEW i \in DOMAIN gAttempts,
     (\E a : gAttempts' = [gAttempts EXCEPT ![i].age = a])
         \/ \E c : gAttempts' = [gAttempts EXCEPT ![i].checked = c]
  PROVE /\ DOMAIN gAttempts' = DOMAIN gAttempts /\ Len(gAttempts') = Len(gAttempts)
        /\ \A k \in DOMAIN gAttempts : gAttempts'[k].op = gAttempts[k].op
             /\ gAttempts'[k].status = gAttempts[k].status
        /\ \A k \in DOMAIN gAttempts : k # i => gAttempts'[k] = gAttempts[k]
        /\ (\E c : gAttempts' = [gAttempts EXCEPT ![i].checked = c])
             => \A k \in DOMAIN gAttempts : gAttempts'[k].age = gAttempts[k].age
<1>1. gAttempts \in Seq(AttemptRow)
  BY DEF Gst!TypeOK, AttemptRow, Status
<1>2. ASSUME NEW a, gAttempts' = [gAttempts EXCEPT ![i].age = a] PROVE
        /\ DOMAIN gAttempts' = DOMAIN gAttempts /\ Len(gAttempts') = Len(gAttempts)
        /\ \A k \in DOMAIN gAttempts : gAttempts'[k].op = gAttempts[k].op
             /\ gAttempts'[k].status = gAttempts[k].status
        /\ \A k \in DOMAIN gAttempts : k # i => gAttempts'[k] = gAttempts[k]
  BY <1>1, <1>2, SMT DEF AttemptRow
<1>3. ASSUME NEW a, gAttempts' = [gAttempts EXCEPT ![i].checked = a] PROVE
        /\ DOMAIN gAttempts' = DOMAIN gAttempts /\ Len(gAttempts') = Len(gAttempts)
        /\ \A k \in DOMAIN gAttempts : gAttempts'[k].op = gAttempts[k].op
             /\ gAttempts'[k].status = gAttempts[k].status /\ gAttempts'[k].age = gAttempts[k].age
        /\ \A k \in DOMAIN gAttempts : k # i => gAttempts'[k] = gAttempts[k]
  BY <1>1, <1>3, SMT DEF AttemptRow
<1> QED BY <1>2, <1>3

LEMMA StoodStill ==
  ASSUME PortalInv, NEW i, UNCHANGED <<Gst!portal, Gst!bills, gTask, gEinvoice, gAdopted, gUnsure, gOverlapped>>,
    DOMAIN gAttempts' = DOMAIN gAttempts, Len(gAttempts') = Len(gAttempts),
    \A k \in DOMAIN gAttempts : gAttempts'[k].op = gAttempts[k].op /\ gAttempts'[k].status = gAttempts[k].status,
    \A k \in DOMAIN gAttempts : k # i => gAttempts'[k] = gAttempts[k],
    i \in DOMAIN gAttempts /\ gAttempts'[i].age = "old" /\ gAttempts[i].age # "old"
        => (\A m \in gWire : m.attempt # i) /\ \A p \in Gst!Procs : gTask[p].attempt # i
  PROVE CallsInv' /\ IrnInv' /\ BillInv'
<1>1. UNCHANGED <<gWire, gPortalIrn, gPortalBills>>
  BY DEF Gst!portal
<1>2. CallsInv'
  BY <1>1, StillKeepsCalls
<1>3. IrnInv'
  BY <1>1, <1>2, QuietForIrn DEF CallsInv
<1>4. BillInv'
  BY <1>1, QuietForBills
<1> QED BY <1>2, <1>3, <1>4

LEMMA FewBills == ASSUME Bounded, PortalInv PROVE DOMAIN gPortalBills \subseteq Gst!Bills
  BY BillsAreFew DEF PortalInv, CallsInv

LEMMA AttemptIs == ASSUME PortalInv, NEW p \in Gst!Procs,
     gTask[p].st \in {"looking", "found"} \/ (gTask[p].st = "answered" /\ gTask[p].op # "irn.generate")
  PROVE gTask[p].op \in Gst!Ops /\ IsOf(gTask[p].attempt, gTask[p].op)
  BY MarkTypes DEF PortalInv, CallsInv

LEMMA SubmitKeeps ==
  ASSUME Bounded, PortalInv, NEW p \in Gst!Procs, Gst!Submit(p),
         gTask[p] = Gst!Idle \/ Gst!At(p, "irn.generate", "claimed")
  PROVE PortalInv'
<1>1. Gst!TypeOK'
  BY SubmitType, FewBills
<1>2. /\ UNCHANGED <<gAttempts, Gst!portal, Gst!bills, gUnsure, gOverlapped>> /\ Others(p)
      /\ gTask'[p].op = "irn.generate" /\ gTask'[p].st = "ready" /\ gTask'[p].attempt = 0
  BY Shape DEF Gst!Submit, Others, Gst!Idle, Gst!portal, Gst!bills, Gst!TypeOK, PortalInv
<1>3. CallsInv'
  BY <1>2, StepKeepsCalls
<1>4. IrnInv'
  BY <1>3, SubmitForIrn DEF CallsInv
<1>5. BillInv'
  <2>1. \A q \in Gst!Procs : gTask'[q] = gTask[q] \/ ~IsOf(gTask'[q].attempt, "ewb.generate")
    BY <1>2, Shape DEF Others, IsOf, PortalInv
  <2> QED BY <1>2, <2>1, QuietForBills DEF Gst!portal
<1> QED BY <1>1, <1>3, <1>4, <1>5 DEF PortalInv

LEMMA InvalidKeeps == ASSUME Bounded, PortalInv, NEW p \in Gst!Procs, Gst!Invalid(p) PROVE PortalInv'
<1>1. Gst!TypeOK'
  BY InvalidType, FewBills
<1>2. /\ UNCHANGED <<gAttempts, Gst!portal, Gst!bills, gAdopted, gUnsure, gOverlapped>> /\ gTask'[p] = Gst!Idle
           /\ Others(p)
      /\ gEinvoice' = [status |-> "failed", overdue |-> FALSE] /\ gEinvoice.status # "generated"
  BY EndsIdle DEF Gst!Invalid, PortalInv
<1>3. CallsInv'
  BY <1>2, EndKeepsCalls
<1>4. UNCHANGED <<gPortalIrn, gPortalBills, gWire>>
  BY <1>2 DEF Gst!portal
<1>5. gPortalIrn # "cancelled" => \A q \in Gst!Procs : Generates(q) => q = p
  BY DEF OneGenerates, Gst!Invalid, Gst!MayAsk, Gst!At, Gst!Idle, Generates, PortalInv, IrnInv
<1>6. OneGenerates'
  BY <1>2, <1>4, <1>5 DEF OneGenerates, Others, Generates, Gst!Idle
<1>7. NotYet' /\ AdoptedIsKnown' /\ CancelIsSettled'
  BY <1>2, <1>4 DEF PortalInv, IrnInv, NotYet, AdoptedIsKnown, Generated, Generates, Others, CancelIsSettled,
      Gst!Idle
<1>8. CancelsWhatIsThere'
  BY <1>2, <1>4 DEF PortalInv, IrnInv, CancelsWhatIsThere, Gst!At, Others, Gst!Idle
<1>9. CancelIsOpen'
  BY <1>2, <1>4 DEF PortalInv, IrnInv, CancelIsOpen, ReadyFor, Open_, Others, Gst!Idle
<1>10. BillInv'
  BY <1>2, <1>4, QuietForBills DEF Others, Gst!Idle
<1> QED BY <1>1, <1>3, <1>6, <1>7, <1>8, <1>9, <1>10 DEF PortalInv, IrnInv

LEMMA FinishIrnKeeps == ASSUME Bounded, PortalInv, NEW p \in Gst!Procs, Gst!FinishIrn(p) PROVE PortalInv'
<1>1. Gst!TypeOK'
  BY FinishIrnType, FewBills
<1>2. /\ UNCHANGED <<gAttempts, Gst!portal, Gst!bills, gUnsure, gOverlapped>> /\ gTask'[p] = Gst!Idle
           /\ Others(p)
  BY EndsIdle DEF Gst!FinishIrn, PortalInv
<1>3. CallsInv'
  BY <1>2, EndKeepsCalls
<1>4. IrnInv'
  BY FinishForIrn
<1>5. BillInv'
  BY <1>2, QuietForBills DEF Others, Gst!Idle, Gst!portal
<1> QED BY <1>1, <1>3, <1>4, <1>5 DEF PortalInv

LEMMA ClaimKeeps == ASSUME Bounded, PortalInv, NEW p \in Gst!Procs, Gst!Claim(p) PROVE PortalInv'
<1>1. Gst!TypeOK'
  BY ClaimType, FewBills
<1>2. /\ UNCHANGED <<gAttempts, Gst!portal, Gst!bills, gAdopted, gUnsure, gOverlapped>> /\ Others(p)
      /\ gTask'[p].op = "irn.generate" /\ gTask'[p].st = "claimed" /\ gTask'[p].attempt = 0
      /\ gEinvoice.status = "pending" /\ gEinvoice.overdue = TRUE
  BY Shape DEF Gst!Claim, Gst!Begins, Others, Gst!Idle, Gst!TypeOK, PortalInv
<1>3. gEinvoice' = [status |-> "pending", overdue |-> FALSE]
  <2>1. gEinvoice \in EInvoice
    BY TypedIs DEF Typed, HereTyped, PortalInv
  <2>2. gEinvoice' = [gEinvoice EXCEPT !.overdue = FALSE]
    BY DEF Gst!Claim
  <2>3. gEinvoice' \in EInvoice
    BY <2>1, <2>2, EInvoiceTypes
  <2>4. gEinvoice'.status = "pending" /\ gEinvoice'.overdue = FALSE
    BY <1>2, <2>1, <2>2 DEF EInvoice
  <2>5. \A e \in EInvoice : e = [status |-> e.status, overdue |-> e.overdue]
    BY DEF EInvoice
  <2>6. gEinvoice' = [status |-> gEinvoice'.status, overdue |-> gEinvoice'.overdue]
    BY <2>3, <2>5, Zenon
  <2> QED BY <2>4, <2>6, Zenon
<1>4. CallsInv' /\ BillInv'
  BY <1>2, SteppedQuietly
<1>5. UNCHANGED <<gPortalIrn, gPortalBills, gWire>>
  BY <1>2 DEF Gst!portal
<1>6. gPortalIrn # "cancelled" => \A q \in Gst!Procs : ~Generates(q)
  BY <1>2 DEF OneGenerates, Generates, PortalInv, IrnInv
<1>7. OneGenerates'
  BY <1>2, <1>3, <1>5, <1>6 DEF OneGenerates, Others, Generates
<1>8. NotYet' /\ AdoptedIsKnown' /\ CancelIsSettled'
  BY <1>2, <1>3, <1>5 DEF PortalInv, IrnInv, NotYet, AdoptedIsKnown, Generated, Generates, Others, CancelIsSettled
<1>9. CancelsWhatIsThere'
  BY <1>2, <1>3, <1>5 DEF PortalInv, IrnInv, CancelsWhatIsThere, Gst!At, Others
<1>10. CancelIsOpen'
  BY <1>2, <1>5 DEF PortalInv, IrnInv, CancelIsOpen, ReadyFor, Open_, Others
<1> QED BY <1>1, <1>4, <1>7, <1>8, <1>9, <1>10 DEF PortalInv, IrnInv

LEMMA GrowsOverdueKeeps == ASSUME Bounded, PortalInv, Gst!GrowsOverdue PROVE PortalInv'
<1>1. Gst!TypeOK'
  BY GrowsOverdueType, FewBills
<1>2. UNCHANGED <<gAttempts, Gst!portal, Gst!bills, gTask, gAdopted, gUnsure, gOverlapped>>
        /\ gEinvoice.status = "pending"
  BY DEF Gst!GrowsOverdue
<1>3. gEinvoice'.status = "pending"
  BY SMT DEF Gst!GrowsOverdue, Gst!TypeOK, PortalInv
<1>4. UNCHANGED <<gPortalIrn, gPortalBills, gWire>>
  BY <1>2 DEF Gst!portal
<1>5. CallsInv' /\ BillInv'
  BY <1>2, <1>4, StillKeepsCalls, QuietForBills
<1>6. OneGenerates'
  BY <1>2 DEF Gst!GrowsOverdue, OneGenerates, Generates
<1>7. NotYet' /\ AdoptedIsKnown' /\ CancelIsSettled' /\ CancelsWhatIsThere' /\ CancelIsOpen'
  BY <1>2, <1>3, <1>4 DEF PortalInv, IrnInv, NotYet, AdoptedIsKnown, Generated, Generates, CancelIsSettled,
      CancelsWhatIsThere, Gst!At, CancelIsOpen, ReadyFor, Open_
<1> QED BY <1>1, <1>5, <1>6, <1>7 DEF PortalInv, IrnInv

LEMMA QuietEndKeeps ==
  ASSUME Bounded, PortalInv, NEW p \in Gst!Procs, Gst!ReconcileInVain(p) \/ Gst!Die(p)
  PROVE PortalInv'
<1>1. Gst!TypeOK'
  BY ReconcileInVainType, DieType, FewBills
<1>2. UNCHANGED <<gAttempts, Gst!portal, Gst!bills, gEinvoice, gAdopted, gUnsure, gOverlapped>>
        /\ gTask'[p] = Gst!Idle /\ Others(p)
  BY EndsIdle DEF Gst!ReconcileInVain, Gst!Die, PortalInv
<1> QED BY <1>1, <1>2, EndedQuietly DEF PortalInv

LEMMA TimeKeeps ==
  ASSUME Bounded, PortalInv, NEW i \in DOMAIN gAttempts, Gst!GrowsDue(i) \/ Gst!GrowsOld(i) \/ Gst!Recheck(i)
  PROVE PortalInv'
<1>1. Gst!TypeOK'
  BY GrowsDueType, GrowsOldType, RecheckType, FewBills
<1>2. UNCHANGED <<Gst!portal, Gst!bills, gTask, gEinvoice, gAdopted, gUnsure, gOverlapped>>
  BY DEF Gst!GrowsDue, Gst!GrowsOld, Gst!Recheck
<1>3. (\E a : gAttempts' = [gAttempts EXCEPT ![i].age = a])
        \/ \E c : gAttempts' = [gAttempts EXCEPT ![i].checked = c]
  BY Zenon DEF Gst!GrowsDue, Gst!GrowsOld, Gst!Recheck
<1>4. gAttempts'[i].age = "old" /\ gAttempts[i].age # "old" => (\A m \in gWire : m.attempt # i)
        /\ \A p \in Gst!Procs : gTask[p].attempt # i
  <2>1. CASE Gst!GrowsDue(i)
    <3>1. gAttempts \in Seq(AttemptRow)
      BY DEF Gst!TypeOK, AttemptRow, Status, PortalInv
    <3>2. gAttempts'[i].age = "due"
      <4>1. gAttempts[i] \in AttemptRow /\ gAttempts' = [gAttempts EXCEPT ![i].age = "due"]
        BY <2>1, <3>1, SMT DEF Gst!GrowsDue
      <4>2. \A t \in AttemptRow : [t EXCEPT !.age = "due"].age = "due"
        BY SMT DEF AttemptRow
      <4>3. gAttempts'[i] = [gAttempts[i] EXCEPT !.age = "due"]
        BY <3>1, <4>1, Zenon
      <4> QED BY <4>1, <4>2, <4>3, Zenon
    <3> QED BY <3>2
  <2>2. CASE Gst!GrowsOld(i)
    BY <2>2 DEF Gst!GrowsOld
  <2>3. CASE Gst!Recheck(i)
    BY <2>3, WasTouched, Zenon DEF Gst!Recheck, PortalInv
  <2> QED BY <2>1, <2>2, <2>3
<1>5. CallsInv' /\ IrnInv' /\ BillInv'
  <2>1. /\ DOMAIN gAttempts' = DOMAIN gAttempts /\ Len(gAttempts') = Len(gAttempts)
        /\ \A k \in DOMAIN gAttempts : gAttempts'[k].op = gAttempts[k].op
             /\ gAttempts'[k].status = gAttempts[k].status
        /\ \A k \in DOMAIN gAttempts : k # i => gAttempts'[k] = gAttempts[k]
    BY <1>3, WasTouched DEF PortalInv
  <2> QED BY <1>2, <1>4, <2>1, StoodStill
<1> QED BY <1>1, <1>5 DEF PortalInv

LEMMA CancelDocumentKeeps == ASSUME Bounded, PortalInv, Gst!CancelDocument PROVE PortalInv'
<1>1. Gst!TypeOK'
  BY CancelDocumentType, FewBills
<1>2. UNCHANGED <<Gst!portal, Gst!bills, gAttempts, gTask, gEinvoice, gAdopted, gUnsure, gOverlapped>>
  BY DEF Gst!CancelDocument
<1> QED BY <1>1, <1>2, StoodStill DEF PortalInv

LEMMA CallPortalKeeps == ASSUME Bounded, PortalInv, NEW p \in Gst!Procs, Gst!CallPortal(p) PROVE PortalInv'
<1>1. Gst!TypeOK' /\ CallsInv'
  BY CallPortalType, FewBills, CallKeepsCalls
<1>2. DOMAIN gPortalBills' \subseteq Gst!Bills
  BY <1>1, BillsStayFew DEF CallsInv
<1> QED BY <1>1, <1>2, CallForIrn, CallForBills DEF PortalInv, CallsInv

LEMMA ArriveKeeps == ASSUME Bounded, PortalInv, NEW m \in gWire, Gst!Arrive(m) PROVE PortalInv'
<1>1. Gst!TypeOK'
  BY ArriveType, FewBills
<1>2. Did(m.op, m.attempt) /\ gWire' = gWire \ {m} /\ UNCHANGED <<gAttempts, gTask>>
  BY WhatIsDone DEF Gst!Arrive, Gst!TypeOK, PortalInv
<1>3. CallsInv'
  BY <1>2, ArrivalKeepsCalls DEF Did
<1>4. DOMAIN gPortalBills' \subseteq Gst!Bills
  BY <1>1, <1>3, BillsStayFew DEF CallsInv
<1> QED BY <1>1, <1>3, <1>4, ArrivalForIrn, ArrivalForBills DEF PortalInv

LEMMA AskKeeps == ASSUME Bounded, PortalInv, NEW p \in Gst!Procs, NEW op \in Gst!Ops, Gst!Ask(p, op) PROVE PortalInv'
<1>1. Gst!TypeOK'
  BY AskType, FewBills
<1>2. /\ UNCHANGED <<gAttempts, Gst!portal, Gst!bills, gEinvoice, gAdopted, gUnsure, gOverlapped>> /\ Others(p)
      /\ gTask'[p].op \in Gst!Ops /\ gTask'[p].st = "asked" /\ gTask'[p].attempt = 0
  BY Shape DEF Gst!Ask, Gst!Begins, Others, Gst!Idle, Gst!TypeOK, PortalInv
<1> QED BY <1>1, <1>2, SteppedQuietly DEF PortalInv

LEMMA CheckKeeps == ASSUME Bounded, PortalInv, NEW p \in Gst!Procs, Gst!Check(p) PROVE PortalInv'
<1>1. Gst!TypeOK'
  BY CheckType, FewBills
<1>2. UNCHANGED <<gAttempts, Gst!portal, Gst!bills, gEinvoice, gAdopted, gUnsure, gOverlapped>>
        /\ gTask[p].st = "asked"
  BY DEF Gst!Check
<1>3. CASE Gst!Ends(p)
  BY <1>1, <1>2, <1>3, EndsIdle, EndedQuietly DEF PortalInv
<1>4. CASE Gst!Goes(p, "checked") /\ Gst!MayGoOn(gTask[p].op)
  <2>1. gTask[p].op \in Gst!Ops /\ gTask[p].attempt = 0
    BY <1>2 DEF TasksAreWhole, Gst!Idle, PortalInv, CallsInv
  <2>2. /\ gTask'[p].op = gTask[p].op /\ gTask'[p].st = "checked" /\ gTask'[p].attempt = 0 /\ Others(p)
    BY <1>4, <2>1, Gone DEF Became, PortalInv
  <2>3. CallsInv' /\ BillInv'
    BY <1>2, <2>1, <2>2, SteppedQuietly
  <2>4. UNCHANGED <<gPortalIrn, gPortalBills, gWire>>
    BY <1>2 DEF Gst!portal
  <2>5. gTask[p].op = "irn.cancel" => gEinvoice.status = "generated"
    BY <1>4 DEF Gst!MayGoOn, Gst!Ops
  <2>6. NotYet' /\ AdoptedIsKnown' /\ CancelIsSettled' /\ OneGenerates'
    BY <1>2, <2>1, <2>2, <2>4 DEF PortalInv, IrnInv, NotYet, AdoptedIsKnown, Generated, Generates, Others,
        CancelIsSettled, OneGenerates, Sent, Open_, Gst!Ops
  <2>7. CancelsWhatIsThere'
    BY <1>2, <2>2, <2>4, <2>5 DEF PortalInv, IrnInv, CancelsWhatIsThere, Gst!At, Others
  <2>8. CancelIsOpen'
    BY <1>2, <2>2, <2>4 DEF PortalInv, IrnInv, CancelIsOpen, ReadyFor, Open_, Others
  <2> QED BY <1>1, <2>3, <2>6, <2>7, <2>8 DEF PortalInv, IrnInv
<1> QED BY <1>3, <1>4 DEF Gst!Check

LEMMA OpenKeeps == ASSUME Bounded, PortalInv, NEW p \in Gst!Procs, Gst!Open(p) PROVE PortalInv'
<1>1. Gst!TypeOK'
  BY OpenType, FewBills
<1>2. UNCHANGED <<Gst!portal, Gst!bills, gEinvoice, gAdopted, gUnsure>> /\ gTask[p].st = "checked"
  BY DEF Gst!Open
<1>3. CASE Gst!Ends(p) /\ UNCHANGED <<gAttempts, gOverlapped>>
  BY <1>1, <1>2, <1>3, EndsIdle, EndedQuietly DEF PortalInv
<1>4. CASE ~Gst!Pending(gTask[p].op) /\ Len(gAttempts) # MaxAttempts /\ Gst!Opened(p)
  <2> DEFINE n == Len(gAttempts) + 1
  <2>1. Became(p, "ready", n, gTask[p].answer) /\ IsAdded(n, gTask[p].op)
    BY <1>4, WasOpened DEF PortalInv
  <2>2. gOverlapped' = (gOverlapped \/ (gTask[p].op = "ewb.generate" /\ Gst!LiveBill))
    BY <1>4 DEF Gst!Opened
  <2> HIDE DEF n
  <2>3. n = Len(gAttempts) + 1
    BY DEF n
  <2>4. CallsInv'
    BY <1>2, <1>4, <2>1, <2>3, OpenKeepsCalls
  <2>5. IrnInv' /\ BillInv'
    BY <1>2, <2>1, <2>2, <2>3, OpenForBoth
  <2> QED BY <1>1, <2>4, <2>5 DEF PortalInv
<1> QED BY <1>3, <1>4 DEF Gst!Open

LEMMA TakeUpKeeps ==
  ASSUME Bounded, PortalInv, NEW p \in Gst!Procs, NEW i \in DOMAIN gAttempts, Gst!TakeUp(p, i)
  PROVE PortalInv'
<1>1. Gst!TypeOK'
  BY TakeUpType, FewBills
<1>2. UNCHANGED <<Gst!portal, Gst!bills, gEinvoice, gAdopted, gUnsure, gOverlapped>> /\ Open_(i)
  BY DEF Gst!TakeUp, Open_
<1>3. /\ DOMAIN gAttempts' = DOMAIN gAttempts /\ Len(gAttempts') = Len(gAttempts)
      /\ \A k \in DOMAIN gAttempts : gAttempts'[k].op = gAttempts[k].op
           /\ gAttempts'[k].status = gAttempts[k].status /\ gAttempts'[k].age = gAttempts[k].age
  BY WasTouched, Zenon DEF Gst!TakeUp, PortalInv
<1>4. Others(p) /\ gTask'[p].op = gAttempts[i].op /\ gTask'[p].st = "looking" /\ gTask'[p].attempt = i
        /\ gTask'[p].old = (gAttempts[i].age = "old")
  BY Shape DEF Gst!TakeUp, Gst!Begins, Others, Gst!Idle, Gst!TypeOK, PortalInv
<1>5. gAttempts[i].op \in Gst!Ops
  BY Shape DEF AttemptRow, PortalInv
<1>6. gTask'[p].op \in Gst!Ops /\ IsOf(gTask'[p].attempt, gTask'[p].op) /\ (gTask'[p].old
        => Open_(gTask'[p].attempt) /\ gAttempts[gTask'[p].attempt].age = "old")
  BY <1>2, <1>4, <1>5 DEF IsOf
<1> QED BY <1>1, <1>2, <1>3, <1>4, <1>6, SteppedQuietly DEF PortalInv

LEMMA CancelBillKeeps == ASSUME Bounded, PortalInv, NEW n \in DOMAIN gPortalBills, Gst!CancelBill(n) PROVE PortalInv'
<1>1. Gst!TypeOK'
  BY CancelBillType, FewBills
<1>2. UNCHANGED <<gCurrent, gAttempts, gPortalIrn, gWire, gTask, gEinvoice, gAdopted, gUnsure, gOverlapped>>
        /\ gRows[n] = "active"
  BY DEF Gst!CancelBill
<1>3. gPortalBills \in Seq(Bill) /\ n \in Gst!Bills
  BY FewBills DEF Gst!TypeOK, Bill, PortalInv
<1>4. /\ DOMAIN gPortalBills' = DOMAIN gPortalBills
      /\ \A k \in DOMAIN gPortalBills : gPortalBills'[k].attempt = gPortalBills[k].attempt /\ (k # n
           => gPortalBills'[k] = gPortalBills[k])
      /\ gPortalBills'[n].status = "cancelled"
  <2>1. gPortalBills[n] \in Bill /\ gPortalBills' = [gPortalBills EXCEPT ![n].status = "cancelled"]
    BY <1>3 DEF Gst!CancelBill
  <2>2. \A b \in Bill : [b EXCEPT !.status = "cancelled"].status = "cancelled"
          /\ [b EXCEPT !.status = "cancelled"].attempt = b.attempt
    BY SMT DEF Bill
  <2>3. gPortalBills'[n] = [gPortalBills[n] EXCEPT !.status = "cancelled"]
          /\ DOMAIN gPortalBills' = DOMAIN gPortalBills
        /\ \A k \in DOMAIN gPortalBills : k # n => gPortalBills'[k] = gPortalBills[k]
    BY <1>3, <2>1, Zenon
  <2> QED BY <2>1, <2>2, <2>3, Zenon
<1>5. \A k \in Gst!Bills : gRows'[k] = gRows[k] \/ (k = n /\ gRows'[k] = "cancelled")
  BY <1>3, SMT DEF Gst!CancelBill, Gst!TypeOK, PortalInv
<1>6. CallsInv'
  BY <1>2, <1>4, StillKeepsCalls
<1>7. IrnInv'
  BY <1>2, <1>6, QuietForIrn DEF CallsInv
<1>8. gCurrent # 0 => gCurrent \in Gst!Bills
  BY DEF PortalInv, Gst!TypeOK
<1>9. Gst!LiveBill' => Gst!LiveBill
  BY <1>2, <1>5, <1>8 DEF Gst!LiveBill
<1>10. BillInv'
  <2> USE DEF PortalInv, BillInv
  <2>1. RowsAreBills'
    BY <1>2, <1>4, <1>5 DEF RowsAreBills
  <2>2. FailedIsQuiet' /\ BillIsOpen'
    BY <1>2, <1>4 DEF FailedIsQuiet, BillIsOpen, Orderly, ReadyFor, Unheard, Open_
  <2>3. RecordedOrOpen'
    BY <1>2, <1>3, <1>4, <1>5, FewBills DEF RecordedOrOpen, Orderly, Open_
  <2>4. LiveIsOpen'
    BY <1>2, <1>4, <1>9 DEF LiveIsOpen, Orderly, Open_, Gst!LiveBill, RowsAreBills
  <2> QED BY <2>1, <2>2, <2>3, <2>4
<1> QED BY <1>1, <1>6, <1>7, <1>10 DEF PortalInv

\* A recovery run that gives up on its attempt, or leaves it for the next one
LEMMA ThrowsKeeps ==
  ASSUME Bounded, PortalInv, Gst!TypeOK', NEW p \in Gst!Procs, gTask[p].st \in {"looking", "found"}, Gst!Throws(p),
         Gst!Ends(p),
     UNCHANGED <<Gst!portal, Gst!bills, gEinvoice, gAdopted, gOverlapped>>
  PROVE PortalInv'
<1>1. gTask'[p] = Gst!Idle /\ Others(p) /\ gTask[p].op \in Gst!Ops /\ IsOf(gTask[p].attempt, gTask[p].op)
  BY EndsIdle, AttemptIs DEF PortalInv
<1>2. CASE UNCHANGED <<gAttempts, gUnsure>>
  BY <1>1, <1>2, EndedQuietly DEF PortalInv
<1>3. CASE gTask[p].old /\ Gst!Marked(p, "failed") /\ gUnsure' = TRUE
  <2>1. IsMarked(gTask[p].attempt, "failed") /\ gUnsure'
    BY <1>1, <1>3, WasMarked DEF PortalInv, CallsInv
  <2>2. CASE gTask[p].op = "ewb.generate"
    <3>1. CallsInv' /\ IrnInv'
      BY <1>1, <2>1, <2>2, EndedWithBill
    <3>2. BillInv'
      BY <1>1, <2>1, <2>2, MarkForBills
    <3> QED BY <3>1, <3>2 DEF PortalInv
  <2>3. CASE gTask[p].op = "irn.cancel"
    <3>1. gTask[p].st = "looking"
      BY <2>3 DEF TasksAreWhole, PortalInv, CallsInv, Gst!Idle
    <3>2. CallsInv' /\ BillInv'
      BY <1>1, <2>1, <2>3, EndedWithCancel
    <3>g. (gUnsure => gUnsure') /\ gUnsure'
      BY <1>3, Zenon
    <3>a. UNCHANGED <<Gst!portal, gAdopted>>
      BY <3>g, <1>1, <1>3, <2>3, <3>1 DEF Gst!portal
    <3>b. gTask[p].st = "answered" \/ (gTask[p].st = "looking" /\ gTask[p].old) \/ gPortalIrn = "cancelled"
      BY <3>g, <1>1, <1>3, <2>3, <3>1
    <3>c. gEinvoice' = gEinvoice
      BY <3>g, <1>1, <1>3, <2>3, <3>1
    <3>d. gUnsure' \/ gPortalIrn # "cancelled" \/ (gTask[p].answer.is = "refused" /\ gTask[p].st = "answered")
      BY <3>g, <1>1, <1>3, <2>3, <3>1
    <3>e. gUnsure' \/ (gPortalIrn # "cancelled" => \A m \in gWire : m.attempt # gTask[p].attempt)
      BY <3>g, <1>1, <1>3, <2>3, <3>1
    <3>3. IrnInv'
      BY <1>1, <2>1, <2>3, <3>a, <3>b, <3>c, <3>d, <3>e, <3>g, MarkForIrn
    <3> QED BY <3>2, <3>3 DEF PortalInv
  <2> QED BY <1>1, <2>2, <2>3 DEF Gst!Ops
<1> QED BY <1>2, <1>3 DEF Gst!Throws

LEMMA LookupFailsKeeps == ASSUME Bounded, PortalInv, NEW p \in Gst!Procs, Gst!LookupFails(p) PROVE PortalInv'
  BY LookupFailsType, FewBills, ThrowsKeeps DEF Gst!LookupFails

LEMMA CancelIsSettledNow ==
  ASSUME Bounded, PortalInv, Gst!TypeOK', NEW p \in Gst!Procs, gTask[p].op = "irn.cancel",
         gTask[p].st \in {"answered", "looking"},
     gPortalIrn = "cancelled", gEinvoice' = [status |-> "cancelled", overdue |-> FALSE],
     Gst!Marked(p, "settled"), Gst!Ends(p),
     UNCHANGED <<Gst!portal, Gst!bills, gAdopted, gUnsure, gOverlapped>>
  PROVE PortalInv'
<1>1. gTask'[p] = Gst!Idle /\ Others(p) /\ IsOf(gTask[p].attempt, gTask[p].op)
  BY EndsIdle, AttemptIs DEF PortalInv
<1>2. IsMarked(gTask[p].attempt, "settled")
  BY <1>1, WasMarked DEF PortalInv, CallsInv
<1>3. CallsInv' /\ BillInv'
  BY <1>1, <1>2, EndedWithCancel
<1>4. IrnInv'
  BY <1>1, <1>2, MarkForIrn
<1> QED BY <1>3, <1>4 DEF PortalInv

LEMMA IrnCancelledKeeps == ASSUME Bounded, PortalInv, NEW p \in Gst!Procs, Gst!IrnCancelled(p) PROVE PortalInv'
<1>1. Gst!TypeOK'
  BY IrnCancelledType, FewBills
<1>2. gTask[p].op = "irn.cancel" /\ gTask[p].st = "answered" /\ gPortalIrn = "cancelled"
  BY DEF Gst!IrnCancelled, Gst!At, AnswersAreTrue, AnswerIsTrue, PortalInv, CallsInv
<1> QED BY <1>1, <1>2, CancelIsSettledNow DEF Gst!IrnCancelled

LEMMA FoundCancelledKeeps == ASSUME Bounded, PortalInv, NEW p \in Gst!Procs, Gst!FoundCancelled(p) PROVE PortalInv'
<1>1. Gst!TypeOK'
  BY FoundCancelledType, FewBills
<1> QED BY <1>1, CancelIsSettledNow DEF Gst!FoundCancelled, Gst!At

LEMMA NotOkKeeps == ASSUME Bounded, PortalInv, NEW p \in Gst!Procs, Gst!NotOk(p) PROVE PortalInv'
<1>1. Gst!TypeOK'
  BY NotOkType, FewBills
<1>2. /\ UNCHANGED <<Gst!portal, Gst!bills, gEinvoice, gAdopted, gUnsure, gOverlapped>> /\ gTask'[p] = Gst!Idle
           /\ Others(p)
      /\ gTask[p].st = "answered" /\ gTask[p].op \in Gst!Ops /\ IsOf(gTask[p].attempt, gTask[p].op)
  BY EndsIdle, AttemptIs DEF Gst!NotOk, PortalInv
<1>3. CASE UNCHANGED gAttempts
  BY <1>1, <1>2, <1>3, EndedQuietly DEF PortalInv
<1>4. CASE gTask[p].answer.is = "refused" /\ Gst!Marked(p, "failed")
  <2>1. IsMarked(gTask[p].attempt, "failed") /\ Unheard(gTask[p].attempt)
    BY <1>2, <1>4, WasMarked DEF PortalInv, CallsInv, AnswersAreTrue, AnswerIsTrue
  <2>2. CASE gTask[p].op = "ewb.generate"
    <3>1. \A q \in Gst!Procs : q # p /\ gTask[q].st = "ready" => gTask[q].attempt # gTask[p].attempt
      BY <1>2, Shape DEF PortalInv, CallsInv, CallsAreSingle, InCall, IsOf
    <3>2. CallsInv' /\ IrnInv'
      BY <1>2, <2>1, <2>2, EndedWithBill
    <3>3. BillInv'
      BY <1>2, <2>1, <2>2, <3>1, MarkForBills
    <3> QED BY <1>1, <3>2, <3>3 DEF PortalInv
  <2>3. CASE gTask[p].op = "irn.cancel"
    <3>1. CallsInv' /\ BillInv'
      BY <1>2, <2>1, <2>3, EndedWithCancel
    <3>g. (gUnsure => gUnsure')
      BY <1>2, Zenon
    <3>a. UNCHANGED <<Gst!portal, gAdopted>>
      BY <3>g, <1>2, <1>4, <2>1, <2>3 DEF Gst!portal
    <3>b. gTask[p].st = "answered" \/ (gTask[p].st = "looking" /\ gTask[p].old) \/ gPortalIrn = "cancelled"
      BY <3>g, <1>2, <1>4, <2>1, <2>3 DEF Unheard
    <3>c. gEinvoice' = gEinvoice
      BY <3>g, <1>2, <1>4, <2>1, <2>3 DEF Unheard
    <3>d. gUnsure' \/ gPortalIrn # "cancelled" \/ (gTask[p].answer.is = "refused" /\ gTask[p].st = "answered")
      BY <3>g, <1>2, <1>4, <2>1, <2>3 DEF Unheard
    <3>e. gUnsure' \/ (gPortalIrn # "cancelled" => \A m \in gWire : m.attempt # gTask[p].attempt)
      BY <3>g, <1>2, <1>4, <2>1, <2>3 DEF Unheard
    <3>2. IrnInv'
      BY <1>2, <2>1, <2>3, <3>a, <3>b, <3>c, <3>d, <3>e, <3>g, MarkForIrn
    <3> QED BY <1>1, <3>1, <3>2 DEF PortalInv
  <2> QED BY <1>2, <2>2, <2>3 DEF Gst!Ops
<1> QED BY <1>3, <1>4 DEF Gst!NotOk

LEMMA AbsentKeeps == ASSUME Bounded, PortalInv, NEW p \in Gst!Procs, Gst!Absent(p) PROVE PortalInv'
<1>1. Gst!TypeOK'
  BY AbsentType, FewBills
<1>2. /\ UNCHANGED <<Gst!portal, Gst!bills, gEinvoice, gAdopted, gUnsure, gOverlapped>> /\ gTask'[p] = Gst!Idle
           /\ Others(p)
      /\ gTask[p].st = "looking" /\ gTask[p].op \in Gst!Ops /\ IsOf(gTask[p].attempt, gTask[p].op)
  BY EndsIdle, AttemptIs DEF Gst!Absent, PortalInv
<1>3. CASE UNCHANGED gAttempts
  BY <1>1, <1>2, <1>3, EndedQuietly DEF PortalInv
<1>4. CASE gTask[p].old /\ Gst!Marked(p, "failed")
  <2>1. IsMarked(gTask[p].attempt, "failed")
    BY <1>2, <1>4, WasMarked DEF PortalInv, CallsInv
  <2>2. ~ReadyFor(gTask[p].attempt) /\ \A m \in gWire : m.attempt # gTask[p].attempt
    BY <1>2, <1>4 DEF PortalInv, CallsInv, OldIsQuiet, Old, IsOf
  <2>3. CASE gTask[p].op = "ewb.generate"
    <3>1. gPortalBills = <<>>
      BY <2>3 DEF Gst!Absent
    <3>2. Unheard(gTask[p].attempt)
      BY <2>2, <3>1 DEF Unheard
    <3>3. CallsInv' /\ IrnInv'
      BY <1>2, <2>1, <2>3, EndedWithBill
    <3>4. BillInv'
      BY <1>2, <2>1, <2>2, <2>3, <3>2, MarkForBills DEF ReadyFor
    <3> QED BY <1>1, <3>3, <3>4 DEF PortalInv
  <2>4. CASE gTask[p].op = "irn.cancel"
    <3>1. gPortalIrn # "cancelled"
      BY <2>4 DEF Gst!Absent
    <3>2. CallsInv' /\ BillInv'
      BY <1>2, <2>1, <2>4, EndedWithCancel
    <3>g. (gUnsure => gUnsure')
      BY <1>2, Zenon
    <3>a. UNCHANGED <<Gst!portal, gAdopted>>
      BY <3>g, <1>2, <1>4, <2>2, <2>4, <3>1 DEF Gst!portal
    <3>b. gTask[p].st = "answered" \/ (gTask[p].st = "looking" /\ gTask[p].old) \/ gPortalIrn = "cancelled"
      BY <3>g, <1>2, <1>4, <2>2, <2>4, <3>1
    <3>c. gEinvoice' = gEinvoice
      BY <3>g, <1>2, <1>4, <2>2, <2>4, <3>1
    <3>d. gUnsure' \/ gPortalIrn # "cancelled" \/ (gTask[p].answer.is = "refused" /\ gTask[p].st = "answered")
      BY <3>g, <1>2, <1>4, <2>2, <2>4, <3>1
    <3>e. gUnsure' \/ (gPortalIrn # "cancelled" => \A m \in gWire : m.attempt # gTask[p].attempt)
      BY <3>g, <1>2, <1>4, <2>2, <2>4, <3>1
    <3>3. IrnInv'
      BY <1>2, <2>1, <2>4, <3>a, <3>b, <3>c, <3>d, <3>e, <3>g, MarkForIrn
    <3> QED BY <1>1, <3>2, <3>3 DEF PortalInv
  <2> QED BY <1>2, <2>3, <2>4 DEF Gst!Ops
<1> QED BY <1>3, <1>4 DEF Gst!Absent, Gst!GivesUp

LEMMA FoundBillKeeps == ASSUME Bounded, PortalInv, NEW p \in Gst!Procs, Gst!FoundBill(p) PROVE PortalInv'
<1>1. Gst!TypeOK'
  BY FoundBillType, FewBills
<1>2. /\ UNCHANGED <<Gst!portal, Gst!bills, gEinvoice, gAdopted, gOverlapped>>
      /\ gTask[p].st = "looking" /\ gTask[p].op = "ewb.generate" /\ IsOf(gTask[p].attempt, "ewb.generate")
  BY AttemptIs DEF Gst!FoundBill, Gst!At
<1>3. CASE Gst!Ends(p) /\ Gst!Throws(p)
  BY <1>1, <1>2, <1>3, ThrowsKeeps
<1>4. CASE Gst!LiveBill /\ Gst!Marked(p, "settled") /\ Gst!Ends(p) /\ UNCHANGED gUnsure
  <2>1. IsMarked(gTask[p].attempt, "settled") /\ gTask'[p] = Gst!Idle /\ Others(p)
    BY <1>2, <1>4, WasMarked, EndsIdle DEF PortalInv, CallsInv
  <2>2. CallsInv' /\ IrnInv'
    BY <1>2, <1>4, <2>1, EndedWithBill
  <2>3. BillInv'
    BY <1>2, <1>4, <2>1, MarkForBills
  <2> QED BY <1>1, <2>2, <2>3 DEF PortalInv
<1>5. ASSUME NEW n \in DOMAIN gPortalBills, gTask' = [gTask EXCEPT ![p].st = "found", ![p].answer = Gst!Ok(n)],
             UNCHANGED <<gAttempts, gUnsure>>
      PROVE PortalInv'
  <2>1. gTask'[p].st = "found" /\ gTask'[p].op = gTask[p].op /\ gTask'[p].attempt = gTask[p].attempt
          /\ gTask'[p].answer = Gst!Ok(n) /\ Others(p)
    <3> HIDE DEF Gst!Ok
    <3> QED BY <1>5 DEF Others, PortalInv, Gst!TypeOK
  <2>2. gTask'[p].answer.is = "ok" /\ gTask'[p].answer.bill \in DOMAIN gPortalBills
    BY <2>1 DEF Gst!Ok
  <2>3. gTask'[p].op \in Gst!Ops
    BY <1>2, <2>1 DEF Gst!Ops
  <2>4. IsOf(gTask'[p].attempt, gTask'[p].op)
    BY <1>2, <2>1
  <2> QED BY <1>1, <1>2, <1>5, <2>1, <2>2, <2>3, <2>4, SteppedQuietly DEF PortalInv
<1> QED BY <1>3, <1>4, <1>5, Zenon DEF Gst!FoundBill

LEMMA RecordBillKeeps == ASSUME Bounded, PortalInv, NEW p \in Gst!Procs, Gst!RecordBill(p) PROVE PortalInv'
<1> DEFINE n == gTask[p].answer.bill
<1>1. Gst!TypeOK'
  BY RecordBillType, FewBills
<1>2. /\ UNCHANGED <<Gst!portal, gEinvoice, gAdopted, gOverlapped>> /\ gTask'[p] = Gst!Idle /\ Others(p)
           /\ Gst!Ends(p)
      /\ gTask[p].op = "ewb.generate" /\ gTask[p].st \in {"answered", "found"} /\ gTask[p].answer.is = "ok"
  BY EndsIdle DEF Gst!RecordBill, PortalInv
<1>3. IsOf(gTask[p].attempt, "ewb.generate")
  BY <1>2, AttemptIs
<1>4. n \in DOMAIN gPortalBills
  BY <1>2 DEF PortalInv, CallsInv, AnswersAreTrue, AnswerIsTrue
<1>5. CASE gRows[n] = "none" /\ gRows' = [gRows EXCEPT ![n] = "active"] /\ gCurrent' = n
        /\ Gst!Marked(p, "settled") /\ UNCHANGED gUnsure
  <2>1. IsMarked(gTask[p].attempt, "settled")
    BY <1>2, <1>3, <1>5, WasMarked DEF PortalInv, CallsInv
  <2>2. CallsInv' /\ IrnInv'
    BY <1>2, <1>3, <1>5, <2>1, EndedWithBill
  <2>3. BillInv'
    BY <1>2, <1>3, <1>4, <1>5, <2>1, FewBills, RecordForBills
  <2> QED BY <1>1, <2>2, <2>3 DEF PortalInv
<1>6. CASE UNCHANGED Gst!bills /\ gTask[p].st = "found" /\ Gst!Throws(p)
  BY <1>1, <1>2, <1>6, ThrowsKeeps
<1>7. CASE UNCHANGED Gst!bills /\ UNCHANGED <<gAttempts, gUnsure>>
  BY <1>1, <1>2, <1>7, EndedQuietly DEF PortalInv
<1> QED BY <1>5, <1>6, <1>7 DEF Gst!RecordBill

LEMMA InitIsFine == ASSUME Bounded, Gst!Init PROVE PortalInv
<1>1. Gst!TypeOK
  <2>1. <<>> \in Seq(AttemptRow) /\ <<>> \in Seq(Bill)
    OBVIOUS
  <2>2. [status |-> "none", overdue |-> FALSE] \in EInvoice /\ gRows \in [Gst!Bills -> States]
    BY DEF EInvoice, States, Gst!Init
  <2>3. gTask \in [Gst!Procs -> TaskRow]
    BY DEF Gst!Init, Gst!Idle, Gst!NoAnswer, TaskRow, AnswerRow, Stages
  <2> QED BY <2>1, <2>2, <2>3, TypedIs DEF Gst!Init, Typed, HereTyped, RowsTyped, PortalTyped, FlagsTyped,
      States
<1>2. /\ \A p \in Gst!Procs : gTask[p] = Gst!Idle
      /\ gAttempts = <<>> /\ DOMAIN gAttempts = {} /\ Len(gAttempts) = 0 /\ gPortalBills = <<>>
           /\ DOMAIN gPortalBills = {} /\ gWire = {}
      /\ gPortalIrn = "none" /\ gEinvoice.status = "none" /\ gCurrent = 0
           /\ \A n \in Gst!Bills : gRows[n] = "none"
  BY DEF Gst!Init
<1>3. CallsInv
  <2>1. AttemptsFit /\ TasksAreWhole
    BY <1>2 DEF AttemptsFit, Bounded, TasksAreWhole
  <2>2. AnswersAreTrue /\ CallsAreSingle /\ ReadyIsUnheard
    BY <1>2 DEF AnswersAreTrue, Gst!Idle, CallsAreSingle, InCall, ReadyIsUnheard
  <2>3. WireIsOut /\ BillsAreRaised /\ OldIsQuiet /\ PendingOnce
    BY <1>2 DEF WireIsOut, BillsAreRaised, OldIsQuiet, PendingOnce
  <2> QED BY <2>1, <2>2, <2>3 DEF CallsInv
<1>4. IrnInv
  BY <1>2 DEF IrnInv, NotYet, OneGenerates, CancelsWhatIsThere, CancelIsOpen, AdoptedIsKnown, CancelIsSettled,
      Generates, Generated, Gst!Idle, Gst!At
<1>5. BillInv
  BY <1>2 DEF BillInv, RowsAreBills, FailedIsQuiet, BillIsOpen, RecordedOrOpen, LiveIsOpen
<1> QED BY <1>1, <1>3, <1>4, <1>5 DEF PortalInv

LEMMA NextKeeps == ASSUME Bounded, PortalInv, [Gst!Next]_Gst!vars PROVE PortalInv'
<1>1. CASE UNCHANGED Gst!vars
  <2>1. UNCHANGED <<gDoc, gEinvoice, gRows, gCurrent, gAttempts, gPortalIrn, gPortalBills, gWire, gTask,
                   gAdopted, gUnsure, gOverlapped, gEvents>>
    BY <1>1 DEF Gst!vars, Gst!bills, Gst!portal
  <2>2. Gst!TypeOK' = Gst!TypeOK
    BY <2>1 DEF Gst!TypeOK
  <2>3. CallsInv' /\ IrnInv' /\ BillInv'
    BY <2>1, StoodStill DEF Gst!portal, Gst!bills
  <2> QED BY <2>2, <2>3 DEF PortalInv
<1>2. CASE Gst!Next
  <2>1. ASSUME NEW p \in Requests, Gst!GenerateIrn(p) \/ \E op \in Gst!Ops : Gst!Ask(p, op) PROVE PortalInv'
    BY <2>1, SubmitKeeps, AskKeeps DEF Gst!GenerateIrn, Gst!Procs
  <2>2. ASSUME NEW p \in Runners, Gst!Claim(p) \/ Gst!Recover(p) \/ Gst!LookupFails(p) PROVE PortalInv'
    BY <2>2, ClaimKeeps, TakeUpKeeps, LookupFailsKeeps DEF Gst!Recover, Gst!Procs
  <2>3. ASSUME NEW p \in Gst!Procs, Gst!Step(p) PROVE PortalInv'
    <3>1. CASE Gst!CallPortal(p)
      BY <3>1, CallPortalKeeps
    <3>2. CASE Gst!Answer(p)
      BY <3>2, FinishIrnKeeps, NotOkKeeps, IrnCancelledKeeps, RecordBillKeeps DEF Gst!Answer
    <3>3. CASE Gst!Reconcile(p)
      BY <3>3, SubmitKeeps DEF Gst!Reconcile
    <3>4. CASE Gst!ReconcileInVain(p)
      BY <3>4, QuietEndKeeps
    <3>5. CASE Gst!Check(p)
      BY <3>5, CheckKeeps
    <3>6. CASE Gst!Open(p)
      BY <3>6, OpenKeeps
    <3>7. CASE Gst!LookedUp(p)
      BY <3>7, AbsentKeeps, FoundCancelledKeeps, FoundBillKeeps DEF Gst!LookedUp
    <3> QED BY <2>3, <3>1, <3>2, <3>3, <3>4, <3>5, <3>6, <3>7 DEF Gst!Step
  <2>4. ASSUME NEW p \in Gst!Procs, Gst!Invalid(p) \/ Gst!Die(p) PROVE PortalInv'
    BY <2>4, InvalidKeeps, QuietEndKeeps
  <2>5. ASSUME NEW m \in gWire, Gst!Arrive(m) PROVE PortalInv'
    BY <2>5, ArriveKeeps
  <2>6. ASSUME NEW n \in DOMAIN gPortalBills, Gst!CancelBill(n) PROVE PortalInv'
    BY <2>6, CancelBillKeeps
  <2>7. CASE Gst!Time
    BY <2>7, GrowsOverdueKeeps, TimeKeeps DEF Gst!Time
  <2>8. CASE Gst!CancelDocument
    BY <2>8, CancelDocumentKeeps
  <2> QED BY <1>2, <2>1, <2>2, <2>3, <2>4, <2>5, <2>6, <2>7, <2>8 DEF Gst!Next
<1> QED BY <1>1, <1>2

LEMMA OneBillIsLive == ASSUME PortalInv, Orderly, NEW a \in DOMAIN gPortalBills, NEW b \in DOMAIN gPortalBills,
     gPortalBills[a].status = "active", gPortalBills[b].status = "active"
  PROVE a = b
<1> USE DEF PortalInv, BillInv, CallsInv
<1>1. \A n \in DOMAIN gPortalBills : IsOf(gPortalBills[n].attempt, "ewb.generate")
  BY DEF BillsAreRaised
<1>2. \A n \in DOMAIN gPortalBills : n # 0
  BY Shape
<1>3. \A n \in {a, b} : Open_(gPortalBills[n].attempt) \/ (gCurrent = n /\ gRows[n] = "active")
  BY DEF RecordedOrOpen
<1>4. CASE Open_(gPortalBills[a].attempt) /\ Open_(gPortalBills[b].attempt)
  BY <1>1, <1>4 DEF PendingOnce, IsOf, BillsAreRaised
<1>5. ASSUME NEW x \in {a, b}, NEW y \in {a, b}, gCurrent = x, gRows[x] = "active",
             Open_(gPortalBills[y].attempt)
      PROVE x = y
  <2>1. Gst!LiveBill
    BY <1>2, <1>5 DEF Gst!LiveBill
  <2>2. gPortalBills[x].attempt = gPortalBills[y].attempt
    BY <1>1, <1>5, <2>1 DEF LiveIsOpen, IsOf
  <2> QED BY <2>2 DEF BillsAreRaised
<1> QED BY <1>3, <1>4, <1>5

LEMMA AgreeNow == ASSUME PortalInv PROVE Gst!RecordsAgreeWithPortals
<1>1. Gst!FailedWasNotDone
  BY DEF Gst!FailedWasNotDone, PortalInv, BillInv, FailedIsQuiet, Unheard
<1>2. Gst!LiveHereIsLiveThere
  BY DEF Gst!LiveHereIsLiveThere, PortalInv, IrnInv, NotYet, CancelIsSettled, Gst!Pending, Open_, Gst!TypeOK
<1>3. Gst!OneLiveBill
  <2> DEFINE S == {n \in DOMAIN gPortalBills : gPortalBills[n].status = "active"}
  <2>0. Gst!Cardinality(S) = Cardinality(S)
    BY DEF Gst!Cardinality, Cardinality
  <2> SUFFICES ASSUME Orderly PROVE ~(Cardinality(S) > 1)
    BY <2>0 DEF Gst!OneLiveBill, Orderly
  <2>1. \A a, b \in S : a = b
    BY OneBillIsLive
  <2>2. CASE S = {}
    BY <2>2, FS_EmptySet
  <2>3. CASE S # {}
    <3>1. PICK a \in S : TRUE
      BY <2>3
    <3>2. S = {a}
      BY <2>1, <3>1
    <3> QED BY <3>2, FS_Singleton
  <2> QED BY <2>2, <2>3
<1> QED BY <1>1, <1>2, <1>3 DEF Gst!RecordsAgreeWithPortals

LEMMA PortalAlways == AllSpec => []PortalInv
<1>1. AllInit => PortalInv
  BY InitIsFine, PartsAssumption DEF AllInit, Bounded
<1>2. PortalInv /\ [AllNext]_<<focus, idem, jobs, gst, billing, online, filing>> => PortalInv'
  <2>1. [AllNext]_<<focus, idem, jobs, gst, billing, online, filing>> => [Gst!Next]_Gst!vars
    BY DEF AllNext, gst, Gst!vars, Gst!bills, Gst!portal
  <2>2. Bounded
    BY PartsAssumption DEF Bounded
  <2> QED BY <2>1, <2>2, NextKeeps
<1> QED BY <1>1, <1>2, PTL DEF AllSpec

(* What the books say of the portals is true of them (recovery.ts, eway.ts): an attempt that is given up was not *)
(* carried out and never will be, an IRN is live here only while it is there or is being cancelled, and no       *)
(* document has two live e-way bills, except after the races the model names. *)
THEOREM PortalsAgree == AllSpec => []RecordsAgreeWithPortals
<1>1. PortalInv => RecordsAgreeWithPortals
  BY AgreeNow DEF RecordsAgreeWithPortals
<1> QED BY <1>1, PortalAlways, PTL

-----------------------------------------------------------------------------
(* All five *)

(* The rows, tasks and records of the five models keep their types in every run of the composition. *)
THEOREM PartsAreTyped == AllSpec => []PartsTypeOK
<1>1. QueueP!Spec => []QueueP!TypeOK
  BY PartsAssumption, QueueP!TypeCorrect
<1>2. QueueP!TypeOK /\ PortalInv /\ BillingInv /\ OnlineInv /\ FilingInv => PartsTypeOK
  <2> SUFFICES ASSUME QueueP!TypeOK, PortalInv, BillingInv, OnlineInv, FilingInv PROVE PartsTypeOK
    OBVIOUS
  <2>1. Queue!TypeOK
    BY DEF QueueP!TypeOK, QueueP!Row, QueueP!Status, QueueP!Lease, QueueP!Poll, QueueP!ClaimRec, QueueP!Run,
        Queue!TypeOK, Queue!Row, Queue!Status, Queue!Lease, Queue!Poll, Queue!ClaimRec, Queue!Run
  <2> QED BY <2>1 DEF PartsTypeOK, PortalInv, BillingInv, OnlineInv, FilingInv
<1> QED BY <1>1, <1>2, QueueRuns, BillingAlways, PortalAlways, OnlineAlways, FilingAlways, PTL
=============================================================================

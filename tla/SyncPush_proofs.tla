---------------------------- MODULE SyncPush_proofs ----------------------------
(* Proofs about SyncPush, for every queue, any number of pushes and any bound. *)
EXTENDS SyncPush, WellFoundedInduction, TLAPS

USE DEF server, push, device

(* The key of e is there, and its first request came to r (or is pending). *)
KeyIs(e, r) == ikey[e] \in KeyRow /\ ikey[e].response = r
(* An effect of e is known of: its answer is stored, or a push is about to store it. *)
InHand(e) == \E q \in Pushes : pc[q] = "send" /\ At(q) = e /\ outcome[q] = "applied"
Kept(e) == KeyIs(e, "applied") \/ InHand(e)

(* What RepeatsOnlyWhatWasLost rests on: every effect of a POST was lost, but for the one    *)
(* that is kept; only the holder of a pending key is at the route, and it is there alone.   *)
Types ==
  /\ pc = [p \in Pushes |-> pc[p]]
  /\ todo = [p \in Pushes |-> todo[p]]
  /\ outcome = [p \in Pushes |-> outcome[p]]
  /\ made \in [Entries -> Nat] /\ lost \in [Entries -> Nat]
  /\ ikey \in [Entries -> KeyRow \cup {NoRow}]
EffectsAreCounted == \A e \in Posts : /\ Kept(e) => made[e] = lost[e] + 1
                                      /\ ~Kept(e) => made[e] = lost[e]
RunnerHoldsKey == \A p \in Pushes : \A e \in Posts : AtRoute(p, e) => KeyIs(e, "pending")
SendsAnswers == \A p \in Pushes : pc[p] = "send" => At(p) \in Posts /\ outcome[p] \in Recorded
IInv == Types /\ EffectsAreCounted /\ RunnerHoldsKey /\ SendsAnswers /\ PostRunByOne

-----------------------------------------------------------------------------
(* A push is at the same entry as long as it has the same ones left. *)
LEMMA AtStays == \A q \in Pushes : todo'[q] = todo[q] => At(q)' = At(q)
<1> SUFFICES ASSUME NEW q \in Pushes, todo'[q] = todo[q] PROVE At(q)' = At(q)
  OBVIOUS
<1>1. \A i \in DOMAIN Queue : IsNext(q, i)' <=> IsNext(q, i)
  BY DEF IsNext
<1> QED BY <1>1 DEF At, IsNext

(* Keys and effects of POSTs are left alone, nobody comes to the route of one, and nobody   *)
(* comes to or leaves the storing of an answer.                                             *)
Stays(q) == pc'[q] = pc[q] /\ todo'[q] = todo[q] /\ outcome'[q] = outcome[q]
LEMMA QuietStep ==
  ASSUME IInv, Types',
         \A e \in Posts : ikey'[e] = ikey[e] /\ made'[e] = made[e] /\ lost'[e] = lost[e],
         \A q \in Pushes : pc[q] = "send" \/ pc'[q] = "send" => Stays(q),
         \A q \in Pushes : pc'[q] = "handle" => At(q)' \notin Posts \/ (pc[q] = "handle" /\ todo'[q] = todo[q])
  PROVE  IInv'
<1>1. \A q \in Pushes : pc[q] = "send" \/ pc'[q] = "send" => At(q)' = At(q)
  BY AtStays DEF Stays
<1>2. \A q \in Pushes, e \in Posts : AtRoute(q, e)' => AtRoute(q, e)
  BY AtStays DEF AtRoute, Stays
<1>3. \A e \in Posts : InHand(e)' <=> InHand(e)
  BY <1>1 DEF InHand, Stays
<1>4. EffectsAreCounted'
  BY <1>3 DEF IInv, EffectsAreCounted, Kept, KeyIs
<1>5. RunnerHoldsKey'
  BY <1>2 DEF IInv, RunnerHoldsKey, KeyIs
<1>6. SendsAnswers'
  BY <1>1 DEF IInv, SendsAnswers, Stays
<1>7. PostRunByOne'
  BY <1>2 DEF IInv, PostRunByOne
<1> QED BY <1>4, <1>5, <1>6, <1>7 DEF IInv

(* A push that is not at the route can be sent anywhere but there. *)
LEMMA Elsewhere ==
  ASSUME IInv, NEW p \in Pushes, pc[p] \notin {"handle", "send"},
         NEW l, l \notin {"handle", "send"}, NEW s, NEW o,
         pc' = [pc EXCEPT ![p] = l], todo' = [todo EXCEPT ![p] = s] \/ todo' = todo,
         outcome' = [outcome EXCEPT ![p] = o] \/ outcome' = outcome,
         UNCHANGED <<ikey, made, lost>>
  PROVE  IInv'
<1>1. Types' /\ Types
  BY DEF IInv, Types
<1>2. pc'[p] = l /\ \A q \in Pushes : q # p => Stays(q)
  BY <1>1 DEF Types, Stays
<1> QED BY <1>1, <1>2, QuietStep DEF Stays

LEMMA Rows == NoRow \notin KeyRow
<1> SUFFICES ASSUME NoRow \in KeyRow PROVE FALSE
  OBVIOUS
<1>1. "response" \in DOMAIN NoRow
  BY DEF KeyRow
<1> QED BY <1>1 DEF NoRow

(* Push p comes to the route of POST d, goes on there or leaves it, alone: the others stay  *)
(* put, and what it does to key and effects of d adds up.                                   *)
LEMMA RouteMoves ==
  ASSUME IInv, Types', NEW p \in Pushes, NEW d \in Posts, d = At(p),
         \A q \in Pushes : q # p => Stays(q) /\ ~AtRoute(q, d),
         pc'[p] \in {"handle", "send"} => todo'[p] = todo[p] /\ KeyIs(d, "pending")',
         pc'[p] = "send" => outcome'[p] \in Recorded,
         \A e \in Posts : e # d => ikey'[e] = ikey[e] /\ made'[e] = made[e] /\ lost'[e] = lost[e],
         KeyIs(d, "applied")' \/ (pc'[p] = "send" /\ outcome'[p] = "applied") => made'[d] = lost'[d] + 1,
         ~KeyIs(d, "applied")' /\ ~(pc'[p] = "send" /\ outcome'[p] = "applied") => made'[d] = lost'[d]
  PROVE  IInv'
<1>1. \A q \in Pushes : q # p => pc'[q] = pc[q] /\ outcome'[q] = outcome[q] /\ At(q)' = At(q)
  BY AtStays DEF Stays
<1>2. pc'[p] \in {"handle", "send"} => At(p)' = d
  BY AtStays
<1>3. \A q \in Pushes, e \in Posts : AtRoute(q, e)' => (q = p /\ e = d) \/ (q # p /\ e # d /\ AtRoute(q, e))
  BY <1>1, <1>2 DEF AtRoute
<1>4. InHand(d)' <=> pc'[p] = "send" /\ outcome'[p] = "applied"
  BY <1>1, <1>2 DEF InHand, AtRoute
<1>5. \A e \in Posts : e # d => (InHand(e)' <=> InHand(e))
  <2> SUFFICES ASSUME NEW e \in Posts, e # d PROVE InHand(e)' <=> InHand(e)
    OBVIOUS
  <2>1. \A q \in Pushes : q # p => (pc'[q] = "send" /\ At(q)' = e /\ outcome'[q] = "applied"
                                    <=> pc[q] = "send" /\ At(q) = e /\ outcome[q] = "applied")
    BY <1>1
  <2>2. ~(pc'[p] = "send" /\ At(p)' = e) /\ At(p) # e
    BY <1>2
  <2> QED BY <2>1, <2>2 DEF InHand
<1>6. EffectsAreCounted'
  <2> SUFFICES ASSUME NEW e \in Posts
               PROVE  (Kept(e)' => made'[e] = lost'[e] + 1) /\ (~Kept(e)' => made'[e] = lost'[e])
    BY DEF EffectsAreCounted
  <2>1. CASE e = d
    BY <1>4, <2>1 DEF Kept
  <2>2. CASE e # d
    BY <1>5, <2>2 DEF IInv, EffectsAreCounted, Kept, KeyIs
  <2> QED BY <2>1, <2>2
<1>7. RunnerHoldsKey'
  <2> SUFFICES ASSUME NEW q \in Pushes, NEW e \in Posts, AtRoute(q, e)' PROVE KeyIs(e, "pending")'
    BY DEF RunnerHoldsKey
  <2>1. CASE q = p /\ e = d
    BY <2>1 DEF AtRoute
  <2>2. CASE e # d /\ AtRoute(q, e)
    BY <2>2 DEF IInv, RunnerHoldsKey, KeyIs
  <2> QED BY <1>3, <2>1, <2>2
<1>8. SendsAnswers'
  BY <1>1, <1>2 DEF IInv, SendsAnswers
<1>9. PostRunByOne'
  BY <1>3 DEF IInv, PostRunByOne
<1> QED BY <1>6, <1>7, <1>8, <1>9 DEF IInv

(* Who is at the route of a POST is there alone, under its pending key. *)
LEMMA Alone ==
  ASSUME IInv, NEW p \in Pushes, pc[p] \in {"handle", "send"}, NEW d \in Posts, d = At(p)
  PROVE  /\ KeyIs(d, "pending") /\ ~KeyIs(d, "applied")
         /\ \A q \in Pushes : q # p => ~AtRoute(q, d)
         /\ pc[p] = "send" /\ outcome[p] = "applied" => made[d] = lost[d] + 1
         /\ ~(pc[p] = "send" /\ outcome[p] = "applied") => made[d] = lost[d]
<1>1. AtRoute(p, d)
  BY DEF AtRoute
<1>2. KeyIs(d, "pending") /\ \A q \in Pushes : q # p => ~AtRoute(q, d)
  BY <1>1 DEF IInv, RunnerHoldsKey, PostRunByOne
<1>3. ~KeyIs(d, "applied")
  BY <1>2 DEF KeyIs
<1>4. InHand(d) <=> pc[p] = "send" /\ outcome[p] = "applied"
  BY <1>2 DEF InHand, AtRoute
<1> QED BY <1>2, <1>3, <1>4 DEF IInv, EffectsAreCounted, Kept

(* Who comes to the route finds nobody there, so no effect is in hand. *)
LEMMA NobodyThere ==
  ASSUME IInv, NEW d \in Posts, \A q \in Pushes : ~AtRoute(q, d), ~KeyIs(d, "applied")
  PROVE  made[d] = lost[d]
BY DEF IInv, EffectsAreCounted, Kept, InHand, AtRoute

-----------------------------------------------------------------------------
(* IInv is an invariant: every step keeps it. *)
LEMMA Inductive == Spec => []IInv
<1> USE ConstantsAssumption
<1>1. Init => IInv
  <2> SUFFICES ASSUME Init PROVE IInv
    OBVIOUS
  <2>1. Types
    BY DEF Init, Types
  <2>2. \A e \in Posts : ~Kept(e) /\ made[e] = lost[e]
    BY Rows DEF Init, Kept, KeyIs, InHand
  <2>3. RunnerHoldsKey /\ SendsAnswers /\ PostRunByOne
    BY DEF Init, RunnerHoldsKey, SendsAnswers, PostRunByOne, AtRoute
  <2> QED BY <2>1, <2>2, <2>3 DEF IInv, EffectsAreCounted
<1>2. IInv /\ [Next]_vars => IInv'
  <2> SUFFICES ASSUME IInv, [Next]_vars PROVE IInv'
    OBVIOUS
  <2>t. Types /\ SendsAnswers /\ Posts \subseteq Entries
    BY DEF IInv
  <2>1. CASE UNCHANGED vars
    BY <2>1, <2>t, AtStays, QuietStep DEF vars, Types, Stays
  <2>2. ASSUME NEW p \in Pushes, Start(p) PROVE IInv'
    BY <2>2, Elsewhere DEF Start, Goto
  <2>3. ASSUME NEW p \in Pushes, Answer(p) PROVE IInv'
    BY <2>3, Elsewhere DEF Answer, Idle
  <2>4. ASSUME NEW p \in Pushes, Die(p) PROVE IInv'
    <3>1. /\ pc' = [pc EXCEPT ![p] = "idle"] /\ todo' = [todo EXCEPT ![p] = {}]
          /\ UNCHANGED <<ikey, made, outcome>>
          /\ lost' = IF pc[p] = "send" /\ outcome[p] = "applied" THEN [lost EXCEPT ![At(p)] = @ + 1] ELSE lost
      BY <2>4 DEF Die, Idle, Forgotten
    <3>2. lost' \in [Entries -> Nat]
      BY <2>t, <3>1 DEF Types, SendsAnswers
    <3>3. Types' /\ pc'[p] = "idle" /\ \A q \in Pushes : q # p => Stays(q)
      BY <2>t, <3>1, <3>2 DEF Types, Stays
    <3>4. CASE pc[p] \in {"handle", "send"} /\ At(p) \in Posts
      <4> PICK d \in Posts : d = At(p)
        BY <3>4
      <4>1. \A e \in Posts : e # d => lost'[e] = lost[e]
        BY <2>t, <3>1 DEF Types
      <4>2. lost'[d] = IF pc[p] = "send" /\ outcome[p] = "applied" THEN lost[d] + 1 ELSE lost[d]
        BY <2>t, <3>1 DEF Types
      <4>3. ~KeyIs(d, "applied")' /\ made'[d] = lost'[d]
        BY <3>1, <3>4, <4>2, Alone DEF KeyIs
      <4>4. \A q \in Pushes : q # p => ~AtRoute(q, d)
        BY <3>4, Alone
      <4> QED BY <3>1, <3>3, <4>1, <4>3, <4>4, RouteMoves
    <3>5. CASE ~(pc[p] \in {"handle", "send"} /\ At(p) \in Posts)
      <4>1. pc[p] # "send" /\ lost' = lost
        BY <2>t, <3>1, <3>5 DEF SendsAnswers
      <4> QED BY <3>1, <3>3, <4>1, QuietStep DEF Stays
    <3> QED BY <3>4, <3>5
  <2>5. ASSUME GiveUp \/ EditByOther \/ \E e \in Entries : ClaimGrowsOld(e) PROVE IInv'
    <3>1. UNCHANGED <<pc, todo, outcome, ikey, made, lost>>
      BY <2>5 DEF GiveUp, EditByOther, ClaimGrowsOld
    <3> QED BY <2>t, <3>1, AtStays, QuietStep DEF Types, Stays
  <2>6. ASSUME NEW p \in Pushes, ClaimEntry(p) PROVE IInv'
    BY <2>6, Elsewhere DEF ClaimEntry, Goto
  <2>7. ASSUME NEW p \in Pushes, Report(p) PROVE IInv'
    <3>1. PICK l \in {"done", "claim"} : pc' = [pc EXCEPT ![p] = l]
      BY <2>7 DEF Report, Answered, Goto
    <3>2. pc[p] = "seen" /\ UNCHANGED <<ikey, made, lost>> /\ todo' = [todo EXCEPT ![p] = todo[p] \ {At(p)}]
          /\ outcome' = [outcome EXCEPT ![p] = "none"]
      BY <2>7 DEF Report, Answered
    <3> QED BY <3>1, <3>2, Elsewhere
  <2>8. ASSUME NEW p \in Pushes, SeenOld(p) \/ TakeOver(p) \/ RunKnown(p) \/ MapId(p) PROVE IInv'
    <3>1. CASE SeenOld(p) BY <3>1, Elsewhere DEF SeenOld, Goto
    <3>2. CASE TakeOver(p) BY <3>2, Elsewhere DEF TakeOver, Goto
    <3>3. CASE RunKnown(p) BY <3>3, Elsewhere DEF RunKnown, Came, Goto
    <3>4. CASE MapId(p) BY <3>4, Elsewhere DEF MapId, Goto
    <3> QED BY <2>8, <3>1, <3>2, <3>3, <3>4
  <2>9. ASSUME NEW p \in Pushes, SeenGone(p) PROVE IInv'
    BY <2>9, Elsewhere DEF SeenGone, Idle
  <2>10. ASSUME NEW p \in Pushes, RunEdit(p) PROVE IInv'
    <3>1. /\ pc[p] = "run" /\ At(p) \notin Posts /\ pc' = [pc EXCEPT ![p] = "handle"]
          /\ UNCHANGED <<todo, outcome, ikey, made, lost>>
      BY <2>10 DEF RunEdit, Goto
    <3>2. Types' /\ pc'[p] = "handle" /\ \A q \in Pushes : q # p => Stays(q)
      BY <2>t, <3>1 DEF Types, Stays
    <3>3. At(p)' \notin Posts
      BY <3>1, AtStays
    <3> QED BY <3>1, <3>2, <3>3, QuietStep DEF Stays
  <2>11. ASSUME NEW p \in Pushes, RunPost(p) PROVE IInv'
    <3>1. CASE ikey[At(p)] = NoRow
      <4> PICK d \in Posts : d = At(p)
        BY <2>11 DEF RunPost
      <4>1. /\ ikey' = [ikey EXCEPT ![d] = [hash |-> Swapped(p), response |-> "pending"]]
            /\ pc' = [pc EXCEPT ![p] = "handle"] /\ UNCHANGED <<todo, outcome, made, lost>>
        BY <2>11, <3>1 DEF RunPost, Goto
      <4>2. [hash |-> Swapped(p), response |-> "pending"] \in KeyRow
        BY DEF Swapped, KeyRow
      <4>3. /\ Types' /\ pc'[p] = "handle" /\ \A q \in Pushes : q # p => Stays(q)
            /\ \A e \in Posts : e # d => ikey'[e] = ikey[e]
            /\ ikey'[d] = [hash |-> Swapped(p), response |-> "pending"]
        BY <2>t, <4>1, <4>2 DEF Types, Stays
      <4>4. KeyIs(d, "pending")' /\ ~KeyIs(d, "applied")'
        BY <4>2, <4>3 DEF KeyIs
      <4>5. ~KeyIs(d, "applied") /\ \A q \in Pushes : ~AtRoute(q, d)
        BY <3>1, Rows DEF KeyIs, IInv, RunnerHoldsKey
      <4>6. made[d] = lost[d]
        BY <4>5, NobodyThere
      <4> QED BY <4>1, <4>3, <4>4, <4>5, <4>6, RouteMoves
    <3>2. CASE ikey[At(p)] # NoRow
      <4>1. PICK l \in {"record", "map"}, o \in Recorded \cup {"pending"} :
              pc' = [pc EXCEPT ![p] = l] /\ outcome' = [outcome EXCEPT ![p] = outcome'[p]]
        BY <2>11, <2>t, <3>2 DEF RunPost, Came, Goto, ToMap, Types, Recorded
      <4>2. pc[p] = "run" /\ UNCHANGED <<ikey, made, lost, todo>>
        BY <2>11, <3>2 DEF RunPost
      <4> QED BY <4>1, <4>2, Elsewhere
    <3> QED BY <3>1, <3>2
  <2>12. ASSUME NEW p \in Pushes, RunPending(p) PROVE IInv'
    <3>1. CASE Came(p, "retry", "record")
      BY <2>12, <3>1, Elsewhere DEF RunPending, Came, Goto
    <3>2. CASE (\A q \in Pushes : ~AtRoute(q, At(p))) /\ Goto(p, "handle") /\ UNCHANGED outcome
      <4> PICK d \in Posts : d = At(p)
        BY <2>12 DEF RunPending
      <4>1. /\ UNCHANGED <<ikey, made, lost, todo>> /\ pc' = [pc EXCEPT ![p] = "handle"]
            /\ ikey[d] # NoRow /\ ikey[d].response = "pending"
        BY <2>12, <3>2 DEF RunPending, Goto
      <4>2. KeyIs(d, "pending") /\ KeyIs(d, "pending")' /\ ~KeyIs(d, "applied") /\ ~KeyIs(d, "applied")'
        BY <2>t, <4>1 DEF Types, KeyIs
      <4>3. Types' /\ pc'[p] = "handle" /\ \A q \in Pushes : q # p => Stays(q)
        BY <2>t, <3>2, <4>1 DEF Types, Stays
      <4>4. made[d] = lost[d]
        BY <3>2, <4>2, NobodyThere
      <4> QED BY <3>2, <4>1, <4>2, <4>3, <4>4, RouteMoves
    <3> QED BY <2>12, <3>1, <3>2 DEF RunPending
  <2>13. ASSUME NEW p \in Pushes, Handle(p), At(p) \in Posts PROVE IInv'
    <3> PICK d \in Posts : d = At(p)
      BY <2>13
    <3>1. PICK o \in Recorded : /\ pc' = [pc EXCEPT ![p] = "send"] /\ outcome' = [outcome EXCEPT ![p] = o]
                   /\ made' = IF o = "applied" THEN [made EXCEPT ![d] = @ + 1] ELSE made
      BY <2>13 DEF Handle, Outcomes, Recorded, Came, Goto
    <3>2. pc[p] = "handle" /\ UNCHANGED <<ikey, lost, todo>>
      BY <2>13 DEF Handle
    <3>6. /\ made' \in [Entries -> Nat] /\ \A e \in Posts : e # d => made'[e] = made[e]
          /\ made'[d] = IF o = "applied" THEN made[d] + 1 ELSE made[d]
      BY <2>t, <3>1 DEF Types
    <3>3. Types' /\ pc'[p] = "send" /\ outcome'[p] = o /\ \A q \in Pushes : q # p => Stays(q)
      BY <2>t, <3>1, <3>2, <3>6 DEF Types, Stays
    <3>4. /\ KeyIs(d, "pending") /\ ~KeyIs(d, "applied") /\ made[d] = lost[d]
          /\ \A q \in Pushes : q # p => ~AtRoute(q, d)
      BY <3>2, Alone
    <3>5. KeyIs(d, "pending")' /\ ~KeyIs(d, "applied")'
      BY <3>2, <3>4 DEF KeyIs
    <3> QED BY <3>2, <3>3, <3>4, <3>5, <3>6, RouteMoves
  <2>14. ASSUME NEW p \in Pushes, Handle(p), At(p) \notin Posts PROVE IInv'
    <3>1. PICK o : /\ pc' = [pc EXCEPT ![p] = "record"] /\ outcome' = [outcome EXCEPT ![p] = o]
                   /\ made' = IF o = "applied" THEN [made EXCEPT ![At(p)] = @ + 1] ELSE made
      BY <2>14 DEF Handle, Came, Goto
    <3>2. pc[p] = "handle" /\ UNCHANGED <<ikey, lost, todo>>
      BY <2>14 DEF Handle
    <3>3. made' \in [Entries -> Nat] /\ \A e \in Posts : made'[e] = made[e]
      <4>1. CASE o # "applied"
        BY <2>t, <3>1, <4>1 DEF Types
      <4>2. CASE made' = [made EXCEPT ![At(p)] = made[At(p)] + 1]
        <5>1. CASE At(p) \in Entries
          BY <2>t, <2>14, <4>2, <5>1 DEF Types
        <5>2. CASE At(p) \notin Entries
          BY <2>t, <4>2, <5>2 DEF Types
        <5> QED BY <5>1, <5>2
      <4> QED BY <3>1, <4>1, <4>2
    <3>4. Types' /\ pc'[p] = "record" /\ \A q \in Pushes : q # p => Stays(q)
      BY <2>t, <3>1, <3>2, <3>3 DEF Types, Stays
    <3> QED BY <3>2, <3>3, <3>4, QuietStep DEF Stays
  <2>15. ASSUME NEW p \in Pushes, Store(p) PROVE IInv'
    <3>0. pc[p] = "send" /\ At(p) \in Posts
      BY <2>15, <2>t DEF Store, StoreAs, SendsAnswers
    <3> PICK d \in Posts : d = At(p)
      BY <3>0
    <3>1. PICK l \in {"record", "map"} : pc' = [pc EXCEPT ![p] = l]
      BY <2>15 DEF Store, StoreAs, Goto, ToMap
    <3>2. UNCHANGED <<made, lost, todo, outcome>> /\ ikey' = [ikey EXCEPT ![d] = [ikey[d] EXCEPT !.response = outcome[p]]]
      BY <2>15 DEF Store, StoreAs
    <3>3. /\ KeyIs(d, "pending") /\ \A q \in Pushes : q # p => ~AtRoute(q, d)
          /\ outcome[p] = "applied" => made[d] = lost[d] + 1
          /\ outcome[p] # "applied" => made[d] = lost[d]
      BY <3>0, Alone
    <3>4. outcome[p] \in Recorded
      BY <3>0, <2>t DEF SendsAnswers
    <3>5. [ikey[d] EXCEPT !.response = outcome[p]] \in KeyRow
          /\ [ikey[d] EXCEPT !.response = outcome[p]].response = outcome[p]
      BY <3>3, <3>4 DEF KeyIs, KeyRow
    <3>6. /\ Types' /\ pc'[p] = l /\ \A q \in Pushes : q # p => Stays(q)
          /\ \A e \in Posts : e # d => ikey'[e] = ikey[e]
          /\ ikey'[d] = [ikey[d] EXCEPT !.response = outcome[p]]
      BY <2>t, <3>1, <3>2, <3>5 DEF Types, Stays
    <3>7. KeyIs(d, "applied")' <=> outcome[p] = "applied"
      BY <3>5, <3>6 DEF KeyIs
    <3> QED BY <3>2, <3>3, <3>6, <3>7, RouteMoves
  <2>16. ASSUME NEW p \in Pushes, StoreFails(p) \/ HandleFails(p) PROVE IInv'
    <3>1. /\ pc[p] \in {"handle", "send"} /\ pc' = [pc EXCEPT ![p] = "record"]
          /\ outcome' = [outcome EXCEPT ![p] = "retry"] /\ UNCHANGED <<made, todo>>
          /\ lost' = IF pc[p] = "send" /\ outcome[p] = "applied" THEN [lost EXCEPT ![At(p)] = @ + 1] ELSE lost
          /\ ikey' = ikey \/ (At(p) \in Posts /\ ikey' = [ikey EXCEPT ![At(p)] = NoRow])
      BY <2>16, <2>t DEF StoreFails, HandleFails, Forgotten, Frees, Came, Goto, SendsAnswers
    <3>6. ikey' \in [Entries -> KeyRow \cup {NoRow}]
      BY <2>t, <3>1 DEF Types
    <3>2. lost' \in [Entries -> Nat]
      BY <2>t, <3>1 DEF Types, SendsAnswers
    <3>3. Types' /\ pc'[p] = "record" /\ \A q \in Pushes : q # p => Stays(q)
      BY <2>t, <3>1, <3>2, <3>6 DEF Types, Stays
    <3>4. CASE At(p) \in Posts
      <4> PICK d \in Posts : d = At(p)
        BY <3>4
      <4>1. \A e \in Posts : e # d => lost'[e] = lost[e] /\ ikey'[e] = ikey[e]
        BY <2>t, <3>1 DEF Types
      <4>2. /\ lost'[d] = IF pc[p] = "send" /\ outcome[p] = "applied" THEN lost[d] + 1 ELSE lost[d]
            /\ ikey'[d] = ikey[d] \/ ikey'[d] = NoRow
        BY <2>t, <3>1 DEF Types
      <4>3. ~KeyIs(d, "applied")' /\ made'[d] = lost'[d]
        BY <3>1, <4>2, Alone, Rows DEF KeyIs
      <4>4. \A q \in Pushes : q # p => ~AtRoute(q, d)
        BY <3>1, Alone
      <4> QED BY <3>1, <3>3, <4>1, <4>3, <4>4, RouteMoves
    <3>5. CASE At(p) \notin Posts
      <4>1. pc[p] # "send" /\ lost' = lost /\ ikey' = ikey
        BY <2>t, <3>1, <3>5 DEF SendsAnswers
      <4> QED BY <3>1, <3>3, <4>1, QuietStep DEF Stays
    <3> QED BY <3>4, <3>5
  <2>17. ASSUME NEW p \in Pushes, RunFails(p) PROVE IInv'
    BY <2>17, Elsewhere DEF RunFails, Came, Goto
  <2>18. ASSUME NEW p \in Pushes, Record(p) PROVE IInv'
    <3>1. PICK l \in {"done", "claim"} : pc' = [pc EXCEPT ![p] = l]
      BY <2>18 DEF Record, RecordAs, Answered, Goto
    <3>2. pc[p] = "record" /\ UNCHANGED <<ikey, made, lost>> /\ todo' = [todo EXCEPT ![p] = todo[p] \ {At(p)}]
          /\ outcome' = [outcome EXCEPT ![p] = "none"]
      BY <2>18 DEF Record, RecordAs, Answered
    <3> QED BY <3>1, <3>2, Elsewhere
  <2> QED
    BY <2>1, <2>2, <2>3, <2>4, <2>5, <2>6, <2>7, <2>8, <2>9, <2>10, <2>11, <2>12, <2>13, <2>14,
       <2>15, <2>16, <2>17, <2>18 DEF Next, Step
<1> QED BY <1>1, <1>2, PTL DEF Spec

(* RepeatsOnlyWhatWasLost: a POST of the queue takes effect again only for an effect whose   *)
(* answer was lost on its way to the key, whatever races and dies.                          *)
THEOREM EveryRepeatWasLost == Spec => []RepeatsOnlyWhatWasLost
<1>1. IInv => RepeatsOnlyWhatWasLost
  <2> SUFFICES ASSUME IInv, NEW e \in Posts PROVE made[e] <= 1 + lost[e]
    BY DEF RepeatsOnlyWhatWasLost
  <2>1. lost[e] \in Nat /\ (made[e] = lost[e] + 1 \/ made[e] = lost[e])
    BY ConstantsAssumption DEF IInv, Types, EffectsAreCounted
  <2> QED BY <2>1
<1> QED BY <1>1, Inductive, PTL

(* Two pushes never run a POST at once, however many take over a dead push's claim of it.   *)
THEOREM EveryPostAlone == Spec => []PostRunByOne
<1>1. IInv => PostRunByOne
  BY DEF IInv
<1> QED BY <1>1, Inductive, PTL

-----------------------------------------------------------------------------
(* Types.  A push that is at work has an entry left to be at, and one that maps an id is at *)
(* a POST that made one.                                                                    *)
WorkLeft == \A p \in Pushes : pc[p] \notin {"idle", "done"} => todo[p] # {}
MapHasCid == \A p \in Pushes : pc[p] = "map" => At(p) \in Posts /\ CidOf[At(p)] \in Cids
TInv == TypeOK /\ WorkLeft /\ MapHasCid

LEMMA LeastNumber ==
  ASSUME NEW T, T \subseteq Nat, T # {}
  PROVE  \E i \in T : \A j \in T : i <= j
<1>1. PICK i \in T : \A j \in T : ~(<<j, i>> \in OpToRel(<, Nat))
  BY NatLessThanWellFounded, WFMin
<1>2. \A j \in T : ~(j < i)
  BY <1>1 DEF OpToRel
<1> QED BY <1>2

(* The entry a push is at is one of those it has left. *)
LEMMA AtIsLeft ==
  ASSUME TypeOK, NEW p \in Pushes, todo[p] # {}
  PROVE  At(p) \in todo[p] /\ At(p) \in Entries
<1> DEFINE T == {i \in DOMAIN Queue : Queue[i] \in todo[p]}
<1>1. DOMAIN Queue = 1..Len(Queue) /\ Len(Queue) \in Nat
  BY ConstantsAssumption
<1>2. T \subseteq Nat
  BY <1>1
<1>3. todo[p] \subseteq Entries
  BY DEF TypeOK
<1>4. T # {}
  BY <1>3 DEF Entries
<1>5. PICK i \in T : \A j \in T : i <= j
  BY <1>2, <1>4, LeastNumber
<1>6. IsNext(p, i)
  BY <1>5 DEF IsNext
<1>7. \E k \in DOMAIN Queue : IsNext(p, k)
  BY <1>6
<1>8. IsNext(p, CHOOSE k \in DOMAIN Queue : IsNext(p, k))
  BY <1>7
<1>9. At(p) \in todo[p]
  BY <1>8 DEF At, IsNext
<1> QED BY <1>3, <1>9

LEMMA OneMoves ==
  ASSUME TInv, TypeOK', NEW p \in Pushes,
         \A q \in Pushes : q # p => pc'[q] = pc[q] /\ todo'[q] = todo[q],
         pc'[p] \notin {"idle", "done"} => todo'[p] # {},
         pc'[p] = "map" => todo'[p] = todo[p] /\ At(p) \in Posts /\ CidOf[At(p)] # NoCid
  PROVE  TInv'
<1>1. WorkLeft'
  BY DEF TInv, WorkLeft
<1>2. ASSUME NEW q \in Pushes, pc'[q] = "map" PROVE At(q)' \in Posts /\ CidOf[At(q)'] \in Cids
  <2>1. CASE q = p
    BY <1>2, <2>1, AtStays, ConstantsAssumption
  <2>2. CASE q # p
    BY <1>2, <2>2, AtStays DEF TInv, MapHasCid
  <2> QED BY <2>1, <2>2
<1>3. MapHasCid'
  BY <1>2 DEF MapHasCid
<1> QED BY <1>1, <1>3 DEF TInv

LEMMA NoneMoves ==
  ASSUME TInv, TypeOK', UNCHANGED <<pc, todo>>
  PROVE  TInv'
<1>1. MapHasCid'
  BY AtStays DEF TInv, MapHasCid
<1>2. WorkLeft'
  BY DEF TInv, WorkLeft
<1> QED BY <1>1, <1>2 DEF TInv

(* Where an answered entry leaves the push. *)
LEMMA AnsweredMoves ==
  ASSUME TInv, NEW p \in Pushes, todo[p] # {}, NEW o \in Answers \cup {"none"}, Answered(p, o)
  PROVE  /\ todo' \in [Pushes -> SUBSET Entries] /\ outcome' \in [Pushes -> Answers \cup {"none"}]
         /\ results' \in [Pushes -> [Entries -> Answers \cup {"none"}]]
         /\ \E l \in {"done", "claim"} : pc' = [pc EXCEPT ![p] = l]
         /\ \A q \in Pushes : q # p => pc'[q] = pc[q] /\ todo'[q] = todo[q]
         /\ pc'[p] # "done" => todo'[p] # {}
<1>0. TypeOK
  BY DEF TInv
<1>1. At(p) \in todo[p] /\ At(p) \in Entries
  BY <1>0, AtIsLeft
<1>2. todo' = [todo EXCEPT ![p] = todo[p] \ {At(p)}] /\ outcome' = [outcome EXCEPT ![p] = "none"]
      /\ results' = [results EXCEPT ![p][At(p)] = o]
      /\ pc' = [pc EXCEPT ![p] = IF todo[p] = {At(p)} THEN "done" ELSE "claim"]
  BY DEF Answered, Goto
<1>3. todo' \in [Pushes -> SUBSET Entries] /\ outcome' \in [Pushes -> Answers \cup {"none"}]
  BY <1>0, <1>2 DEF TypeOK
<1>4. results' \in [Pushes -> [Entries -> Answers \cup {"none"}]]
  BY <1>0, <1>1, <1>2 DEF TypeOK
<1>5. \A q \in Pushes : q # p => pc'[q] = pc[q] /\ todo'[q] = todo[q]
  BY <1>0, <1>2 DEF TypeOK
<1>6. pc'[p] # "done" => todo'[p] # {}
  BY <1>0, <1>1, <1>2 DEF TypeOK
<1> QED BY <1>2, <1>3, <1>4, <1>5, <1>6

LEMMA RowTypes ==
  /\ ClaimRow \in SyncRow
  /\ \A r \in SyncRow : [r EXCEPT !.old = FALSE] \in SyncRow /\ [r EXCEPT !.old = TRUE] \in SyncRow
  /\ \A o \in Recorded \cup {"none"} : [result |-> o, old |-> FALSE] \in SyncRow
  /\ \A k \in KeyRow : \A o \in Recorded : [k EXCEPT !.response = o] \in KeyRow
  /\ \A h \in SUBSET Cids : [hash |-> h, response |-> "pending"] \in KeyRow
BY DEF ClaimRow, SyncRow, KeyRow, Recorded

LEMMA LostKept ==
  ASSUME TypeOK, NEW p, Forgotten(p)
  PROVE  lost' \in [Entries -> Nat]
<1>0. lost \in [Entries -> Nat]
  BY DEF TypeOK
<1>1. CASE lost' = lost
  BY <1>0, <1>1
<1>2. ASSUME NEW e, lost' = [lost EXCEPT ![e] = lost[e] + 1] PROVE lost' \in [Entries -> Nat]
  <2>1. CASE e \in Entries
    BY <1>0, <1>2, <2>1
  <2>2. CASE e \notin Entries
    BY <1>0, <1>2, <2>2
  <2> QED BY <2>1, <2>2
<1> QED BY <1>1, <1>2 DEF Forgotten

LEMMA TypesKept == TInv /\ IInv /\ [Next]_vars => TInv'
<1> SUFFICES ASSUME TInv, IInv, [Next]_vars PROVE TInv'
  OBVIOUS
<1>t. TypeOK /\ WorkLeft /\ MapHasCid
  BY DEF TInv
<1>a. \A p \in Pushes : pc[p] \notin {"idle", "done"} => todo[p] # {} /\ At(p) \in Entries
  BY <1>t, AtIsLeft DEF WorkLeft
<1>p. Posts \subseteq Entries
  BY ConstantsAssumption
<1> USE <1>t
<1>1. CASE UNCHANGED vars
  BY <1>1, NoneMoves DEF vars, TypeOK
<1>2. ASSUME NEW p \in Pushes, Start(p) PROVE TInv'
  <2>1. TypeOK'
    BY <1>2 DEF Start, Goto, TypeOK, Unsettled, NoResults
  <2>2. /\ \A q \in Pushes : q # p => pc'[q] = pc[q] /\ todo'[q] = todo[q]
        /\ pc'[p] = "claim" /\ todo'[p] # {}
    BY <1>2 DEF Start, Goto, TypeOK
  <2> QED BY <2>1, <2>2, OneMoves
<1>3. CASE GiveUp
  BY <1>3, NoneMoves DEF GiveUp, Fault, TypeOK
<1>4. ASSUME NEW p \in Pushes, Answer(p) \/ Die(p) \/ SeenGone(p) PROVE TInv'
  <2>1. Idle(p) /\ UNCHANGED <<sm, mapped, ikey, version, made, stale, ids, outcome, results, edits>>
        /\ (faults' = faults \/ faults' = faults + 1)
    BY <1>4 DEF Answer, Die, SeenGone, Fault
  <2>2. settled' \in [Entries -> Recorded \cup {"none"}]
    BY <1>4 DEF Answer, Die, SeenGone, TypeOK
  <2>5. lost' \in [Entries -> Nat]
    BY <1>4, LostKept DEF Answer, Die, SeenGone, TypeOK
  <2>3. TypeOK'
    BY <2>1, <2>2, <2>5 DEF Idle, TypeOK
  <2>4. /\ \A q \in Pushes : q # p => pc'[q] = pc[q] /\ todo'[q] = todo[q]
        /\ pc'[p] = "idle"
    BY <2>1 DEF Idle, TypeOK
  <2> QED BY <2>3, <2>4, OneMoves
<1>5. ASSUME NEW p \in Pushes, ClaimEntry(p) PROVE TInv'
  <2>0. sm' \in [Entries -> SyncRow \cup {NoRow}]
    BY <1>5, RowTypes DEF ClaimEntry, TypeOK
  <2>3. stale' \in [Pushes -> SUBSET Entries]
    BY <1>5 DEF ClaimEntry, Renewed, TypeOK
  <2>1. TypeOK'
    BY <1>5, <2>0, <2>3 DEF ClaimEntry, Goto, TypeOK
  <2>2. /\ \A q \in Pushes : q # p => pc'[q] = pc[q] /\ todo'[q] = todo[q]
        /\ pc'[p] # "map" /\ todo'[p] # {}
    BY <1>5, <1>a DEF ClaimEntry, Goto, TypeOK
  <2> QED BY <2>1, <2>2, OneMoves
<1>6. ASSUME NEW p \in Pushes, Report(p) PROVE TInv'
  <2>1. todo[p] # {} /\ At(p) \in Entries /\ sm[At(p)] \in SyncRow
    BY <1>6, <1>a DEF Report, TypeOK
  <2>2. PICK o \in Answers \cup {"none"} : Answered(p, o)
    BY <1>6, <2>1 DEF Report, SyncRow, Recorded, Answers
  <2>3. UNCHANGED <<server, stale, ids, device, edits, faults>>
    BY <1>6 DEF Report
  <2>5. PICK l \in {"done", "claim"} : pc' = [pc EXCEPT ![p] = l]
    BY <2>1, <2>2, AnsweredMoves
  <2>6. /\ todo' \in [Pushes -> SUBSET Entries] /\ outcome' \in [Pushes -> Answers \cup {"none"}]
        /\ results' \in [Pushes -> [Entries -> Answers \cup {"none"}]]
    BY <2>1, <2>2, AnsweredMoves
  <2>4. TypeOK'
    BY <2>2, <2>3, <2>5, <2>6 DEF TypeOK
  <2> QED BY <2>1, <2>2, <2>4, AnsweredMoves, OneMoves DEF TypeOK
<1>7. ASSUME NEW p \in Pushes, SeenOld(p) \/ RunEdit(p) PROVE TInv'
  <2>1. PICK l \in {"takeover", "handle"} : pc' = [pc EXCEPT ![p] = l]
    BY <1>7 DEF SeenOld, RunEdit, Goto
  <2>2. pc[p] \in {"seen", "run"} /\ UNCHANGED <<server, todo, stale, ids, outcome, results, device, edits, faults>>
    BY <1>7 DEF SeenOld, RunEdit
  <2>3. TypeOK'
    BY <2>1, <2>2 DEF TypeOK
  <2>4. /\ \A q \in Pushes : q # p => pc'[q] = pc[q] /\ todo'[q] = todo[q]
        /\ pc'[p] # "map" /\ todo'[p] # {}
    BY <2>1, <2>2, <1>a DEF TypeOK
  <2> QED BY <2>3, <2>4, OneMoves
<1>8. ASSUME NEW p \in Pushes, TakeOver(p) PROVE TInv'
  <2>1. TypeOK'
    <3>1. sm' \in [Entries -> SyncRow \cup {NoRow}]
      BY <1>8, <1>a, RowTypes DEF TakeOver, TypeOK
    <3> QED BY <1>8, <3>1 DEF TakeOver, Goto, Renewed, TypeOK
  <2>2. /\ \A q \in Pushes : q # p => pc'[q] = pc[q] /\ todo'[q] = todo[q]
        /\ pc'[p] # "map" /\ todo'[p] # {}
    BY <1>8, <1>a DEF TakeOver, Goto, TypeOK
  <2> QED BY <2>1, <2>2, OneMoves
<1>9. ASSUME NEW p \in Pushes, RunKnown(p) \/ RunFails(p) PROVE TInv'
  <2>1. PICK o \in {"applied", "retry"} : Came(p, o, "record")
    BY <1>9 DEF RunKnown, RunFails
  <2>2. /\ pc[p] = "run" /\ UNCHANGED <<server, todo, stale, ids, results, device, edits>>
        /\ (faults' = faults \/ faults' = faults + 1)
    BY <1>9 DEF RunKnown, RunFails, Fault
  <2>3. TypeOK'
    BY <2>1, <2>2 DEF Came, Goto, TypeOK, Answers
  <2>4. /\ \A q \in Pushes : q # p => pc'[q] = pc[q] /\ todo'[q] = todo[q]
        /\ pc'[p] # "map" /\ todo'[p] # {}
    BY <2>1, <2>2, <1>a DEF Came, Goto, TypeOK
  <2> QED BY <2>3, <2>4, OneMoves
<1>10. ASSUME NEW p \in Pushes, RunPost(p) PROVE TInv'
  <2>1. /\ pc[p] = "run" /\ At(p) \in Posts /\ At(p) \in Entries /\ todo[p] # {}
        /\ UNCHANGED <<sm, mapped, version, made, lost, todo, stale, ids, results, device, edits, faults>>
    BY <1>10, <1>a DEF RunPost
  <2>2. PICK l \in {"handle", "record", "map"} : pc' = [pc EXCEPT ![p] = l] /\ (l = "map" => CidOf[At(p)] # NoCid)
    BY <1>10 DEF RunPost, Came, Goto, ToMap
  <2>3. Swapped(p) \in SUBSET Cids
    BY <2>1, ConstantsAssumption DEF Swapped
  <2>4. ikey' \in [Entries -> KeyRow \cup {NoRow}] /\ outcome' \in [Pushes -> Answers \cup {"none"}]
    <3>1. CASE ikey[At(p)] = NoRow
      <4>1. ikey' = [ikey EXCEPT ![At(p)] = [hash |-> Swapped(p), response |-> "pending"]] /\ outcome' = outcome
        BY <1>10, <3>1 DEF RunPost
      <4> QED BY <2>1, <2>3, <4>1, RowTypes DEF TypeOK
    <3>2. CASE ikey[At(p)] # NoRow
      <4>1. ikey[At(p)].response \in Recorded \cup {"pending"}
        BY <2>1, <3>2 DEF TypeOK, KeyRow
      <4> QED BY <1>10, <3>2, <4>1 DEF RunPost, Came, TypeOK, Answers, Recorded
    <3> QED BY <3>1, <3>2
  <2>5. TypeOK'
    BY <2>1, <2>2, <2>4 DEF TypeOK
  <2>6. /\ \A q \in Pushes : q # p => pc'[q] = pc[q] /\ todo'[q] = todo[q]
        /\ pc'[p] = l /\ todo'[p] # {}
    BY <2>1, <2>2 DEF TypeOK
  <2> QED BY <2>1, <2>2, <2>5, <2>6, OneMoves
<1>11. ASSUME NEW p \in Pushes, RunPending(p) PROVE TInv'
  <2>1. /\ pc[p] = "run" /\ UNCHANGED <<server, todo, stale, ids, results, device, edits, faults>>
        /\ \/ Came(p, "retry", "record")
           \/ Goto(p, "handle") /\ UNCHANGED outcome
    BY <1>11 DEF RunPending
  <2>2. TypeOK'
    BY <2>1 DEF Came, Goto, TypeOK, Answers
  <2>3. /\ \A q \in Pushes : q # p => pc'[q] = pc[q] /\ todo'[q] = todo[q]
        /\ pc'[p] # "map" /\ todo'[p] # {}
    BY <2>1, <1>a DEF Came, Goto, TypeOK
  <2> QED BY <2>2, <2>3, OneMoves
<1>12. ASSUME NEW p \in Pushes, Handle(p) PROVE TInv'
  <2>1. /\ pc[p] = "handle" /\ At(p) \in Entries /\ todo[p] # {}
        /\ UNCHANGED <<sm, mapped, ikey, lost, todo, stale, ids, results, device, edits, faults>>
    BY <1>12, <1>a DEF Handle
  <2>2. PICK o \in Recorded, l \in {"send", "record"} :
          /\ Came(p, o, l)
          /\ made' = made \/ made' = [made EXCEPT ![At(p)] = @ + 1]
          /\ version' = version \/ version' = version + 1
    BY <1>12 DEF Handle, Outcomes, Recorded
  <2>5. made' \in [Entries -> Nat]
    BY <2>1, <2>2 DEF TypeOK
  <2>3. TypeOK'
    BY SMTT(30), <2>1, <2>2, <2>5 DEF Came, Goto, TypeOK, Answers, Recorded
  <2>4. /\ \A q \in Pushes : q # p => pc'[q] = pc[q] /\ todo'[q] = todo[q]
        /\ pc'[p] # "map" /\ todo'[p] # {}
    BY <2>1, <2>2 DEF Came, Goto, TypeOK
  <2> QED BY <2>3, <2>4, OneMoves
<1>13. ASSUME NEW p \in Pushes, Store(p) PROVE TInv'
  <2>1. /\ pc[p] = "send" /\ At(p) \in Posts /\ At(p) \in Entries /\ todo[p] # {} /\ outcome[p] \in Recorded
        /\ UNCHANGED <<sm, mapped, version, made, lost, todo, stale, ids, outcome, results, device, edits, faults>>
    BY <1>13, <1>a DEF Store, StoreAs, IInv, SendsAnswers
  <2>2. KeyIs(At(p), "pending")
    BY <2>1 DEF IInv, RunnerHoldsKey, AtRoute
  <2>3. PICK l \in {"record", "map"} : pc' = [pc EXCEPT ![p] = l] /\ (l = "map" => CidOf[At(p)] # NoCid)
    BY <1>13 DEF Store, StoreAs, Goto, ToMap
  <2>4. [ikey[At(p)] EXCEPT !.response = outcome[p]] \in KeyRow
    BY <2>1, <2>2, RowTypes DEF KeyIs
  <2>7. ikey' \in [Entries -> KeyRow \cup {NoRow}]
    BY <1>13, <2>4 DEF Store, StoreAs, TypeOK
  <2>5. TypeOK'
    BY <2>1, <2>3, <2>7 DEF TypeOK
  <2>6. /\ \A q \in Pushes : q # p => pc'[q] = pc[q] /\ todo'[q] = todo[q]
        /\ pc'[p] = l /\ todo'[p] # {}
    BY <2>1, <2>3 DEF TypeOK
  <2> QED BY <2>1, <2>3, <2>5, <2>6, OneMoves
<1>14. ASSUME NEW p \in Pushes, HandleFails(p) \/ StoreFails(p) PROVE TInv'
  <2>1. /\ pc[p] \in {"handle", "send"} /\ At(p) \in Entries /\ todo[p] # {} /\ Came(p, "retry", "record")
        /\ faults' = faults + 1
        /\ UNCHANGED <<sm, mapped, version, made, todo, stale, ids, results, device, edits>>
    BY <1>14, <1>a DEF HandleFails, StoreFails, Fault
  <2>2. ikey' \in [Entries -> KeyRow \cup {NoRow}]
    BY <1>14, <2>1 DEF HandleFails, StoreFails, Frees, TypeOK
  <2>5. lost' \in [Entries -> Nat]
    BY <1>14, LostKept DEF HandleFails, StoreFails, TypeOK
  <2>3. TypeOK'
    BY <2>1, <2>2, <2>5 DEF Came, Goto, TypeOK, Answers
  <2>4. /\ \A q \in Pushes : q # p => pc'[q] = pc[q] /\ todo'[q] = todo[q]
        /\ pc'[p] # "map" /\ todo'[p] # {}
    BY <2>1 DEF Came, Goto, TypeOK
  <2> QED BY <2>3, <2>4, OneMoves
<1>15. ASSUME NEW p \in Pushes, MapId(p) PROVE TInv'
  <2>1. TypeOK'
    BY <1>15 DEF MapId, Goto, TypeOK, MapHasCid
  <2>2. /\ \A q \in Pushes : q # p => pc'[q] = pc[q] /\ todo'[q] = todo[q]
        /\ pc'[p] # "map" /\ todo'[p] # {}
    BY <1>15, <1>a DEF MapId, Goto, TypeOK
  <2> QED BY <2>1, <2>2, OneMoves
<1>16. ASSUME NEW p \in Pushes, Record(p) PROVE TInv'
  <2>1. todo[p] # {} /\ At(p) \in Entries /\ outcome[p] \in Answers \cup {"none"} /\ Answered(p, outcome[p])
    BY <1>16, <1>a DEF Record, RecordAs, TypeOK
  <2>2. sm' \in [Entries -> SyncRow \cup {NoRow}]
    <3>1. outcome[p] # "retry" => [result |-> outcome[p], old |-> FALSE] \in SyncRow
      BY <2>1, RowTypes DEF Answers, Recorded
    <3> QED BY <1>16, <2>1, <3>1 DEF Record, RecordAs, TypeOK
  <2>3. UNCHANGED <<mapped, ikey, version, made, lost, stale, ids, device, edits, faults>>
    BY <1>16 DEF Record, RecordAs
  <2>5. PICK l \in {"done", "claim"} : pc' = [pc EXCEPT ![p] = l]
    BY <2>1, AnsweredMoves
  <2>6. /\ todo' \in [Pushes -> SUBSET Entries] /\ outcome' \in [Pushes -> Answers \cup {"none"}]
        /\ results' \in [Pushes -> [Entries -> Answers \cup {"none"}]]
    BY <2>1, AnsweredMoves
  <2>4. TypeOK'
    BY <2>2, <2>3, <2>5, <2>6 DEF TypeOK
  <2> QED BY ZenonT(60), <2>1, <2>4, AnsweredMoves, OneMoves DEF TypeOK
<1>17. ASSUME NEW e \in Entries, ClaimGrowsOld(e) PROVE TInv'
  BY <1>17, RowTypes, NoneMoves DEF ClaimGrowsOld, TypeOK
<1>18. CASE EditByOther
  BY <1>18, NoneMoves DEF EditByOther, TypeOK
<1> QED
  BY <1>1, <1>2, <1>3, <1>4, <1>5, <1>6, <1>7, <1>8, <1>9, <1>10, <1>11, <1>12, <1>13, <1>14, <1>15,
     <1>16, <1>17, <1>18 DEF Next, Step

LEMMA TypesStart == Init => TInv
BY DEF Init, TInv, TypeOK, WorkLeft, MapHasCid, NoResults

LEMMA TypesAlways == Spec => []TInv
BY TypesStart, TypesKept, Inductive, PTL DEF Spec

(* Type correctness of the queue's replay, for every queue and any number of pushes. *)
THEOREM TypeCorrect == Spec => []TypeOK
<1>1. TInv => TypeOK
  BY DEF TInv
<1> QED BY <1>1, TypesAlways, PTL

-----------------------------------------------------------------------------
(* What is said of an entry, in its row, under its key, on the way there or in an answer:   *)
(* "applied" only when it took effect, and a refusal of a POST that refers to nothing made  *)
(* offline only when its key says so, which it then does for good.                          *)
Free == {e \in Posts : Uses[e] = {}}
Refuses(e) == KeyIs(e, "rejected") \/ KeyIs(e, "conflict")
IsTrue(e, o) == /\ o = "applied" => made[e] > 0
                /\ o \in {"conflict", "rejected"} /\ e \in Free => Refuses(e)
RowsTrue == \A e \in Entries : sm[e] # NoRow => IsTrue(e, sm[e].result)
KeysTrue == \A e \in Posts : ikey[e] # NoRow => IsTrue(e, ikey[e].response) /\ (e \in Free => ikey[e].hash = {})
OutcomesTrue == \A p \in Pushes : /\ pc[p] \in {"map", "record"} => IsTrue(At(p), outcome[p])
                                  /\ pc[p] = "map" => outcome[p] = "applied"
ResultsTrue == \A p \in Pushes : \A e \in Entries : IsTrue(e, results[p][e])
MappedMade == /\ \A c \in mapped : \E d \in Posts : CidOf[d] = c /\ made[d] > 0
              /\ \A p \in Pushes : ids[p] \subseteq mapped
RInv == RowsTrue /\ KeysTrue /\ OutcomesTrue /\ ResultsTrue /\ MappedMade

(* What is true of entries stays true: effects are not undone, and a refusal stays under    *)
(* its key.                                                                                 *)
Grows == /\ \A e \in Entries : made[e] > 0 => made'[e] > 0
         /\ \A e \in Posts : Refuses(e) => Refuses(e)'

LEMMA StepGrows == TInv /\ IInv /\ [Next]_vars => Grows
<1> SUFFICES ASSUME TInv, IInv, [Next]_vars PROVE Grows
  OBVIOUS
<1>t. made \in [Entries -> Nat] /\ ikey \in [Entries -> KeyRow \cup {NoRow}] /\ TypeOK /\ Posts \subseteq Entries
  BY ConstantsAssumption DEF TInv, TypeOK
<1>1. CASE UNCHANGED <<ikey, made>>
  BY <1>1 DEF Grows, Refuses, KeyIs
<1>2. ASSUME NEW p \in Pushes, RunPost(p) PROVE Grows
  <2>1. /\ made' = made
        /\ ikey' = ikey \/ (ikey[At(p)] = NoRow /\ \A e \in Entries : e # At(p) => ikey'[e] = ikey[e])
    BY <1>2, <1>t DEF RunPost
  <2> QED BY <1>t, <2>1, Rows DEF Grows, Refuses, KeyIs
<1>3. ASSUME NEW p \in Pushes, Handle(p) PROVE Grows
  <2>1. ikey' = ikey /\ (made' = made \/ made' = [made EXCEPT ![At(p)] = @ + 1])
    BY <1>3 DEF Handle
  <2>2. \A e \in Entries : made[e] > 0 => made'[e] > 0
    BY <1>t, <2>1
  <2> QED BY <2>1, <2>2 DEF Grows, Refuses, KeyIs
<1>4. ASSUME NEW p \in Pushes, Store(p) \/ HandleFails(p) \/ StoreFails(p) PROVE Grows
  <2>1. pc[p] \in {"handle", "send"} /\ made' = made
    BY <1>4 DEF Store, StoreAs, HandleFails, StoreFails
  <2>2. At(p) \in Posts => KeyIs(At(p), "pending")
    BY <2>1 DEF IInv, RunnerHoldsKey, AtRoute
  <2>3. \A e \in Posts : e # At(p) => ikey'[e] = ikey[e]
    BY <1>4, <1>t DEF Store, StoreAs, HandleFails, StoreFails, Frees
  <2> QED BY <2>1, <2>2, <2>3 DEF Grows, Refuses, KeyIs
<1> QED
  BY <1>1, <1>2, <1>3, <1>4 DEF Next, Step, vars, Start, ClaimEntry, Report, SeenOld, SeenGone, TakeOver, RunKnown,
     RunEdit, RunPending, MapId, Record, RecordAs, RunFails, Answer, Die, GiveUp, ClaimGrowsOld, EditByOther

LEMMA StaysTrue ==
  ASSUME Grows, NEW e \in Entries, NEW o, IsTrue(e, o)
  PROVE  IsTrue(e, o)'
BY DEF Grows, IsTrue, Free, Refuses, KeyIs

LEMMA StaysTrueHere ==
  ASSUME Grows, NEW p \in Pushes, todo' = todo, At(p) \in Entries, NEW o, IsTrue(At(p), o)
  PROVE  IsTrue(At(p), o)'
<1>1. At(p)' = At(p)
  BY AtStays
<1>2. /\ o = "applied" => made'[At(p)] > 0
      /\ o \in {"conflict", "rejected"} /\ At(p) \in Free => Refuses(At(p))'
  BY <1>1 DEF Grows, IsTrue, Free, Refuses, KeyIs
<1> QED BY <1>1, <1>2 DEF IsTrue, Free

LEMMA Silent == \A e \in Entries : IsTrue(e, "none") /\ IsTrue(e, "retry") /\ IsTrue(e, "pending")
BY DEF IsTrue

(* Whatever part of the state a step leaves alone stays true. *)
LEMMA PartsStay ==
  ASSUME RInv, TInv, Grows
  PROVE  /\ sm' = sm => RowsTrue'
         /\ ikey' = ikey => KeysTrue'
         /\ results' = results => ResultsTrue'
         /\ mapped' = mapped /\ ids' = ids => MappedMade'
<1>1. ASSUME sm' = sm PROVE RowsTrue'
  BY <1>1, StaysTrue DEF RInv, RowsTrue
<1>2. ASSUME ikey' = ikey PROVE KeysTrue'
  BY <1>2, StaysTrue, ConstantsAssumption DEF RInv, KeysTrue
<1>3. ASSUME results' = results PROVE ResultsTrue'
  BY <1>3, StaysTrue DEF RInv, ResultsTrue
<1>4. ASSUME mapped' = mapped, ids' = ids PROVE MappedMade'
  BY <1>4, ConstantsAssumption DEF RInv, MappedMade, Grows
<1> QED BY <1>1, <1>2, <1>3, <1>4

(* One push moves: the others' outcomes stay true, and so is its own. *)
LEMMA OutcomeStays ==
  ASSUME RInv, TInv, TInv', Grows, NEW p \in Pushes,
         \A q \in Pushes : q # p => pc'[q] = pc[q] /\ todo'[q] = todo[q] /\ outcome'[q] = outcome[q],
         pc'[p] \in {"map", "record"} => todo'[p] = todo[p] /\ IsTrue(At(p), outcome[p])',
         pc'[p] = "map" => outcome'[p] = "applied"
  PROVE  OutcomesTrue'
<1> SUFFICES ASSUME NEW q \in Pushes, pc'[q] \in {"map", "record"}
             PROVE  IsTrue(At(q), outcome[q])' /\ (pc'[q] = "map" => outcome'[q] = "applied")
  BY DEF OutcomesTrue
<1>1. CASE q = p
  <2>1. todo'[p] = todo[p] /\ IsTrue(At(p), outcome[p])' /\ At(p)' = At(p)
    BY <1>1, AtStays
  <2> QED BY <1>1, <2>1
<1>2. CASE q # p
  <2>1. At(q)' = At(q) /\ At(q) \in Entries /\ IsTrue(At(q), outcome[q])
    BY <1>2, AtStays, AtIsLeft DEF RInv, OutcomesTrue, TInv, WorkLeft
  <2>2. IsTrue(At(q), outcome[q])'
    BY <1>2, <2>1, StaysTrue
  <2> QED BY <1>2, <2>2 DEF RInv, OutcomesTrue
<1> QED BY <1>1, <1>2

(* A step in which nobody comes to an outcome. *)
LEMMA NoOutcome ==
  ASSUME RInv, TInv, TInv', Grows, NEW p \in Pushes,
         \A q \in Pushes : q # p => pc'[q] = pc[q] /\ todo'[q] = todo[q] /\ outcome'[q] = outcome[q],
         pc'[p] \notin {"map", "record"}
  PROVE  OutcomesTrue'
BY OutcomeStays

(* An entry is answered with what is true of it. *)
LEMMA AnsweredTrue ==
  ASSUME RInv, TInv, TInv', Grows, NEW p \in Pushes, todo[p] # {}, NEW o \in Answers \cup {"none"},
         Answered(p, o), IsTrue(At(p), o)
  PROVE  ResultsTrue' /\ OutcomesTrue'
<1>0. TypeOK /\ At(p) \in Entries
  BY AtIsLeft DEF TInv
<1>1. \A q \in Pushes, e \in Entries : results'[q][e] = results[q][e] \/ (e = At(p) /\ results'[q][e] = o)
  BY <1>0 DEF Answered, TypeOK
<1>2. ResultsTrue'
  <2> SUFFICES ASSUME NEW q \in Pushes, NEW e \in Entries PROVE IsTrue(e, results[q][e])'
    BY DEF ResultsTrue
  <2>1. CASE results'[q][e] = results[q][e]
    BY <2>1, StaysTrue DEF RInv, ResultsTrue
  <2>2. CASE e = At(p) /\ results'[q][e] = o
    BY <2>2, StaysTrue
  <2> QED BY <1>1, <2>1, <2>2
<1>3. \A q \in Pushes : q # p => outcome'[q] = outcome[q]
  BY <1>0 DEF Answered, TypeOK
<1>4. pc'[p] \in {"done", "claim"}
  BY <1>0 DEF Answered, Goto, TypeOK
<1>5. OutcomesTrue'
  BY <1>3, <1>4, AnsweredMoves, NoOutcome
<1> QED BY <1>2, <1>5

(* The handler or the key made something of the entry, and the push goes on with it. *)
LEMMA CameTrue ==
  ASSUME RInv, TInv, TInv', Grows, NEW p \in Pushes, At(p) \in Entries, todo' = todo,
         NEW o, NEW l \in {"map", "record"}, Came(p, o, l), IsTrue(At(p), o)', l = "map" => o = "applied"
  PROVE  OutcomesTrue'
<1>1. /\ \A q \in Pushes : q # p => pc'[q] = pc[q] /\ todo'[q] = todo[q] /\ outcome'[q] = outcome[q]
      /\ pc'[p] = l /\ outcome'[p] = o /\ At(p)' = At(p)
  BY AtStays DEF Came, Goto, TInv, TypeOK
<1>2. IsTrue(At(p), outcome[p])'
  BY <1>1
<1> QED BY <1>1, <1>2, OutcomeStays

LEMMA ReportsKept == RInv /\ TInv /\ IInv /\ [Next]_vars => RInv'
<1> SUFFICES ASSUME RInv, TInv, IInv, [Next]_vars PROVE RInv'
  OBVIOUS
<1>t. TInv' /\ Grows /\ TypeOK /\ Posts \subseteq Entries
  BY TypesKept, StepGrows, ConstantsAssumption DEF TInv
<1>a. \A p \in Pushes : pc[p] \notin {"idle", "done"} => todo[p] # {} /\ At(p) \in Entries
  BY AtIsLeft DEF TInv, WorkLeft
<1>r. RowsTrue /\ KeysTrue /\ OutcomesTrue /\ ResultsTrue /\ MappedMade
  BY DEF RInv
<1> USE <1>t, <1>r
<1>1. CASE UNCHANGED <<pc, todo, outcome, results, ikey, mapped, ids>> /\ (sm' = sm \/ \E e \in Entries : ClaimGrowsOld(e))
  <2>1. OutcomesTrue'
    <3> SUFFICES ASSUME NEW q \in Pushes, pc[q] \in {"map", "record"}
                 PROVE  IsTrue(At(q), outcome[q])' /\ (pc[q] = "map" => outcome[q] = "applied")
      BY <1>1 DEF OutcomesTrue
    <3>1. At(q)' = At(q) /\ At(q) \in Entries /\ IsTrue(At(q), outcome[q])
      BY <1>1, <1>a, AtStays DEF OutcomesTrue
    <3> QED BY <1>1, <3>1, StaysTrue DEF OutcomesTrue
  <2>2. RowsTrue'
    <3>1. CASE sm' = sm
      BY <3>1, PartsStay
    <3>2. ASSUME NEW e \in Entries, ClaimGrowsOld(e) PROVE RowsTrue'
      <4>1. sm[e] \in SyncRow /\ sm' = [sm EXCEPT ![e] = [sm[e] EXCEPT !.old = TRUE]]
        BY <3>2 DEF ClaimGrowsOld, TypeOK
      <4>2. sm[e] # NoRow /\ [sm[e] EXCEPT !.old = TRUE].result = sm[e].result
        BY <3>2, <4>1 DEF ClaimGrowsOld, SyncRow
      <4>3. \A d \in Entries : sm'[d] # NoRow => sm[d] # NoRow /\ sm'[d].result = sm[d].result
        BY <4>1, <4>2 DEF TypeOK
      <4> QED BY <4>3, StaysTrue DEF RowsTrue
    <3> QED BY <1>1, <3>1, <3>2
  <2> QED BY <1>1, <2>1, <2>2, PartsStay DEF RInv
<1>2. ASSUME NEW p \in Pushes, Start(p) PROVE RInv'
  <2>1. OutcomesTrue'
    <3>1. /\ \A q \in Pushes : q # p => pc'[q] = pc[q] /\ todo'[q] = todo[q] /\ outcome'[q] = outcome[q]
          /\ pc'[p] = "claim"
      BY <1>2 DEF Start, Goto, TypeOK
    <3> QED BY <3>1, NoOutcome
  <2>2. ResultsTrue'
    <3>1. \A q \in Pushes, e \in Entries : results'[q][e] = results[q][e] \/ results'[q][e] = "none"
      BY <1>2 DEF Start, NoResults, TypeOK
    <3> QED BY <3>1, StaysTrue, Silent DEF ResultsTrue, IsTrue
  <2>3. MappedMade'
    <3>1. mapped' = mapped /\ ids' = [ids EXCEPT ![p] = mapped] /\ made' = made
      BY <1>2 DEF Start
    <3> QED BY <3>1 DEF MappedMade, TypeOK
  <2> QED BY <1>2, <2>1, <2>2, <2>3, PartsStay DEF RInv, Start
<1>3. ASSUME NEW p \in Pushes, Answer(p) \/ Die(p) \/ SeenGone(p) PROVE RInv'
  <2>1. Idle(p) /\ UNCHANGED <<sm, mapped, ikey, made, ids, outcome, results>>
    BY <1>3 DEF Answer, Die, SeenGone
  <2>2. OutcomesTrue'
    <3>1. /\ \A q \in Pushes : q # p => pc'[q] = pc[q] /\ todo'[q] = todo[q] /\ outcome'[q] = outcome[q]
          /\ pc'[p] = "idle"
      BY <2>1 DEF Idle, TypeOK
    <3> QED BY <3>1, NoOutcome
  <2> QED BY <2>1, <2>2, PartsStay DEF RInv
<1>4. ASSUME NEW p \in Pushes, ClaimEntry(p) PROVE RInv'
  <2>1. OutcomesTrue'
    <3>1. /\ \A q \in Pushes : q # p => pc'[q] = pc[q] /\ todo'[q] = todo[q] /\ outcome'[q] = outcome[q]
          /\ pc'[p] \in {"run", "seen"}
      BY <1>4 DEF ClaimEntry, Goto, TypeOK
    <3> QED BY <3>1, NoOutcome
  <2>2. RowsTrue'
    <3>1. \A e \in Entries : sm'[e] = sm[e] \/ sm'[e] = ClaimRow
      BY <1>4 DEF ClaimEntry, TypeOK
    <3>2. ClaimRow.result = "none"
      BY DEF ClaimRow
    <3> QED BY <3>1, <3>2, StaysTrue DEF RowsTrue, IsTrue
  <2> QED BY <1>4, <2>1, <2>2, PartsStay DEF RInv, ClaimEntry
<1>5. ASSUME NEW p \in Pushes, Report(p) PROVE RInv'
  <2>1. todo[p] # {} /\ At(p) \in Entries /\ sm[At(p)] \in SyncRow /\ sm[At(p)] # NoRow
    BY <1>5, <1>a DEF Report, TypeOK
  <2>2. PICK o \in Answers \cup {"none"} : Answered(p, o) /\ (o = sm[At(p)].result \/ o = "retry")
    BY <1>5, <2>1 DEF Report, SyncRow, Recorded, Answers
  <2>3. IsTrue(At(p), o)
    BY <2>1, <2>2, Silent DEF RowsTrue
  <2>4. ResultsTrue' /\ OutcomesTrue'
    BY <2>1, <2>2, <2>3, AnsweredTrue
  <2> QED BY <1>5, <2>4, PartsStay DEF RInv, Report
<1>6. ASSUME NEW p \in Pushes, SeenOld(p) \/ RunEdit(p) \/ TakeOver(p) PROVE RInv'
  <2>1. PICK l \in {"takeover", "handle", "run"} : pc' = [pc EXCEPT ![p] = l]
    BY <1>6 DEF SeenOld, RunEdit, TakeOver, Goto
  <2>2. UNCHANGED <<todo, outcome, results, ikey, mapped, ids>>
    BY <1>6 DEF SeenOld, RunEdit, TakeOver
  <2>3. OutcomesTrue'
    BY <2>1, <2>2, NoOutcome DEF TypeOK
  <2>4. RowsTrue'
    <3>1. CASE sm' = sm
      BY <3>1, PartsStay
    <3>2. CASE TakeOver(p) /\ sm' # sm
      <4>1. sm[At(p)] \in SyncRow /\ sm[At(p)] # NoRow /\ sm' = [sm EXCEPT ![At(p)] = [sm[At(p)] EXCEPT !.old = FALSE]]
        BY <1>a, <3>2 DEF TakeOver, TypeOK
      <4>2. [sm[At(p)] EXCEPT !.old = FALSE].result = sm[At(p)].result
        BY <4>1 DEF SyncRow
      <4>3. \A d \in Entries : sm'[d] # NoRow => sm[d] # NoRow /\ sm'[d].result = sm[d].result
        BY <4>1, <4>2 DEF TypeOK
      <4> QED BY <4>3, StaysTrue DEF RowsTrue
    <3> QED BY <1>6, <3>1, <3>2 DEF SeenOld, RunEdit
  <2> QED BY <2>2, <2>3, <2>4, PartsStay DEF RInv
<1>7. ASSUME NEW p \in Pushes, RunKnown(p) PROVE RInv'
  <2>1. At(p) \in Posts /\ At(p) \in Entries /\ CidOf[At(p)] \in mapped /\ mapped \subseteq Cids
    BY <1>7, <1>a DEF RunKnown, Known, MappedMade, TypeOK
  <2>2. PICK d \in Posts : CidOf[d] = CidOf[At(p)] /\ made[d] > 0
    BY <2>1 DEF MappedMade
  <2>3. d = At(p)
    BY <2>1, <2>2, ConstantsAssumption
  <2>4. IsTrue(At(p), "applied")
    BY <2>2, <2>3 DEF IsTrue
  <2>5. OutcomesTrue'
    <3>1. todo' = todo /\ Came(p, "applied", "record")
      BY <1>7 DEF RunKnown
    <3>2. IsTrue(At(p), "applied")'
      BY <2>1, <2>4, <3>1, StaysTrueHere
    <3> QED BY <2>1, <3>1, <3>2, CameTrue
  <2> QED BY <1>7, <2>5, PartsStay DEF RInv, RunKnown
<1>8. ASSUME NEW p \in Pushes, RunFails(p) PROVE RInv'
  <2>0. At(p) \in Entries /\ todo' = todo
    BY <1>8, <1>a DEF RunFails
  <2>1. At(p) \in Entries /\ IsTrue(At(p), "retry")'
    BY <2>0, Silent, StaysTrueHere
  <2>2. OutcomesTrue'
    BY <1>8, <2>1, CameTrue DEF RunFails
  <2> QED BY <1>8, <2>2, PartsStay DEF RInv, RunFails
<1>9. ASSUME NEW p \in Pushes, RunPost(p) PROVE RInv'
  <2>0. /\ pc[p] = "run" /\ At(p) \in Posts /\ At(p) \in Entries /\ todo' = todo
        /\ UNCHANGED <<sm, mapped, ids, results, made>>
    BY <1>9, <1>a DEF RunPost
  <2>1. CASE ikey[At(p)] = NoRow
    <3>1. ikey' = [ikey EXCEPT ![At(p)] = [hash |-> Swapped(p), response |-> "pending"]] /\ outcome' = outcome
          /\ Goto(p, "handle")
      BY <1>9, <2>1 DEF RunPost
    <3>2. OutcomesTrue'
      BY <2>0, <3>1, NoOutcome DEF Goto, TypeOK
    <3>3. KeysTrue'
      <4> SUFFICES ASSUME NEW e \in Posts, ikey'[e] # NoRow
                   PROVE  IsTrue(e, ikey[e].response)' /\ (e \in Free => ikey'[e].hash = {})
        BY DEF KeysTrue, Free
      <4>1. CASE e = At(p)
        <5>1. ikey'[e] = [hash |-> Swapped(p), response |-> "pending"]
          BY <2>0, <3>1, <4>1 DEF TypeOK
        <5>2. e \in Free => Swapped(p) = {}
          BY <4>1 DEF Free, Swapped
        <5> QED BY <5>1, <5>2 DEF IsTrue
      <4>2. CASE e # At(p)
        <5>1. ikey'[e] = ikey[e] /\ e \in Entries
          BY <3>1, <4>2 DEF TypeOK
        <5> QED BY <5>1, StaysTrue DEF KeysTrue
      <4> QED BY <4>1, <4>2
    <3> QED BY <2>0, <3>2, <3>3, PartsStay DEF RInv
  <2>2. CASE ikey[At(p)] # NoRow /\ ikey[At(p)].hash # Swapped(p)
    <3>1. Came(p, "rejected", "record") /\ ikey' = ikey
      BY <1>9, <2>2 DEF RunPost
    <3>2. At(p) \notin Free
      BY <2>0, <2>2 DEF KeysTrue, Free, Swapped
    <3>3. IsTrue(At(p), "rejected")'
      BY <2>0, <3>2, StaysTrueHere DEF IsTrue
    <3>4. OutcomesTrue'
      BY <2>0, <3>1, <3>3, CameTrue
    <3> QED BY <2>0, <3>1, <3>4, PartsStay DEF RInv
  <2>3. CASE ikey[At(p)] # NoRow /\ ikey[At(p)].hash = Swapped(p)
    <3>1. PICK l \in {"map", "record"} : /\ Came(p, ikey[At(p)].response, l) /\ ikey' = ikey
                                         /\ l = "map" => ikey[At(p)].response = "applied"
      BY <1>9, <2>3 DEF RunPost, ToMap
    <3>2. IsTrue(At(p), ikey[At(p)].response)
      BY <2>0, <2>3 DEF KeysTrue
    <3>4. ASSUME NEW o, o = ikey[At(p)].response PROVE OutcomesTrue'
      <4>1. IsTrue(At(p), o)'
        BY <2>0, <3>2, <3>4, StaysTrueHere
      <4> QED BY <2>0, <3>1, <3>4, <4>1, CameTrue
    <3>3. OutcomesTrue'
      BY <3>4
    <3> QED BY <2>0, <3>1, <3>3, PartsStay DEF RInv
  <2> QED BY <2>1, <2>2, <2>3
<1>10. ASSUME NEW p \in Pushes, RunPending(p) PROVE RInv'
  <2>0. At(p) \in Entries /\ UNCHANGED <<server, todo, ids, results>>
    BY <1>10, <1>a DEF RunPending
  <2>1. At(p) \in Entries /\ IsTrue(At(p), "retry")' /\ UNCHANGED <<server, todo, ids, results>>
    BY <2>0, Silent, StaysTrueHere
  <2>2. OutcomesTrue'
    <3>1. CASE Came(p, "retry", "record")
      BY <2>1, <3>1, CameTrue
    <3>2. CASE Goto(p, "handle") /\ UNCHANGED outcome
      BY <2>1, <3>2, NoOutcome DEF Goto, TypeOK
    <3> QED BY <1>10, <3>1, <3>2 DEF RunPending
  <2> QED BY <2>1, <2>2, PartsStay DEF RInv
<1>11. ASSUME NEW p \in Pushes, Handle(p) PROVE RInv'
  <2>0. At(p) \in Entries /\ UNCHANGED <<sm, mapped, ikey, todo, ids, results>>
    BY <1>11, <1>a DEF Handle
  <2>1. CASE At(p) \in Posts
    <3>1. pc' = [pc EXCEPT ![p] = "send"] /\ \E o : outcome' = [outcome EXCEPT ![p] = o]
      BY <1>11, <2>1 DEF Handle, Came, Goto
    <3>2. OutcomesTrue'
      BY <2>0, <3>1, NoOutcome DEF TypeOK
    <3> QED BY <2>0, <3>2, PartsStay DEF RInv
  <2>2. CASE At(p) \notin Posts
    <3>1. PICK o \in Recorded :
            Came(p, o, "record") /\ (o = "applied" => made' = [made EXCEPT ![At(p)] = @ + 1])
      BY <1>11, <2>2 DEF Handle, Outcomes, Recorded
    <3>2. IsTrue(At(p), o)'
      <4>1. At(p)' = At(p) /\ (o = "applied" => made'[At(p)] > 0)
        BY <2>0, <3>1, AtStays DEF TypeOK
      <4> QED BY <2>2, <4>1 DEF IsTrue, Free
    <3>3. OutcomesTrue'
      BY <2>0, <3>1, <3>2, CameTrue
    <3> QED BY <2>0, <3>3, PartsStay DEF RInv
  <2> QED BY <2>1, <2>2
<1>12. ASSUME NEW p \in Pushes, Store(p) PROVE RInv'
  <2>0. /\ pc[p] = "send" /\ At(p) \in Posts /\ At(p) \in Entries /\ outcome[p] \in Recorded
        /\ UNCHANGED <<sm, mapped, made, lost, todo, ids, outcome, results>>
    BY <1>12, <1>a DEF Store, StoreAs, IInv, SendsAnswers
  <2>1. KeyIs(At(p), "pending") /\ ikey[At(p)] \in KeyRow
    BY <2>0 DEF IInv, RunnerHoldsKey, AtRoute, KeyIs
  <2>2. PICK l \in {"record", "map"} : /\ ikey' = [ikey EXCEPT ![At(p)] = [ikey[At(p)] EXCEPT !.response = outcome[p]]]
                                       /\ pc' = [pc EXCEPT ![p] = l]
                                       /\ l = "map" => outcome[p] = "applied"
    BY <1>12 DEF Store, StoreAs, Goto, ToMap
  <2>3. ikey'[At(p)] \in KeyRow /\ ikey'[At(p)].response = outcome[p] /\ ikey'[At(p)].hash = ikey[At(p)].hash
    BY <2>0, <2>1, <2>2 DEF TypeOK, KeyRow
  <2>7. At(p)' = At(p)
    BY <2>0, AtStays
  <2>8. outcome[p] = "applied" => made'[At(p)] > 0
    <3> SUFFICES ASSUME outcome[p] = "applied" PROVE made[At(p)] > 0
      BY <2>0
    <3>1. InHand(At(p))
      BY <2>0 DEF InHand
    <3>2. made[At(p)] = lost[At(p)] + 1
      BY <2>0, <3>1 DEF IInv, EffectsAreCounted, Kept
    <3> QED BY <2>0, <3>2 DEF TypeOK
  <2>4. IsTrue(At(p), outcome[p])'
    BY <2>0, <2>3, <2>7, <2>8 DEF IsTrue, Refuses, KeyIs
  <2>5. OutcomesTrue'
    BY <2>0, <2>2, <2>4, OutcomeStays DEF TypeOK
  <2>6. KeysTrue'
    <3> SUFFICES ASSUME NEW e \in Posts, ikey'[e] # NoRow
                 PROVE  IsTrue(e, ikey[e].response)' /\ (e \in Free => ikey'[e].hash = {})
      BY DEF KeysTrue, Free
    <3>1. CASE e = At(p)
      <4>1. ikey[e] # NoRow
        BY <2>1, <3>1, Rows
      <4>2. IsTrue(e, outcome[p])'
        BY <2>4, <2>7, <3>1 DEF IsTrue, Refuses, KeyIs, Free
      <4> QED BY <2>0, <2>3, <3>1, <4>1, <4>2 DEF KeysTrue
    <3>2. CASE e # At(p)
      <4>1. ikey'[e] = ikey[e] /\ e \in Entries
        BY <2>2, <3>2 DEF TypeOK
      <4> QED BY <4>1, StaysTrue DEF KeysTrue
    <3> QED BY <3>1, <3>2
  <2> QED BY <2>0, <2>5, <2>6, PartsStay DEF RInv
<1>13. ASSUME NEW p \in Pushes, HandleFails(p) \/ StoreFails(p) PROVE RInv'
  <2>a. At(p) \in Entries /\ UNCHANGED <<sm, mapped, todo, ids, results>> /\ Came(p, "retry", "record")
    BY <1>13, <1>a DEF HandleFails, StoreFails
  <2>0. /\ At(p) \in Entries /\ UNCHANGED <<sm, mapped, todo, ids, results>> /\ Came(p, "retry", "record")
        /\ IsTrue(At(p), "retry")'
    BY <2>a, Silent, StaysTrueHere
  <2>1. OutcomesTrue'
    BY <2>0, CameTrue
  <2>2. \A e \in Posts : ikey'[e] = ikey[e] \/ ikey'[e] = NoRow
    BY <1>13 DEF HandleFails, StoreFails, Frees, TypeOK
  <2>3. KeysTrue'
    BY <2>2, StaysTrue DEF KeysTrue, Free
  <2> QED BY <2>0, <2>1, <2>3, PartsStay DEF RInv
<1>14. ASSUME NEW p \in Pushes, MapId(p) PROVE RInv'
  <2>0. /\ pc[p] = "map" /\ At(p) \in Posts /\ At(p) \in Entries /\ UNCHANGED <<sm, ikey, made, todo, outcome, results>>
        /\ mapped' = mapped \cup {CidOf[At(p)]} /\ ids' = [ids EXCEPT ![p] = @ \cup {CidOf[At(p)]}]
        /\ Goto(p, "record")
    BY <1>14, <1>a DEF MapId, TInv, MapHasCid
  <2>1. outcome[p] = "applied" /\ IsTrue(At(p), "applied")
    BY <2>0 DEF OutcomesTrue
  <2>2. made[At(p)] > 0
    BY <2>1 DEF IsTrue
  <2>3. MappedMade'
    BY <2>0, <2>2 DEF MappedMade, TypeOK
  <2>4. OutcomesTrue'
    <3>1. Came(p, "applied", "record")
      BY <2>0, <2>1 DEF Came, TypeOK
    <3>2. IsTrue(At(p), "applied")'
      BY <2>0, <2>1, StaysTrueHere
    <3> QED BY <2>0, <3>1, <3>2, CameTrue
  <2> QED BY <2>0, <2>3, <2>4, PartsStay DEF RInv
<1>15. ASSUME NEW p \in Pushes, Record(p) PROVE RInv'
  <2>0. /\ todo[p] # {} /\ At(p) \in Entries /\ outcome[p] \in Answers \cup {"none"} /\ Answered(p, outcome[p])
        /\ IsTrue(At(p), outcome[p]) /\ UNCHANGED <<mapped, ikey, ids>>
    BY <1>15, <1>a DEF Record, RecordAs, TypeOK, OutcomesTrue
  <2>1. ResultsTrue' /\ OutcomesTrue'
    BY <2>0, AnsweredTrue
  <2>2. \A e \in Entries : sm'[e] = sm[e] \/ sm'[e] = NoRow
                           \/ (e = At(p) /\ sm'[e] = [result |-> outcome[p], old |-> FALSE])
    BY <1>15 DEF Record, RecordAs, TypeOK
  <2>3. [result |-> outcome[p], old |-> FALSE].result = outcome[p]
    OBVIOUS
  <2>4. RowsTrue'
    <3> SUFFICES ASSUME NEW e \in Entries, sm'[e] # NoRow PROVE IsTrue(e, sm[e].result)'
      BY DEF RowsTrue
    <3>1. CASE sm'[e] = sm[e]
      BY <3>1, StaysTrue DEF RowsTrue
    <3>2. CASE e = At(p) /\ sm'[e] = [result |-> outcome[p], old |-> FALSE]
      BY <2>0, <2>3, <3>2, StaysTrue
    <3> QED BY <2>2, <3>1, <3>2
  <2> QED BY <2>0, <2>1, <2>4, PartsStay DEF RInv
<1> QED
  BY <1>1, <1>2, <1>3, <1>4, <1>5, <1>6, <1>7, <1>8, <1>9, <1>10, <1>11, <1>12, <1>13, <1>14, <1>15
  DEF Next, Step, vars, GiveUp, ClaimGrowsOld, EditByOther

(* ReportsAreTrue: what a device is told of a change is what became of it, the first time   *)
(* and every other, for every queue and any number of pushes.                               *)
THEOREM EveryReportIsTrue == Spec => []ReportsAreTrue
<1>1. Init => RInv
  <2> SUFFICES ASSUME Init PROVE RInv
    OBVIOUS
  <2>1. RowsTrue /\ KeysTrue /\ OutcomesTrue
    BY ConstantsAssumption DEF Init, RowsTrue, KeysTrue, OutcomesTrue
  <2>2. \A p \in Pushes : \A e \in Entries : results[p][e] = "none"
    BY DEF Init, NoResults
  <2>3. ResultsTrue
    BY <2>2, Silent DEF ResultsTrue
  <2>4. MappedMade
    BY DEF Init, MappedMade
  <2> QED BY <2>1, <2>3, <2>4 DEF RInv
<1>2. RInv /\ IInv => ReportsAreTrue
  <2> SUFFICES ASSUME RInv, IInv PROVE ReportsAreTrue
    OBVIOUS
  <2>1. AppliedIsTrue
    BY DEF AppliedIsTrue, RInv, ResultsTrue, IsTrue
  <2>2. ASSUME NEW e \in Posts, Refuses(e) PROVE made[e] = lost[e]
    <3>1. ~KeyIs(e, "applied") /\ ~KeyIs(e, "pending")
      BY <2>2 DEF Refuses, KeyIs
    <3>2. ~InHand(e)
      BY <3>1 DEF InHand, AtRoute, IInv, RunnerHoldsKey
    <3> QED BY <3>1, <3>2 DEF IInv, EffectsAreCounted, Kept
  <2>3. RefusalIsTrue
    BY <2>2, ConstantsAssumption DEF RefusalIsTrue, RInv, ResultsTrue, IsTrue, Free
  <2> QED BY <2>1, <2>3 DEF ReportsAreTrue
<1> QED BY <1>1, <1>2, ReportsKept, TypesAlways, Inductive, PTL DEF Spec
=============================================================================

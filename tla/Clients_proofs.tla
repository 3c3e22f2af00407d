--------------------------- MODULE Clients_proofs ---------------------------
(***************************************************************************)
(* Proofs about the two kinds of clients a board has: the requests of the  *)
(* HTTP service (HttpRequests) and the desktop processes with their copies *)
(* of the cards (NativeCards).  The two modules share no name.             *)
(*                                                                         *)
(* HttpRequests: one invariant says what the keys and the tokens remember  *)
(* of the past (IInv); a second one, of the service as long as it is calm, *)
(* relates the listener's number to the others (Ahead).                    *)
(*                                                                         *)
(* NativeCards: the invariant (NativeInv) says that the rows are typed and *)
(* that no two cards of a column have the same position.  A column is then *)
(* the only listing of its cards with ascending positions (SortedIsInOrder,*)
(* InOrderSorts), so that what a process shows is what loading would show  *)
(* as soon as it lists the same entries in an ascending order.             *)
(***************************************************************************)
EXTENDS HttpRequests, NativeCards, FiniteSetTheorems, FunctionTheorems,
        SequenceTheorems, TLAPS

\* The keys are exactly the identities of the changes made.
KeysRemember ==
  \A k \in Scopes \X Versions : commits[k] = IF k \in keys THEN 1 ELSE 0

\* A form that can still be used has changed nothing.
TokensRemember ==
  \A f \in Forms : applied[f] <= 1 /\ (form[f] # "spent" => applied[f] = 0)

IInv == TypeOK /\ KeysRemember /\ TokensRemember

LEMMA FirstNumbers == 1 \in 1 .. VersionMax + 1 /\ 0 \in 0 .. VersionMax
BY HttpRequestsAssumption

LEMMA InitIInv == Init => IInv
<1> SUFFICES ASSUME Init PROVE IInv
  OBVIOUS
<1>1. up \in BOOLEAN /\ next \in 1 .. VersionMax + 1 /\ last \in 0 .. VersionMax
  BY FirstNumbers DEF Init
<1>2. /\ session \in [Sessions -> {"none", "live", "ended"}]
      /\ form \in [Forms -> {"none", "fresh", "spent"}]
      /\ keys \subseteq Scopes \X Versions
      /\ picked \in [Clients -> 0 .. VersionMax]
      /\ hint \in [Forms -> {"none", "shown", "restored"}]
  BY FirstNumbers DEF Init
<1>0. calm \in BOOLEAN
  BY DEF Init
<1>3. commits \in [Scopes \X Versions -> Nat] /\ applied \in [Forms -> Nat]
  BY DEF Init
<1>4. KeysRemember
  BY DEF Init, KeysRemember
<1>5. TokensRemember
  BY DEF Init, TokensRemember
<1> QED BY <1>0, <1>1, <1>2, <1>3, <1>4, <1>5 DEF IInv, TypeOK

\* A change in a scope of the model leaves the keys and the counts in step.
LEMMA ChangeRemembers ==
  ASSUME IInv, NEW s \in Scopes, NEW v \in Versions, Change(s, v)
  PROVE  /\ keys' \subseteq Scopes \X Versions
         /\ commits' \in [Scopes \X Versions -> Nat]
         /\ KeysRemember'
<1> DEFINE k == <<s, v>>
<1>1. /\ k \in Scopes \X Versions /\ k \notin keys
      /\ keys' = keys \cup {k} /\ commits' = [commits EXCEPT ![k] = @ + 1]
  BY DEF Change, Unseen
<1>2. keys \subseteq Scopes \X Versions /\ commits \in [Scopes \X Versions -> Nat]
  BY DEF IInv, TypeOK
<1>3. \A j \in Scopes \X Versions : commits[j] = IF j \in keys THEN 1 ELSE 0
  BY DEF IInv, KeysRemember
<1> HIDE DEF k
<1>4. keys' \subseteq Scopes \X Versions /\ commits' \in [Scopes \X Versions -> Nat]
  BY <1>1, <1>2
<1>5. ASSUME NEW j \in Scopes \X Versions
      PROVE  commits'[j] = IF j \in keys' THEN 1 ELSE 0
  BY <1>1, <1>2, <1>3
<1> QED BY <1>4, <1>5 DEF KeysRemember

LEMMA StoreKept ==
  ASSUME IInv, UNCHANGED store
  PROVE  /\ keys' \subseteq Scopes \X Versions
         /\ commits' \in [Scopes \X Versions -> Nat]
         /\ KeysRemember'
BY DEF IInv, TypeOK, KeysRemember, store

\* Consuming a token keeps the type of the forms, and wakes no spent form.
LEMMA ConsumedForms ==
  ASSUME IInv, NEW f \in Forms, form' = Consumed(f)
  PROVE  /\ form' \in [Forms -> {"none", "fresh", "spent"}]
         /\ \A g \in Forms : form'[g] # "spent" => form[g] # "spent"
BY DEF IInv, TypeOK, Consumed

LEMMA DispatchedSafe ==
  ASSUME IInv, NEW f \in Forms, NEW v \in Versions, Dispatched(f, v)
  PROVE  /\ last' \in 0 .. VersionMax
         /\ form' \in [Forms -> {"none", "fresh", "spent"}]
         /\ keys' \subseteq Scopes \X Versions
         /\ commits' \in [Scopes \X Versions -> Nat]
         /\ applied' \in [Forms -> Nat]
         /\ KeysRemember' /\ TokensRemember'
<1>1. last' \in 0 .. VersionMax
  BY HttpRequestsAssumption DEF Dispatched, Versions
<1>2. ScopeOf[f] \in Scopes /\ v \in Versions
  BY HttpRequestsAssumption
<1>3. form' = Consumed(f) /\ form[f] = "fresh" /\ SessionOf[f] \in Live
  BY DEF Dispatched, Usable
<1>4. form'[f] = "spent"
  BY <1>3 DEF Consumed, IInv, TypeOK
<1>5. /\ form' \in [Forms -> {"none", "fresh", "spent"}]
      /\ \A g \in Forms : form'[g] # "spent" => form[g] # "spent"
  BY <1>3, ConsumedForms
<1>6. applied \in [Forms -> Nat] /\ TokensRemember
  BY DEF IInv, TypeOK
<1>7. CASE Change(ScopeOf[f], v) /\ applied' = [applied EXCEPT ![f] = @ + 1]
  <2>1. /\ keys' \subseteq Scopes \X Versions
        /\ commits' \in [Scopes \X Versions -> Nat] /\ KeysRemember'
    BY <1>2, <1>7, ChangeRemembers
  <2>2. applied[f] = 0
    BY <1>3, <1>6 DEF TokensRemember
  <2>3. applied' \in [Forms -> Nat] /\ TokensRemember'
    BY <1>4, <1>5, <1>6, <1>7, <2>2 DEF TokensRemember
  <2> QED BY <1>1, <1>5, <2>1, <2>3
<1>8. CASE NoChange(ScopeOf[f], v) /\ UNCHANGED applied
  <2>1. /\ keys' \subseteq Scopes \X Versions
        /\ commits' \in [Scopes \X Versions -> Nat] /\ KeysRemember'
    BY <1>8, StoreKept DEF NoChange
  <2>2. applied' \in [Forms -> Nat] /\ TokensRemember'
    BY <1>5, <1>6, <1>8 DEF TokensRemember
  <2> QED BY <1>1, <1>5, <2>1, <2>2
<1> QED BY <1>7, <1>8 DEF Dispatched

LEMMA RefusedSafe ==
  ASSUME IInv, NEW f \in Forms, Refused(f)
  PROVE  /\ last' \in 0 .. VersionMax /\ next' \in 1 .. VersionMax + 1
         /\ form' \in [Forms -> {"none", "fresh", "spent"}]
         /\ keys' \subseteq Scopes \X Versions
         /\ commits' \in [Scopes \X Versions -> Nat]
         /\ applied' \in [Forms -> Nat]
         /\ KeysRemember' /\ TokensRemember'
<1>1. /\ keys' \subseteq Scopes \X Versions
      /\ commits' \in [Scopes \X Versions -> Nat] /\ KeysRemember'
  BY StoreKept DEF Refused
<1>2. /\ form' \in [Forms -> {"none", "fresh", "spent"}]
      /\ \A g \in Forms : form'[g] # "spent" => form[g] # "spent"
  BY ConsumedForms DEF Refused
<1> QED BY <1>1, <1>2 DEF Refused, server, IInv, TypeOK, TokensRemember

LEMMA NextIInv == IInv /\ [Next]_vars => IInv'
<1> SUFFICES ASSUME IInv, [Next]_vars PROVE IInv'
  OBVIOUS
<1>A. KeysRemember /\ TokensRemember /\ TypeOK
  BY DEF IInv
<1>1. ASSUME NEW s \in Sessions, Login(s) \/ EndSession(s) PROVE IInv'
  BY <1>1, <1>A DEF Login, EndSession, IInv, TypeOK, KeysRemember,
     TokensRemember, server, store
<1>2. ASSUME NEW f \in Forms, Issue(f) PROVE IInv'
  <2>1. KeysRemember'
    BY <1>2, StoreKept DEF Issue
  <2>2. TypeOK' /\ TokensRemember'
    BY <1>2, <1>A DEF Issue, TypeOK, TokensRemember, server, store
  <2> QED BY <2>1, <2>2 DEF IInv
<1>3. ASSUME NEW f \in Forms, Expire(f) PROVE IInv'
  <2>1. KeysRemember'
    BY <1>3, StoreKept DEF Expire
  <2>2. TypeOK' /\ TokensRemember'
    BY <1>3, <1>A DEF Expire, TypeOK, TokensRemember, server, store
  <2> QED BY <2>1, <2>2 DEF IInv
<1>4. ASSUME NEW f \in Forms, PlainPost(f) PROVE IInv'
  <2>1. UNCHANGED <<up, session, picked, hint>>
    BY <1>4 DEF PlainPost, Posted
  <2>2. CASE Refused(f)
    <3>1. UNCHANGED calm
      BY <2>2 DEF Refused
    <3> QED BY <1>A, <2>1, <2>2, <3>1, RefusedSafe DEF IInv, TypeOK
  <2>3. ASSUME next \in Versions, Dispatched(f, next),
               NEW sent \in {TRUE, ~MayLose},
               next' = NextAfter(next, sent) /\ calm' = (calm /\ sent)
        PROVE  IInv'
    <3>1. next' \in 1 .. VersionMax + 1
      BY <2>3, HttpRequestsAssumption DEF NextAfter, Versions
    <3>2. calm' \in BOOLEAN
      BY <2>3
    <3> QED BY <1>A, <2>1, <2>3, <3>1, <3>2, DispatchedSafe DEF IInv, TypeOK
  <2> QED BY <1>4, <2>2, <2>3 DEF PlainPost
<1>5. ASSUME NEW f \in Forms, ScriptPost(f) PROVE IInv'
  <2>1. KeysRemember'
    BY <1>5, StoreKept DEF ScriptPost
  <2>2. TypeOK' /\ TokensRemember'
    BY <1>5, <1>A DEF ScriptPost, TypeOK, TokensRemember, server, store
  <2> QED BY <2>1, <2>2 DEF IInv
<1>6. ASSUME NEW f \in Forms, NEW v \in Versions, EnhancedPost(f, v) PROVE IInv'
  <2>1. UNCHANGED <<up, session, picked, hint>>
    BY <1>6 DEF EnhancedPost, Posted
  <2>2. CASE Refused(f)
    <3>1. UNCHANGED calm
      BY <2>2 DEF Refused
    <3> QED BY <1>A, <2>1, <2>2, <3>1, RefusedSafe DEF IInv, TypeOK
  <2>3. CASE /\ Dispatched(f, v) /\ next' = IF v >= next THEN v + 1 ELSE next
             /\ UNCHANGED calm
    <3>1. next' \in 1 .. VersionMax + 1
      BY <1>A, <2>3, HttpRequestsAssumption DEF Versions, TypeOK
    <3> QED BY <1>A, <2>1, <2>3, <3>1, DispatchedSafe DEF IInv, TypeOK
  <2> QED BY <1>6, <2>2, <2>3 DEF EnhancedPost
<1>7. ASSUME NEW c \in Clients, Pick(c) PROVE IInv'
  <2>1. KeysRemember'
    BY <1>7, StoreKept DEF Pick
  <2>2. TypeOK' /\ TokensRemember'
    BY <1>7, <1>A DEF Pick, TypeOK, TokensRemember, server, store, Versions
  <2> QED BY <2>1, <2>2 DEF IInv
<1>8. ASSUME NEW c \in Clients, Save(c) PROVE IInv'
  <2>1. /\ keys' \subseteq Scopes \X Versions
        /\ commits' \in [Scopes \X Versions -> Nat] /\ KeysRemember'
    <3>1. CASE Change(ClientScope[c], picked[c])
      <4>1. ClientScope[c] \in Scopes /\ picked[c] \in Versions
        BY <1>8, <1>A, HttpRequestsAssumption DEF Save, TypeOK, Versions
      <4> QED BY <3>1, <4>1, ChangeRemembers
    <3>2. CASE UNCHANGED store
      BY <3>2, StoreKept
    <3> QED BY <1>8, <3>1, <3>2 DEF Save
  <2>2. calm' \in BOOLEAN
    BY <1>8, <1>A DEF Save, TypeOK
  <2>3. picked' \in [Clients -> 0 .. VersionMax]
    BY <1>8, <1>A, HttpRequestsAssumption DEF Save, TypeOK
  <2>4. UNCHANGED <<up, next, last, session, form, applied, hint>>
    BY <1>8 DEF Save, server
  <2>5. TypeOK'
    BY <1>A, <2>1, <2>2, <2>3, <2>4 DEF TypeOK
  <2>6. TokensRemember'
    BY <1>A, <2>4 DEF TokensRemember
  <2> QED BY <2>1, <2>5, <2>6 DEF IInv
<1>9. CASE Start \/ Stop
  <2>1. KeysRemember'
    BY <1>9, StoreKept DEF Start, Stop
  <2>2. up' \in BOOLEAN /\ next' \in 1 .. VersionMax + 1 /\ last' \in 0 .. VersionMax
    BY <1>9, <1>A, FirstNumbers DEF Start, Stop, TypeOK
  <2>3. TypeOK' /\ TokensRemember'
    BY <1>9, <1>A, <2>2 DEF Start, Stop, TypeOK, TokensRemember, store
  <2> QED BY <2>1, <2>3 DEF IInv
<1>10. CASE Crash
  <2>1. KeysRemember'
    BY <1>10, StoreKept DEF Crash
  <2>2. up' \in BOOLEAN /\ next' \in 1 .. VersionMax + 1
    BY <1>10, FirstNumbers DEF Crash
  <2>0. calm' \in BOOLEAN
    BY <1>10 DEF Crash
  <2>3. session' \in [Sessions -> {"none", "live", "ended"}]
    BY <1>10, <1>A DEF Crash, TypeOK
  <2>4. /\ form' \in [Forms -> {"none", "fresh", "spent"}]
        /\ \A f \in Forms : form'[f] # "spent" => form[f] # "spent"
    BY <1>10, <1>A DEF Crash, TypeOK
  <2>5. UNCHANGED <<last, keys, commits, picked, applied, hint>>
    BY <1>10 DEF Crash, store
  <2>6. TypeOK'
    BY <1>A, <2>0, <2>2, <2>3, <2>4, <2>5 DEF TypeOK
  <2>7. TokensRemember'
    BY <1>A, <2>4, <2>5 DEF TokensRemember
  <2> QED BY <2>1, <2>6, <2>7 DEF IInv
<1>11. CASE UNCHANGED vars
  BY <1>11, <1>A DEF vars, IInv, TypeOK, KeysRemember, TokensRemember
<1> QED BY <1>1, <1>2, <1>3, <1>4, <1>5, <1>6, <1>7, <1>8, <1>9, <1>10, <1>11 DEF Next

LEMMA SpecIInv == Spec => []IInv
BY InitIInv, NextIInv, PTL DEF Spec

\* Every variable of the service and of the store keeps its type, for every
\* set of forms, sessions, scopes and clients: the run http_requests.
THEOREM TypeCorrect == Spec => []TypeOK
<1>1. IInv => TypeOK
  BY DEF IInv
<1> QED BY <1>1, SpecIInv, PTL

\* A form changes the board at most once (wena_security_csrf_consume marks its
\* token used before the request is dispatched).
THEOREM FormsChangeOnce == Spec => []FormsApplyOnce
<1>1. IInv => FormsApplyOnce
  BY DEF IInv, TokensRemember, FormsApplyOnce
<1> QED BY <1>1, SpecIInv, PTL

\* No two changes of a scope have the same request version, whoever made them
\* (the count and the insertion of wena_sqlite_persistence_apply).
THEOREM VersionsChangeOnce == Spec => []VersionsNameOneChange
<1>1. IInv => VersionsNameOneChange
  <2> SUFFICES ASSUME IInv, NEW k \in Scopes \X Versions PROVE commits[k] <= 1
    BY DEF VersionsNameOneChange
  <2>1. commits[k] = IF k \in keys THEN 1 ELSE 0
    BY DEF IInv, KeysRemember
  <2> QED BY <2>1
<1> QED BY <1>1, SpecIInv, PTL

\* What was asked for once is done once: by a form, however often it is posted,
\* and by processes that chose the same request version.
THEOREM ChangesOnce == Spec => []ChangesHappenOnce
<1> QED BY FormsChangeOnce, VersionsChangeOnce, PTL DEF ChangesHappenOnce
-----------------------------------------------------------------------------
(* The service as long as it is calm. *)

\* The next plain form's number is above everything the adapter has let
\* through and everything committed in the scope of a form; before the first
\* start nothing has been.
Ahead ==
  /\ next > last
  /\ \A s \in FormScopes, v \in Versions : <<s, v>> \in keys => v < next
  /\ ~up => \A s \in FormScopes, v \in Versions : <<s, v>> \notin keys

\* What a dispatched request adds to the keys is its own identity.
LEMMA DispatchedKeys ==
  ASSUME NEW f \in Forms, NEW v \in Versions, Dispatched(f, v)
  PROVE  last' = v /\ v > last /\ keys' \subseteq keys \cup {<<ScopeOf[f], v>>}
BY DEF Dispatched, Change, NoChange, store

LEMMA NextAhead ==
  ASSUME IInv, calm => Ahead, [Next]_vars, calm'
  PROVE  Ahead'
<1>A. /\ next \in 1 .. VersionMax + 1 /\ last \in 0 .. VersionMax /\ VersionMax \in Nat
  BY HttpRequestsAssumption DEF IInv, TypeOK
<1>1. ASSUME calm, UNCHANGED <<up, next, last, keys>> PROVE Ahead'
  BY <1>1 DEF Ahead
<1>2. ASSUME NEW f \in Forms, NEW v \in Versions, Dispatched(f, v), up' = up, up, calm,
             next' \in Nat, next' > v, next' >= next
      PROVE  Ahead'
  <2>1. last' = v /\ keys' \subseteq keys \cup {<<ScopeOf[f], v>>}
    BY <1>2, DispatchedKeys
  <2>2. ASSUME NEW s \in FormScopes, NEW w \in Versions, <<s, w>> \in keys'
        PROVE  w < next'
    <3>1. <<s, w>> \in keys \/ w = v
      BY <2>1, <2>2
    <3>2. w \in Nat /\ v \in Nat /\ next \in Nat
      BY <1>A DEF Versions
    <3>3. CASE <<s, w>> \in keys
      <4>1. w < next
        BY <1>2, <3>3 DEF Ahead
      <4> QED BY <1>2, <3>2, <4>1
    <3> QED BY <1>2, <3>1, <3>3
  <2> QED BY <1>2, <2>1, <2>2 DEF Ahead
<1>3. ASSUME NEW f \in Forms, PlainPost(f) PROVE Ahead'
  <2>1. CASE Refused(f)
    BY <1>1, <1>3, <2>1 DEF PlainPost, Posted, Refused, server, store
  <2>2. ASSUME next \in Versions, Dispatched(f, next), NEW sent \in {TRUE, ~MayLose},
               next' = NextAfter(next, sent), calm' = (calm /\ sent)
        PROVE  Ahead'
    <3>1. sent /\ calm
      BY <2>2
    <3>2. next' = next + 1
      BY <2>2, <3>1 DEF NextAfter
    <3>3. up /\ up' = up
      BY <1>3 DEF PlainPost, Posted
    <3>4. next' \in Nat /\ next' > next /\ next' >= next
      BY <1>A, <3>2
    <3> QED BY <1>2, <2>2, <3>1, <3>3, <3>4
  <2> QED BY <1>3, <2>1, <2>2 DEF PlainPost
<1>4. ASSUME NEW f \in Forms, NEW v \in Versions, EnhancedPost(f, v) PROVE Ahead'
  <2>1. CASE Refused(f)
    BY <1>1, <1>4, <2>1 DEF EnhancedPost, Posted, Refused, server, store
  <2>2. CASE /\ Dispatched(f, v) /\ next' = IF v >= next THEN v + 1 ELSE next
             /\ UNCHANGED calm
    <3>1. v \in Nat
      BY DEF Versions
    <3>2. next' \in Nat /\ next' > v /\ next' >= next
      BY <1>A, <2>2, <3>1
    <3>3. up /\ up' = up
      BY <1>4 DEF EnhancedPost, Posted
    <3> QED BY <1>2, <2>2, <3>2, <3>3
  <2> QED BY <1>4, <2>1, <2>2 DEF EnhancedPost
<1>5. ASSUME NEW c \in Clients, Save(c) PROVE Ahead'
  <2>1. UNCHANGED <<up, next, last>> /\ calm
    BY <1>5 DEF Save, server
  <2>2. \A s \in FormScopes, v \in Versions : <<s, v>> \in keys' => <<s, v>> \in keys
    <3>1. CASE UNCHANGED <<store, calm>>
      BY <3>1 DEF store
    <3>2. CASE /\ Change(ClientScope[c], picked[c])
               /\ calm' = (calm /\ ClientScope[c] \notin FormScopes)
      BY <3>2 DEF Change
    <3> QED BY <1>5, <3>1, <3>2 DEF Save
  <2> QED BY <2>1, <2>2 DEF Ahead
<1>6. CASE Start
  <2>1. \A s \in FormScopes, v \in Versions : <<s, v>> \notin keys'
    BY <1>6 DEF Start, store, Ahead
  <2> QED BY <1>6, <2>1 DEF Start, Ahead
<1>7. ~Stop /\ ~Crash
  BY DEF Stop, Crash
<1>8. ASSUME NEW s \in Sessions, Login(s) \/ EndSession(s) PROVE Ahead'
  BY <1>1, <1>8 DEF Login, EndSession, server, store
<1>9. ASSUME NEW f \in Forms, Issue(f) \/ Expire(f) \/ ScriptPost(f) PROVE Ahead'
  BY <1>1, <1>9 DEF Issue, Expire, ScriptPost, server, store
<1>10. ASSUME NEW c \in Clients, Pick(c) PROVE Ahead'
  BY <1>1, <1>10 DEF Pick, server, store
<1>11. CASE UNCHANGED vars
  BY <1>1, <1>11 DEF vars
<1> QED BY <1>3, <1>4, <1>5, <1>6, <1>7, <1>8, <1>9, <1>10, <1>11 DEF Next

\* While every answer arrived, the service was started once and no desktop
\* process wrote in the scope of a form, the number the listener gives the
\* next plain form is above the adapter's, and new to the store: no plain form
\* is refused for its number, whatever enhanced requests came in between.
THEOREM CalmServiceStaysAvailable == Spec => []PlainPostsAvailableIfCalm
<1>1. Init => (calm => Ahead)
  BY DEF Init, Ahead
<1>2. IInv /\ (calm => Ahead) /\ [Next]_vars => (calm => Ahead)'
  BY NextAhead
<1>3. IInv /\ (calm => Ahead) => PlainPostsAvailableIfCalm
  BY DEF IInv, TypeOK, Ahead, PlainPostsAvailableIfCalm, PlainPostsRemainAvailable,
         Unseen, Versions
<1> QED BY <1>1, <1>2, <1>3, SpecIInv, PTL DEF Spec
-----------------------------------------------------------------------------
(* Columns in the order of their positions. *)

\* s lists the entries of S in the order of their positions.
Sorts(s, S) ==
  /\ s \in Seq(S) /\ Len(s) \in Nat /\ DOMAIN s = 1 .. Len(s)
  /\ \A i, j \in 1 .. Len(s) : i < j => s[i].pos < s[j].pos
  /\ \A e \in S : \E i \in 1 .. Len(s) : s[i] = e

Below(S, e) == {d \in S : d.pos < e.pos}

LEMMA InOrderIs ==
  ASSUME NEW S
  PROVE  InOrder(S) = [n \in 1 .. Cardinality(S) |->
                         CHOOSE e \in S : Cardinality(Below(S, e)) = n - 1]
BY DEF InOrder, Below

\* An ascending listing of S is the only one: the entry at place i has exactly
\* i - 1 entries below it.
LEMMA SortedIsInOrder ==
  ASSUME NEW S, \A e \in S : e.pos \in Nat, NEW s, Sorts(s, S)
  PROVE  /\ IsFiniteSet(S) /\ Cardinality(S) = Len(s)
         /\ s = InOrder(S)
<1> DEFINE n == Len(s)
<1>1. n \in Nat /\ DOMAIN s = 1 .. n /\ s \in Seq(S)
  BY DEF Sorts
<1>2. \A i \in 1 .. n : s[i] \in S
  BY <1>1, ElementOfSeq
<1>3. \A i, j \in 1 .. n : i < j => s[i].pos < s[j].pos
  BY DEF Sorts
<1>4. \A e \in S : \E i \in 1 .. n : s[i] = e
  BY DEF Sorts
<1>5. \A i, j \in 1 .. n : s[i] = s[j] => i = j
  <2> SUFFICES ASSUME NEW i \in 1 .. n, NEW j \in 1 .. n, s[i] = s[j] PROVE i = j
    OBVIOUS
  <2>1. s[i].pos \in Nat
    BY <1>2
  <2>2. ~(i < j) /\ ~(j < i)
    BY <1>3, <2>1
  <2> QED BY <1>1, <2>2
<1>6. s \in [1 .. n -> S]
  BY <1>1, LenProperties
<1> HIDE DEF n
<1>7. s \in Bijection(1 .. n, S)
  BY <1>4, <1>5, <1>6 DEF Bijection, Injection, Surjection, IsInjective
<1>8. IsFiniteSet(S) /\ Cardinality(S) = n
  <2>1. ExistsBijection(1 .. n, S)
    BY <1>7 DEF ExistsBijection
  <2> QED BY <1>1, <2>1, FS_CountingElements, FS_NatBijection
<1>9. ASSUME NEW i \in 1 .. n
      PROVE  Cardinality(Below(S, s[i])) = i - 1
  <2> DEFINE f == [j \in 1 .. i - 1 |-> s[j]]
             T == Below(S, s[i])
  <2>1. i \in Nat /\ i - 1 \in Nat /\ \A j \in 1 .. i - 1 : j \in 1 .. n /\ j < i
    BY <1>1
  <2>2. \A j \in 1 .. i - 1 : s[j] \in T
    BY <1>2, <1>3, <2>1 DEF Below
  <2>3. ASSUME NEW e \in T PROVE \E j \in 1 .. i - 1 : s[j] = e
    <3>1. e \in S /\ e.pos < s[i].pos
      BY DEF Below
    <3>2. PICK j \in 1 .. n : s[j] = e
      BY <1>4, <3>1
    <3>3. e.pos \in Nat /\ s[i].pos \in Nat
      BY <1>2, <3>1
    <3>4. j # i /\ ~(i < j)
      BY <1>3, <3>1, <3>2, <3>3
    <3> QED BY <1>1, <2>1, <3>2, <3>4
  <2>4. \A j, m \in 1 .. i - 1 : s[j] = s[m] => j = m
    BY <1>5, <2>1
  <2> HIDE DEF T
  <2>5. f \in Bijection(1 .. i - 1, T)
    BY <2>2, <2>3, <2>4 DEF Bijection, Injection, Surjection, IsInjective
  <2> HIDE DEF f
  <2>6. ExistsBijection(1 .. i - 1, T)
    BY <2>5 DEF ExistsBijection
  <2>7. Cardinality(T) = i - 1
    BY <2>1, <2>6, FS_CountingElements
  <2> QED BY <2>7 DEF T
<1>10. ASSUME NEW i \in 1 .. n
       PROVE  s[i] = CHOOSE e \in S : Cardinality(Below(S, e)) = i - 1
  <2>1. s[i] \in S /\ Cardinality(Below(S, s[i])) = i - 1
    BY <1>2, <1>9
  <2>2. ASSUME NEW e \in S, Cardinality(Below(S, e)) = i - 1 PROVE e = s[i]
    <3>1. PICK j \in 1 .. n : s[j] = e
      BY <1>4
    <3>2. j - 1 = i - 1
      BY <1>9, <2>2, <3>1
    <3> QED BY <1>1, <3>1, <3>2
  <2> QED BY <2>1, <2>2
<1>11. s = [i \in 1 .. n |-> CHOOSE e \in S : Cardinality(Below(S, e)) = i - 1]
  BY <1>6, <1>10
<1> QED BY <1>8, <1>11, InOrderIs DEF n

\* A finite set of entries with distinct positions is listed by InOrder.
LEMMA InOrderSorts ==
  ASSUME NEW S, IsFiniteSet(S), \A e \in S : e.pos \in Nat,
         \A d, e \in S : d.pos = e.pos => d = e
  PROVE  Sorts(InOrder(S), S) /\ Len(InOrder(S)) = Cardinality(S)
<1> DEFINE n == Cardinality(S)
           Rank(e) == Cardinality(Below(S, e))
           f == [e \in S |-> Rank(e) + 1]
<1>1. n \in Nat
  BY FS_CardinalityType
<1>2. ASSUME NEW e \in S
      PROVE  IsFiniteSet(Below(S, e)) /\ Rank(e) \in Nat /\ Rank(e) + 1 \in 1 .. n
  <2>1. Below(S, e) \in SUBSET (S \ {e})
    BY DEF Below
  <2>2. IsFiniteSet(S \ {e}) /\ Cardinality(S \ {e}) = n - 1
    BY FS_RemoveElement
  <2>3. IsFiniteSet(Below(S, e)) /\ Rank(e) <= n - 1
    BY <2>1, <2>2, FS_Subset
  <2>4. Rank(e) \in Nat
    BY <2>3, FS_CardinalityType
  <2> QED BY <1>1, <2>3, <2>4
<1>3. ASSUME NEW d \in S, NEW e \in S, d.pos < e.pos PROVE Rank(d) < Rank(e)
  <2>1. Below(S, d) \cup {d} \in SUBSET Below(S, e) /\ d \notin Below(S, d)
    BY <1>3 DEF Below
  <2>2. Cardinality(Below(S, d) \cup {d}) = Rank(d) + 1
    BY <1>2, <2>1, FS_AddElement
  <2>3. Rank(d) + 1 <= Rank(e)
    BY <1>2, <2>1, <2>2, FS_Subset
  <2>4. Rank(d) \in Nat /\ Rank(e) \in Nat
    BY <1>2
  <2> HIDE DEF Rank
  <2> QED BY <2>3, <2>4
<1>4. ASSUME NEW d \in S, NEW e \in S, Rank(d) = Rank(e) PROVE d = e
  <2>1. ~(d.pos < e.pos) /\ ~(e.pos < d.pos)
    BY <1>2, <1>3, <1>4
  <2> QED BY <2>1
<1>5. f \in Injection(S, 1 .. n)
  <2>1. \A e \in S : Rank(e) + 1 \in 1 .. n /\ Rank(e) \in Nat
    BY <1>2
  <2> HIDE DEF Rank
  <2>2. \A d, e \in S : Rank(d) + 1 = Rank(e) + 1 => d = e
    BY <1>4, <2>1
  <2> QED BY <2>1, <2>2 DEF Injection, IsInjective
<1>6. f \in Surjection(S, 1 .. n)
  <2>1. IsFiniteSet(1 .. n) /\ Cardinality(1 .. n) = n
    BY <1>1, FS_Interval
  <2> HIDE DEF f, n
  <2> QED BY <1>5, <2>1, FS_Injection DEF n
<1>7. ASSUME NEW i \in 1 .. n PROVE \E e \in S : Rank(e) = i - 1
  <2>1. PICK e \in S : f[e] = i
    BY <1>6 DEF Surjection
  <2>2. Rank(e) + 1 = i /\ Rank(e) \in Nat
    BY <1>2, <2>1
  <2> HIDE DEF Rank
  <2> QED BY <2>2
<1> DEFINE s == [i \in 1 .. n |-> CHOOSE e \in S : Rank(e) = i - 1]
<1>8. InOrder(S) = s
  BY InOrderIs
<1>9. \A i \in 1 .. n : s[i] \in S /\ Rank(s[i]) = i - 1
  BY <1>7
<1>10. s \in Seq(S) /\ Len(s) = n /\ DOMAIN s = 1 .. n
  <2>1. s \in [1 .. n -> S]
    BY <1>7
  <2> HIDE DEF s
  <2> QED BY <1>1, <2>1
<1> HIDE DEF s
<1>11. ASSUME NEW i \in 1 .. n, NEW j \in 1 .. n, i < j PROVE s[i].pos < s[j].pos
  <2>1. s[i] \in S /\ s[j] \in S /\ Rank(s[i]) = i - 1 /\ Rank(s[j]) = j - 1
    BY <1>9
  <2>2. s[i] # s[j]
    BY <1>11, <2>1
  <2>3. ~(s[j].pos < s[i].pos)
    BY <1>3, <1>11, <2>1
  <2>4. s[i].pos \in Nat /\ s[j].pos \in Nat /\ s[i].pos # s[j].pos
    BY <2>1, <2>2
  <2> QED BY <2>3, <2>4
<1>12. ASSUME NEW e \in S PROVE \E i \in 1 .. n : s[i] = e
  <2>1. Rank(e) + 1 \in 1 .. n /\ Rank(e) \in Nat
    BY <1>2
  <2> HIDE DEF Rank
  <2>2. s[Rank(e) + 1] \in S /\ Rank(s[Rank(e) + 1]) = Rank(e) + 1 - 1
    BY <1>9, <2>1
  <2> QED BY <1>4, <2>1, <2>2
<1> QED BY <1>1, <1>8, <1>10, <1>11, <1>12 DEF Sorts
-----------------------------------------------------------------------------
(* Rows, and the columns read from them. *)

RowsTyped(rows) == rows \in [Cards -> Rows \cup {NoRow, Gone}]

\* UNIQUE(list_id, swimlane_id, position).
RowsDistinct(rows) ==
  \A c, d \in Cards :
    /\ Stored(rows[c]) /\ Stored(rows[d])
    /\ rows[c].column = rows[d].column /\ rows[c].pos = rows[d].pos
    => c = d

EntriesIn(rows, k) == {Entry(rows, c) : c \in CardsIn(rows, k)}

LEMMA StoredRow ==
  ASSUME NEW rows, RowsTyped(rows), NEW c \in Cards, Stored(rows[c])
  PROVE  /\ rows[c] \in Rows
         /\ rows[c].pos \in Nat /\ rows[c].column \in Columns
         /\ rows[c].archived \in BOOLEAN /\ rows[c].version \in 1 .. MutateMax + 1
         /\ Entry(rows, c) \in Entries
         /\ Entry(rows, c).card = c /\ Entry(rows, c).pos = rows[c].pos
         /\ Entry(rows, c).archived = rows[c].archived
<1>1. rows[c] \in Rows
  BY DEF RowsTyped, Stored, NoRow, Gone
<1> QED BY <1>1 DEF Rows, Entry, Entries

LEMMA RowIsStored ==
  ASSUME NEW r \in Rows PROVE Stored(r)
BY NativeCardsAssumption DEF Rows, Stored

\* A column as it is read: its cards with ascending positions.
LEMMA ColumnRead ==
  ASSUME NEW rows, RowsTyped(rows), RowsDistinct(rows), NEW k
  PROVE  /\ Sorts(ColumnOf(rows, k), EntriesIn(rows, k))
         /\ \A e \in EntriesIn(rows, k) : e \in Entries /\ e.pos \in Nat
         /\ IsFiniteSet(EntriesIn(rows, k))
         /\ ColumnOf(rows, k) \in Seq(Entries)
<1> DEFINE S == EntriesIn(rows, k)
           C == CardsIn(rows, k)
           f == [c \in C |-> Entry(rows, c)]
<1>1. \A c \in C : /\ c \in Cards /\ Stored(rows[c]) /\ rows[c].column = k
                   /\ Entry(rows, c) \in Entries /\ rows[c].pos \in Nat
                   /\ Entry(rows, c).pos = rows[c].pos
  BY StoredRow DEF CardsIn
<1>2. IsFiniteSet(C)
  BY NativeCardsAssumption, FS_Subset DEF CardsIn
<1>3. f \in Surjection(C, S)
  BY DEF Surjection, EntriesIn
<1>4. IsFiniteSet(S)
  <2> HIDE DEF f, S, C
  <2> QED BY <1>2, <1>3, FS_Surjection
<1>5. \A e \in S : e \in Entries /\ e.pos \in Nat
  BY <1>1 DEF EntriesIn
<1>6. \A d, e \in S : d.pos = e.pos => d = e
  BY <1>1 DEF EntriesIn, RowsDistinct
<1>7. Sorts(InOrder(S), S)
  <2> HIDE DEF S
  <2> QED BY <1>4, <1>5, <1>6, InOrderSorts
<1>8. ColumnOf(rows, k) = InOrder(S)
  BY DEF ColumnOf, EntriesIn
<1>9. ColumnOf(rows, k) \in Seq(Entries)
  <2> HIDE DEF S
  <2>1. S \subseteq Entries
    BY <1>5
  <2> QED BY <1>7, <1>8, <2>1, SeqMonotonic DEF Sorts
<1> QED BY <1>4, <1>5, <1>7, <1>8, <1>9

\* What lists a column with ascending positions is what loading it shows.
LEMMA ColumnIs ==
  ASSUME NEW rows, RowsTyped(rows), NEW k, NEW s, Sorts(s, EntriesIn(rows, k))
  PROVE  s = ColumnOf(rows, k)
<1>1. \A e \in EntriesIn(rows, k) : e.pos \in Nat
  BY StoredRow DEF EntriesIn, CardsIn
<1>2. s = InOrder(EntriesIn(rows, k))
  BY <1>1, SortedIsInOrder
<1> QED BY <1>2 DEF ColumnOf, EntriesIn

\* The places of a column that was read, by its cards.
LEMMA ColumnPlaces ==
  ASSUME NEW rows, RowsTyped(rows), RowsDistinct(rows), NEW k,
         NEW s, s = ColumnOf(rows, k)
  PROVE  /\ s \in Seq(Entries) /\ Len(s) \in Nat /\ DOMAIN s = 1 .. Len(s)
         /\ \A i \in 1 .. Len(s) :
              s[i].card \in CardsIn(rows, k) /\ s[i] = Entry(rows, s[i].card)
         /\ \A i, j \in 1 .. Len(s) : s[i].card = s[j].card => i = j
         /\ \A c \in CardsIn(rows, k) : \E i \in 1 .. Len(s) : s[i].card = c
         /\ \A i, j \in 1 .. Len(s) : i < j => s[i].pos < s[j].pos
<1>1. Sorts(s, EntriesIn(rows, k)) /\ s \in Seq(Entries)
  BY ColumnRead
<1>2. /\ s \in Seq(EntriesIn(rows, k)) /\ Len(s) \in Nat /\ DOMAIN s = 1 .. Len(s)
      /\ \A i, j \in 1 .. Len(s) : i < j => s[i].pos < s[j].pos
      /\ \A e \in EntriesIn(rows, k) : \E i \in 1 .. Len(s) : s[i] = e
  BY <1>1 DEF Sorts
<1>3. \A i \in 1 .. Len(s) : s[i] \in EntriesIn(rows, k)
  BY <1>2, ElementOfSeq
<1>4. \A c \in CardsIn(rows, k) :
        /\ Entry(rows, c) \in EntriesIn(rows, k) /\ Entry(rows, c).card = c
        /\ Entry(rows, c).pos \in Nat
  BY StoredRow DEF EntriesIn, CardsIn
<1>5. \A i \in 1 .. Len(s) :
        s[i].card \in CardsIn(rows, k) /\ s[i] = Entry(rows, s[i].card)
  BY <1>3, <1>4 DEF EntriesIn
<1>6. ASSUME NEW i \in 1 .. Len(s), NEW j \in 1 .. Len(s), s[i].card = s[j].card
      PROVE  i = j
  <2>1. s[i].pos = s[j].pos /\ s[i].pos \in Nat
    BY <1>4, <1>5, <1>6
  <2>2. ~(i < j) /\ ~(j < i)
    BY <1>2, <2>1
  <2> QED BY <1>2, <2>2
<1>7. \A c \in CardsIn(rows, k) : \E i \in 1 .. Len(s) : s[i].card = c
  BY <1>2, <1>4
<1> QED BY <1>1, <1>2, <1>5, <1>6, <1>7

\* max(position) + 1 is above every position of the column, archived ones too.
LEMMA NextIsFree ==
  ASSUME NEW rows, RowsTyped(rows), RowsDistinct(rows), NEW k
  PROVE  /\ NextPosition(rows, k) \in Nat
         /\ \A c \in CardsIn(rows, k) : rows[c].pos < NextPosition(rows, k)
<1>1. CASE CardsIn(rows, k) = {}
  BY <1>1 DEF NextPosition
<1>2. CASE CardsIn(rows, k) # {}
  <2> DEFINE s == ColumnOf(rows, k)
             P == {rows[c].pos : c \in CardsIn(rows, k)}
  <2>1. /\ Len(s) \in Nat
        /\ \A i \in 1 .. Len(s) :
             s[i].card \in CardsIn(rows, k) /\ s[i] = Entry(rows, s[i].card)
        /\ \A c \in CardsIn(rows, k) : \E i \in 1 .. Len(s) : s[i].card = c
        /\ \A i, j \in 1 .. Len(s) : i < j => s[i].pos < s[j].pos
    BY ColumnPlaces
  <2>2. \A c \in CardsIn(rows, k) :
          rows[c].pos \in Nat /\ Entry(rows, c).pos = rows[c].pos
    BY StoredRow DEF CardsIn
  <2> DEFINE n == Len(s)
             m == s[n].pos
  <2>3. n \in 1 .. Len(s)
    BY <1>2, <2>1
  <2>4. m \in P /\ m \in Nat
    BY <2>1, <2>2, <2>3
  <2>5. ASSUME NEW c \in CardsIn(rows, k) PROVE m >= rows[c].pos
    <3>1. PICK i \in 1 .. n : s[i].card = c
      BY <2>1
    <3>2. s[i].pos = rows[c].pos /\ rows[c].pos \in Nat
      BY <2>1, <2>2, <3>1
    <3>3. i = n \/ i < n
      BY <2>1
    <3>4. i = n \/ s[i].pos < s[n].pos
      BY <2>1, <2>3, <3>3
    <3> HIDE DEF s
    <3> QED BY <2>4, <3>2, <3>4
  <2> HIDE DEF s, m
  <2>6. Max(P) \in P /\ \A x \in P : Max(P) >= x
    <3>1. \A x \in P : m >= x
      BY <2>5
    <3> QED BY <2>4, <3>1 DEF Max
  <2>7. Max(P) \in Nat
    BY <2>2, <2>6
  <2>8. NextPosition(rows, k) = Max(P) + 1
    BY <1>2 DEF NextPosition
  <2>9. \A c \in CardsIn(rows, k) : Max(P) >= rows[c].pos
    BY <2>6
  <2> HIDE DEF P
  <2> QED BY <2>2, <2>7, <2>8, <2>9
<1> QED BY <1>1, <1>2
-----------------------------------------------------------------------------
(* Sequences with one element taken out or put in. *)

\* s has n elements, all of them in S.
Listed(s, S, n) ==
  s \in Seq(S) /\ n \in Nat /\ Len(s) = n /\ DOMAIN s = 1 .. n
  /\ \A i \in 1 .. n : s[i] \in S

LEMMA SeqIsListed ==
  ASSUME NEW S, NEW s \in Seq(S) PROVE Listed(s, S, Len(s))
<1>1. Len(s) \in Nat /\ DOMAIN s = 1 .. Len(s)
  BY LenProperties
<1>2. \A i \in 1 .. Len(s) : s[i] \in S
  BY ElementOfSeq
<1> QED BY <1>1, <1>2 DEF Listed

\* What RemoveAt gives, place by place.
LEMMA RemoveAtIs ==
  ASSUME NEW S, NEW s \in Seq(S), NEW n, n = Len(s), NEW i \in 1 .. n
  PROVE  /\ Listed(RemoveAt(s, i), S, n - 1)
         /\ \A j \in 1 .. n - 1 :
              RemoveAt(s, i)[j] = IF j < i THEN s[j] ELSE s[j + 1]
<1> DEFINE a == SubSeq(s, 1, i - 1)
           b == SubSeq(s, i + 1, n)
<1>1. n \in Nat /\ i \in Nat /\ 1 <= i /\ i <= n
  BY LenProperties
<1>2. \A j \in 1 .. n : s[j] \in S
  BY ElementOfSeq
<1>3. /\ a \in Seq(S) /\ Len(a) = i - 1
      /\ \A j \in 1 .. i - 1 : a[j] = s[j]
  <2>1. \A j \in 1 .. i - 1 : s[j] \in S
    BY <1>1, <1>2
  <2>2. 1 \in Int /\ i - 1 \in Int
    BY <1>1
  <2>3. /\ a \in Seq(S) /\ Len(a) = IF 1 <= i - 1 THEN (i - 1) - 1 + 1 ELSE 0
        /\ \A j \in 1 .. (i - 1) - 1 + 1 : a[j] = s[1 + j - 1]
    BY <2>1, <2>2, SubSeqProperties
  <2> HIDE DEF a
  <2> QED BY <1>1, <2>3
<1>4. /\ b \in Seq(S) /\ Len(b) = n - i
      /\ \A j \in 1 .. n - i : b[j] = s[i + j]
  <2>1. \A j \in i + 1 .. n : s[j] \in S
    BY <1>1, <1>2
  <2>2. i + 1 \in Int /\ n \in Int
    BY <1>1
  <2>3. /\ b \in Seq(S) /\ Len(b) = IF i + 1 <= n THEN n - (i + 1) + 1 ELSE 0
        /\ \A j \in 1 .. n - (i + 1) + 1 : b[j] = s[(i + 1) + j - 1]
    BY <2>1, <2>2, SubSeqProperties
  <2> HIDE DEF b
  <2> QED BY <1>1, <2>3
<1>5. RemoveAt(s, i) = a \o b
  BY DEF RemoveAt
<1> HIDE DEF a, b
<1>6. /\ a \o b \in Seq(S) /\ Len(a \o b) = Len(a) + Len(b)
      /\ \A j \in 1 .. Len(a) + Len(b) :
           (a \o b)[j] = IF j <= Len(a) THEN a[j] ELSE b[j - Len(a)]
  BY <1>3, <1>4, ConcatProperties
<1>7. Listed(a \o b, S, n - 1)
  <2>1. Len(a \o b) = n - 1 /\ n - 1 \in Nat
    BY <1>1, <1>3, <1>4, <1>6
  <2> QED BY <1>6, <2>1, SeqIsListed
<1>8. ASSUME NEW j \in 1 .. n - 1
      PROVE  (a \o b)[j] = IF j < i THEN s[j] ELSE s[j + 1]
  <2>1. j \in Nat /\ 1 <= j /\ j <= n - 1
    OBVIOUS
  <2>2. j \in 1 .. Len(a) + Len(b)
    BY <1>1, <1>3, <1>4
  <2>3. CASE j < i
    <3>1. j <= Len(a) /\ j \in 1 .. i - 1
      BY <1>1, <1>3, <2>1, <2>3
    <3> QED BY <1>3, <1>6, <2>2, <2>3, <3>1
  <2>4. CASE ~(j < i)
    <3>1. ~(j <= Len(a)) /\ j - Len(a) \in 1 .. n - i /\ i + (j - Len(a)) = j + 1
      BY <1>1, <1>3, <2>1, <2>4
    <3> QED BY <1>4, <1>6, <2>2, <2>4, <3>1
  <2> QED BY <2>3, <2>4
<1> QED BY <1>5, <1>7, <1>8

\* What InsertAt gives, place by place.
LEMMA InsertAtIs ==
  ASSUME NEW S, NEW s \in Seq(S), NEW n, n = Len(s), NEW i \in 1 .. n + 1,
         NEW e \in S
  PROVE  /\ Listed(InsertAt(s, i, e), S, n + 1)
         /\ \A j \in 1 .. n + 1 :
              InsertAt(s, i, e)[j] = IF j < i THEN s[j]
                                     ELSE IF j = i THEN e ELSE s[j - 1]
<1> DEFINE a == SubSeq(s, 1, i - 1)
           b == SubSeq(s, i, n)
           c == a \o <<e>>
<1>1. n \in Nat /\ i \in Nat /\ 1 <= i /\ i <= n + 1
  BY LenProperties
<1>2. \A j \in 1 .. n : s[j] \in S
  BY ElementOfSeq
<1>3. /\ a \in Seq(S) /\ Len(a) = i - 1
      /\ \A j \in 1 .. i - 1 : a[j] = s[j]
  <2>1. \A j \in 1 .. i - 1 : s[j] \in S
    BY <1>1, <1>2
  <2>2. 1 \in Int /\ i - 1 \in Int
    BY <1>1
  <2>3. /\ a \in Seq(S) /\ Len(a) = IF 1 <= i - 1 THEN (i - 1) - 1 + 1 ELSE 0
        /\ \A j \in 1 .. (i - 1) - 1 + 1 : a[j] = s[1 + j - 1]
    BY <2>1, <2>2, SubSeqProperties
  <2> HIDE DEF a
  <2> QED BY <1>1, <2>3
<1>4. /\ b \in Seq(S) /\ Len(b) = n - i + 1
      /\ \A j \in 1 .. n - i + 1 : b[j] = s[i + j - 1]
  <2>1. \A j \in i .. n : s[j] \in S
    BY <1>1, <1>2
  <2>2. i \in Int /\ n \in Int
    BY <1>1
  <2>3. /\ b \in Seq(S) /\ Len(b) = IF i <= n THEN n - i + 1 ELSE 0
        /\ \A j \in 1 .. n - i + 1 : b[j] = s[i + j - 1]
    BY <2>1, <2>2, SubSeqProperties
  <2> HIDE DEF b
  <2> QED BY <1>1, <2>3
<1>5. InsertAt(s, i, e) = c \o b
  BY DEF InsertAt
<1>6. <<e>> \in Seq(S) /\ Len(<<e>>) = 1 /\ <<e>>[1] = e
  OBVIOUS
<1> HIDE DEF a, b
<1>7. /\ c \in Seq(S) /\ Len(c) = i
      /\ \A j \in 1 .. i : c[j] = IF j < i THEN s[j] ELSE e
  <2>1. /\ c \in Seq(S) /\ Len(c) = Len(a) + Len(<<e>>)
        /\ \A j \in 1 .. Len(a) + Len(<<e>>) :
             c[j] = IF j <= Len(a) THEN a[j] ELSE <<e>>[j - Len(a)]
    BY <1>3, <1>6, ConcatProperties
  <2>2. Len(a) + Len(<<e>>) = i /\ Len(a) = i - 1
    BY <1>1, <1>3, <1>6
  <2>3. ASSUME NEW j \in 1 .. i PROVE c[j] = IF j < i THEN s[j] ELSE e
    <3>1. CASE j < i
      <4>1. j \in 1 .. i - 1 /\ j <= i - 1
        BY <1>1, <3>1
      <4> QED BY <1>3, <2>1, <2>2, <3>1, <4>1
    <3>2. CASE ~(j < i)
      <4>1. ~(j <= i - 1) /\ j - (i - 1) = 1
        BY <1>1, <3>2
      <4> QED BY <1>6, <2>1, <2>2, <3>2, <4>1
    <3> QED BY <3>1, <3>2
  <2> QED BY <2>1, <2>2, <2>3
<1> HIDE DEF c
<1>8. /\ c \o b \in Seq(S) /\ Len(c \o b) = Len(c) + Len(b)
      /\ \A j \in 1 .. Len(c) + Len(b) :
           (c \o b)[j] = IF j <= Len(c) THEN c[j] ELSE b[j - Len(c)]
  BY <1>4, <1>7, ConcatProperties
<1>9. Len(c) + Len(b) = n + 1 /\ n + 1 \in Nat /\ Len(c) = i
  BY <1>1, <1>4, <1>7
<1>10. Listed(c \o b, S, n + 1)
  BY <1>8, <1>9, SeqIsListed
<1>11. ASSUME NEW j \in 1 .. n + 1
       PROVE  (c \o b)[j] = IF j < i THEN s[j] ELSE IF j = i THEN e ELSE s[j - 1]
  <2>1. (c \o b)[j] = IF j <= i THEN c[j] ELSE b[j - i]
    BY <1>8, <1>9
  <2>2. CASE j <= i
    <3>1. j \in 1 .. i
      BY <1>1, <2>2
    <3>2. ~(j < i) => j = i
      BY <1>1, <2>2
    <3> QED BY <1>7, <2>1, <2>2, <3>1, <3>2
  <2>3. CASE ~(j <= i)
    <3>1. j - i \in 1 .. n - i + 1 /\ i + (j - i) - 1 = j - 1 /\ ~(j < i) /\ j # i
      BY <1>1, <2>3
    <3>2. b[j - i] = s[i + (j - i) - 1]
      BY <1>4, <3>1
    <3> QED BY <2>1, <2>3, <3>1, <3>2
  <2> QED BY <2>2, <2>3
<1> QED BY <1>5, <1>10, <1>11

\* No card stands twice in s.
OneEach(s) == \A i, j \in DOMAIN s : s[i].card = s[j].card => i = j

LEMMA WithoutTyped ==
  ASSUME NEW s \in Seq(Entries), NEW c PROVE Without(s, c) \in Seq(Entries)
<1>1. CASE \A i \in DOMAIN s : s[i].card # c
  BY <1>1 DEF Without
<1>2. CASE \E i \in DOMAIN s : s[i].card = c
  <2>1. PlaceIn(s, c) \in 1 .. Len(s)
    BY <1>2, LenProperties DEF PlaceIn
  <2>2. RemoveAt(s, PlaceIn(s, c)) \in Seq(Entries)
    BY <2>1, RemoveAtIs DEF Listed
  <2> QED BY <1>2, <2>2 DEF Without
<1> QED BY <1>1, <1>2

\* u lists what s lists without card c.
TakenOut(u, s, c) ==
  /\ \A j \in 1 .. Len(u) :
       u[j].card # c /\ \E i \in 1 .. Len(s) : u[j] = s[i]
  /\ \A i \in 1 .. Len(s) :
       s[i].card # c => \E j \in 1 .. Len(u) : u[j] = s[i]

\* Taking a card away leaves the others, in their order.
LEMMA WithoutIs ==
  ASSUME NEW s \in Seq(Entries), OneEach(s), NEW c
  PROVE  /\ OneEach(Without(s, c)) /\ TakenOut(Without(s, c), s, c)
         /\ Ascending(s) => Ascending(Without(s, c))
<1> DEFINE n == Len(s)
<1>1. n \in Nat /\ DOMAIN s = 1 .. n /\ Listed(s, Entries, n)
  BY SeqIsListed, LenProperties
<1>2. CASE \A i \in DOMAIN s : s[i].card # c
  <2>1. Without(s, c) = s
    BY <1>2 DEF Without
  <2> QED BY <1>1, <1>2, <2>1 DEF TakenOut
<1>3. CASE \E i \in DOMAIN s : s[i].card = c
  <2> DEFINE p == PlaceIn(s, c)
             r == RemoveAt(s, p)
  <2>1. p \in 1 .. n /\ s[p].card = c
    BY <1>1, <1>3 DEF PlaceIn
  <2>2. Without(s, c) = r
    BY <1>3 DEF Without
  <2> HIDE DEF p
  <2>3. /\ Listed(r, Entries, n - 1)
        /\ \A j \in 1 .. n - 1 : r[j] = IF j < p THEN s[j] ELSE s[j + 1]
    BY <2>1, RemoveAtIs
  <2> HIDE DEF r
  <2>4. r \in Seq(Entries) /\ DOMAIN r = 1 .. n - 1 /\ n - 1 \in Nat
    BY <2>3 DEF Listed
  <2> HIDE DEF n
  <2> DEFINE h(j) == IF j < p THEN j ELSE j + 1
  <2>5. \A j \in 1 .. n - 1 : h(j) \in 1 .. n /\ r[j] = s[h(j)] /\ h(j) # p
    BY <1>1, <2>1, <2>3
  <2>6. \A i, j \in 1 .. n - 1 : (i < j => h(i) < h(j)) /\ (h(i) = h(j) => i = j)
    BY <1>1, <2>1
  <2>7. ASSUME NEW i \in 1 .. n, s[i].card # c
        PROVE  \E j \in 1 .. n - 1 : h(j) = i
    <3>1. i # p
      BY <2>1, <2>7
    <3>2. IF i < p THEN i \in 1 .. n - 1 /\ h(i) = i
                   ELSE i - 1 \in 1 .. n - 1 /\ h(i - 1) = i
      BY <1>1, <2>1, <3>1
    <3> QED BY <3>2
  <2> HIDE DEF h
  <2>8. OneEach(r) /\ \A j \in 1 .. n - 1 : r[j].card # c
    <3>1. \A i, j \in 1 .. n : s[i].card = s[j].card => i = j
      BY <1>1 DEF OneEach
    <3>2. \A j \in 1 .. n - 1 : r[j].card # c
      BY <2>1, <2>5, <3>1
    <3>3. \A i, j \in 1 .. n - 1 : r[i].card = r[j].card => i = j
      BY <2>5, <2>6, <3>1
    <3> QED BY <2>4, <3>2, <3>3 DEF OneEach
  <2>9. \A j \in 1 .. n - 1 : \E i \in 1 .. n : r[j] = s[i]
    BY <1>1, <2>5
  <2>12. Len(r) = n - 1
    BY <2>3 DEF Listed
  <2>10. \A i \in 1 .. n : s[i].card # c => \E j \in 1 .. n - 1 : r[j] = s[i]
    BY <1>1, <2>5, <2>7
  <2>11. Ascending(s) => Ascending(r)
    BY <1>1, <2>4, <2>5, <2>6 DEF Ascending
  <2> QED BY <2>2, <2>4, <2>8, <2>9, <2>10, <2>11, <2>12 DEF n, TakenOut
<1> QED BY <1>2, <1>3
-----------------------------------------------------------------------------
(* What the operations make of the rows. *)

\* Rows with the same cards at the same places.
SamePlaces(new, old) ==
  \A c \in Cards :
    /\ Stored(new[c]) <=> Stored(old[c])
    /\ Stored(old[c]) => new[c].column = old[c].column /\ new[c].pos = old[c].pos

LEMMA SamePlacesKeep ==
  ASSUME NEW old, NEW new, SamePlaces(new, old)
  PROVE  /\ RowsDistinct(old) => RowsDistinct(new)
         /\ \A k : CardsIn(new, k) = CardsIn(old, k)
BY DEF SamePlaces, RowsDistinct, CardsIn

\* Versions go up, the cards stay where they are.
LEMMA AdvancedIs ==
  ASSUME NEW rows, RowsTyped(rows), NEW S \in SUBSET Cards, NEW new,
         \A c \in S : Stored(rows[c]) /\ rows[c].version <= MutateMax,
         new = Advanced(rows, S)
  PROVE  /\ RowsTyped(new) /\ SamePlaces(new, rows)
         /\ \A c \in Cards : c \notin S => new[c] = rows[c]
         /\ \A c \in S : /\ new[c].archived = rows[c].archived
                         /\ new[c].version = rows[c].version + 1
         /\ \A c \in Cards : Stored(rows[c]) => Entry(new, c) = Entry(rows, c)
         /\ \A k : EntriesIn(new, k) = EntriesIn(rows, k)
<1>1. \A c \in Cards : c \notin S => new[c] = rows[c]
  BY DEF Advanced
<1>2. ASSUME NEW c \in S
      PROVE  /\ new[c] \in Rows /\ Stored(rows[c]) /\ c \in Cards
             /\ new[c].column = rows[c].column /\ new[c].pos = rows[c].pos
             /\ new[c].archived = rows[c].archived
             /\ new[c].version = rows[c].version + 1
  <2>1. c \in Cards /\ Stored(rows[c]) /\ rows[c].version <= MutateMax
    OBVIOUS
  <2>2. rows[c] \in Rows /\ rows[c].version \in 1 .. MutateMax + 1
    BY <2>1, StoredRow
  <2>3. new[c] = [rows[c] EXCEPT !.version = @ + 1]
    BY <2>1 DEF Advanced
  <2>4. rows[c].version + 1 \in 1 .. MutateMax + 1
    BY <2>1, <2>2, NativeCardsAssumption
  <2> QED BY <2>1, <2>2, <2>3, <2>4 DEF Rows
<1>3. RowsTyped(new)
  <2>1. \A c \in Cards : new[c] \in Rows \cup {NoRow, Gone}
    BY <1>1, <1>2 DEF RowsTyped
  <2>2. new = [c \in Cards |-> new[c]]
    BY DEF Advanced
  <2> QED BY <2>1, <2>2 DEF RowsTyped
<1>4. SamePlaces(new, rows)
  BY <1>1, <1>2, RowIsStored DEF SamePlaces
<1>5. \A c \in Cards : Stored(rows[c]) => Entry(new, c) = Entry(rows, c)
  BY <1>1, <1>2 DEF Entry
<1>6. \A k : EntriesIn(new, k) = EntriesIn(rows, k)
  <2>1. \A k : CardsIn(new, k) = CardsIn(rows, k)
    BY <1>4, SamePlacesKeep
  <2>2. \A k : \A c \in CardsIn(rows, k) : Entry(new, c) = Entry(rows, c)
    BY <1>5 DEF CardsIn
  <2> QED BY <2>1, <2>2 DEF EntriesIn
<1> QED BY <1>1, <1>2, <1>3, <1>4, <1>5, <1>6

LEMMA WrittenIs ==
  ASSUME NEW rows, RowsTyped(rows), NEW k \in Columns,
         NEW s, NEW n, Listed(s, Entries, n), OneEach(s),
         \A i \in 1 .. n : Stored(rows[s[i].card]),
         NEW new, new = Written(rows, k, s)
  PROVE  /\ RowsTyped(new)
         /\ \A i \in 1 .. n :
              LET c == s[i].card
              IN /\ c \in Cards /\ new[c] \in Rows /\ Stored(new[c])
                 /\ new[c].column = k /\ new[c].pos = i - 1
                 /\ new[c].archived = rows[c].archived
                 /\ new[c].version = rows[c].version
         /\ \A c \in Cards : (\A i \in 1 .. n : s[i].card # c)
                               => new[c] = rows[c]
<1>1. n \in Nat /\ DOMAIN s = 1 .. n /\ \A i \in 1 .. n : s[i].card \in Cards
  BY DEF Listed, Entries
<1> DEFINE At(c) == {i \in 1 .. n : s[i].card = c}
<1>2. new = [c \in Cards |->
               IF At(c) = {} THEN rows[c]
               ELSE [rows[c] EXCEPT !.column = k, !.pos = Min(At(c)) - 1]]
  BY <1>1 DEF Written
<1>3. ASSUME NEW i \in 1 .. n PROVE Min(At(s[i].card)) = i
  <2>1. At(s[i].card) = {i}
    BY <1>1 DEF OneEach
  <2>2. i <= i
    BY <1>1
  <2>3. Min({i}) = i
    BY <2>2 DEF Min
  <2> QED BY <2>1, <2>3
<1>4. ASSUME NEW i \in 1 .. n
      PROVE  LET c == s[i].card
             IN /\ c \in Cards /\ new[c] \in Rows /\ Stored(new[c])
                /\ new[c].column = k /\ new[c].pos = i - 1
                /\ new[c].archived = rows[c].archived
                /\ new[c].version = rows[c].version
  <2> DEFINE c == s[i].card
  <2>1. c \in Cards /\ At(c) # {}
    BY <1>1
  <2>2. new[c] = [rows[c] EXCEPT !.column = k, !.pos = i - 1]
    BY <1>2, <1>3, <2>1
  <2>3. rows[c] \in Rows /\ i - 1 \in Nat
    BY <1>1, <2>1, StoredRow
  <2> HIDE DEF c
  <2>4. /\ new[c] \in Rows /\ new[c].column = k /\ new[c].pos = i - 1
        /\ new[c].archived = rows[c].archived /\ new[c].version = rows[c].version
    BY <2>2, <2>3 DEF Rows
  <2> QED BY <2>1, <2>4, RowIsStored DEF c
<1>5. ASSUME NEW c \in Cards, \A i \in 1 .. n : s[i].card # c
      PROVE  new[c] = rows[c]
  <2>1. At(c) = {}
    BY <1>5
  <2> QED BY <1>2, <2>1
<1>6. RowsTyped(new)
  <2>1. ASSUME NEW c \in Cards PROVE new[c] \in Rows \cup {NoRow, Gone}
    <3>1. CASE \E i \in 1 .. n : s[i].card = c
      BY <1>4, <3>1
    <3>2. CASE \A i \in 1 .. n : s[i].card # c
      BY <1>5, <3>2 DEF RowsTyped
    <3> QED BY <3>1, <3>2
  <2>2. new = [c \in Cards |-> new[c]]
    BY DEF Written
  <2> QED BY <2>1, <2>2 DEF RowsTyped
<1> QED BY <1>4, <1>5, <1>6

\* s lists each card of column k once, and perhaps others that come to it; the
\* cards S among them get a new version.
Placeable(k, s, n, S) ==
  /\ k \in Columns /\ Listed(s, Entries, n) /\ OneEach(s)
  /\ \A i \in 1 .. n : Stored(row[s[i].card])
  /\ \A c \in CardsIn(row, k) : \E i \in 1 .. n : s[i].card = c
  /\ \A c \in S : /\ c \in Cards /\ row[c].version <= MutateMax
                  /\ \E i \in 1 .. n : s[i].card = c

\* What a column placed in the order of s is, and what becomes of the others.
LEMMA PlacedIs ==
  ASSUME RowsTyped(row), RowsDistinct(row), NEW k, NEW s, NEW n, NEW S,
         Placeable(k, s, n, S), NEW new, new = PlacedAs(k, s, S)
  PROVE  /\ RowsTyped(new) /\ RowsDistinct(new)
         /\ \A c \in Cards : (\A i \in 1 .. n : s[i].card # c)
                               => new[c] = row[c]
         /\ \A c \in Cards : /\ Stored(new[c]) <=> Stored(row[c])
                             /\ c \notin S => new[c].version = row[c].version
                             /\ c \in S => new[c].version = row[c].version + 1
         /\ \A i \in 1 .. n : Entry(new, s[i].card)
              = [card |-> s[i].card, pos |-> i - 1,
                 archived |-> row[s[i].card].archived]
         /\ CardsIn(new, k) = {s[i].card : i \in 1 .. n}
         /\ \A j : j # k => CardsIn(new, j)
                              = CardsIn(row, j) \ {s[i].card : i \in 1 .. n}
<1> DEFINE w == Written(row, k, s)
           In == {s[i].card : i \in 1 .. n}
<1> USE DEF Placeable
<1>1. /\ RowsTyped(w)
      /\ \A i \in 1 .. n :
           LET c == s[i].card
           IN /\ c \in Cards /\ w[c] \in Rows /\ Stored(w[c])
              /\ w[c].column = k /\ w[c].pos = i - 1
              /\ w[c].archived = row[c].archived /\ w[c].version = row[c].version
      /\ \A c \in Cards : (\A i \in 1 .. n : s[i].card # c) => w[c] = row[c]
  BY WrittenIs
<1>2. new = Advanced(w, S)
  BY DEF PlacedAs
<1> HIDE DEF w
<1>3. \A c \in S : Stored(w[c]) /\ w[c].version <= MutateMax
  BY <1>1
<1>4. /\ RowsTyped(new) /\ SamePlaces(new, w)
      /\ \A c \in Cards : c \notin S => new[c] = w[c]
      /\ \A c \in S : /\ new[c].archived = w[c].archived
                      /\ new[c].version = w[c].version + 1
      /\ \A c \in Cards : Stored(w[c]) => Entry(new, c) = Entry(w, c)
  <2>1. S \in SUBSET Cards
    OBVIOUS
  <2> QED BY <1>1, <1>2, <1>3, <2>1, AdvancedIs
<1>5. \A c \in Cards : (\A i \in 1 .. n : s[i].card # c) => new[c] = row[c]
  BY <1>1, <1>4
<1>6. ASSUME NEW i \in 1 .. n
      PROVE  /\ s[i].card \in Cards /\ Stored(new[s[i].card])
             /\ new[s[i].card].column = k /\ new[s[i].card].pos = i - 1
  BY <1>1, <1>4 DEF SamePlaces
<1>7. ASSUME NEW c \in Cards
      PROVE  /\ Stored(new[c]) <=> Stored(row[c])
             /\ c \notin S => new[c].version = row[c].version
             /\ c \in S => new[c].version = row[c].version + 1
  <2>1. CASE \A i \in 1 .. n : s[i].card # c
    BY <1>5, <2>1
  <2>2. CASE \E i \in 1 .. n : s[i].card = c
    BY <1>1, <1>4, <1>6, <2>2
  <2> QED BY <2>1, <2>2
<1>8. ASSUME NEW i \in 1 .. n
      PROVE  Entry(new, s[i].card) = [card |-> s[i].card, pos |-> i - 1,
                                      archived |-> row[s[i].card].archived]
  BY <1>1, <1>4 DEF Entry
<1>9. CardsIn(new, k) = In
  <2>1. ASSUME NEW c \in CardsIn(new, k) PROVE c \in In
    <3>1. c \in Cards /\ Stored(new[c]) /\ new[c].column = k
      BY DEF CardsIn
    <3>2. CASE \A i \in 1 .. n : s[i].card # c
      <4>1. new[c] = row[c]
        BY <1>5, <3>1, <3>2
      <4> QED BY <3>1, <3>2, <4>1 DEF CardsIn
    <3> QED BY <3>2
  <2>2. In \subseteq CardsIn(new, k)
    BY <1>6 DEF CardsIn
  <2> QED BY <2>1, <2>2
<1>10. ASSUME NEW j, j # k PROVE CardsIn(new, j) = CardsIn(row, j) \ In
  <2>1. ASSUME NEW c \in CardsIn(new, j) PROVE c \in CardsIn(row, j) \ In
    <3>1. c \in Cards /\ Stored(new[c]) /\ new[c].column = j
      BY DEF CardsIn
    <3>2. \A i \in 1 .. n : s[i].card # c
      BY <1>6, <1>10, <3>1
    <3> QED BY <1>5, <3>1, <3>2 DEF CardsIn
  <2>2. ASSUME NEW c \in CardsIn(row, j) \ In PROVE c \in CardsIn(new, j)
    <3>1. c \in Cards /\ \A i \in 1 .. n : s[i].card # c
      BY DEF CardsIn
    <3> QED BY <1>5, <3>1 DEF CardsIn
  <2> QED BY <2>1, <2>2
<1>11. RowsDistinct(new)
  <2> SUFFICES ASSUME NEW c \in Cards, NEW d \in Cards,
                      Stored(new[c]), Stored(new[d]),
                      new[c].column = new[d].column, new[c].pos = new[d].pos
               PROVE  c = d
    BY DEF RowsDistinct
  <2>1. CASE new[c].column = k
    <3>1. c \in In /\ d \in In
      BY <1>9, <2>1 DEF CardsIn
    <3>2. PICK i \in 1 .. n, j \in 1 .. n : s[i].card = c /\ s[j].card = d
      BY <3>1
    <3>3. i - 1 = j - 1
      BY <1>6, <3>2
    <3> QED BY <3>2, <3>3
  <2>2. CASE new[c].column # k
    <3>1. \A e \in Cards : Stored(new[e]) /\ new[e].column # k => new[e] = row[e]
      BY <1>5, <1>6
    <3>2. new[c] = row[c] /\ new[d] = row[d]
      BY <2>2, <3>1
    <3> QED BY <3>2 DEF RowsDistinct
  <2> QED BY <2>1, <2>2
<1> QED BY <1>4, <1>5, <1>7, <1>8, <1>9, <1>10, <1>11

\* A column is read in any order of its cards in which the positions ascend.
Read(rows, s, n) == [i \in 1 .. n |-> Entry(rows, s[i].card)]

LEMMA ReadAs ==
  ASSUME NEW rows, RowsTyped(rows), NEW k, NEW s, NEW n \in Nat,
         CardsIn(rows, k) = {s[i].card : i \in 1 .. n},
         \A i, j \in 1 .. n :
           i < j => Read(rows, s, n)[i].pos < Read(rows, s, n)[j].pos
  PROVE  Read(rows, s, n) = ColumnOf(rows, k)
<1> DEFINE u == Read(rows, s, n)
<1>1. EntriesIn(rows, k) = {u[i] : i \in 1 .. n}
  BY DEF EntriesIn, Read
<1>2. u \in [1 .. n -> EntriesIn(rows, k)]
  BY <1>1 DEF Read
<1>3. u \in Seq(EntriesIn(rows, k)) /\ Len(u) = n /\ DOMAIN u = 1 .. n
  BY <1>2
<1>4. \A i, j \in 1 .. n : i < j => u[i].pos < u[j].pos
  OBVIOUS
<1> HIDE DEF u
<1>5. Sorts(u, EntriesIn(rows, k))
  BY <1>1, <1>3, <1>4 DEF Sorts
<1>6. u = ColumnOf(rows, k)
  BY <1>5, ColumnIs
<1> QED BY <1>6 DEF u

\* A card that is new in column k, or comes from elsewhere, gets the position
\* behind all others.
PutAtEnd(new, c, k) ==
  /\ new \in [Cards -> Rows \cup {NoRow, Gone}]
  /\ \A d \in Cards \ {c} : new[d] = row[d]
  /\ new[c] \in Rows /\ new[c].column = k /\ new[c].pos = NextPosition(row, k)

LEMMA PutAtEndKeeps ==
  ASSUME RowsTyped(row), RowsDistinct(row), NEW c \in Cards, NEW k \in Columns,
         NEW new, PutAtEnd(new, c, k)
  PROVE  RowsTyped(new) /\ RowsDistinct(new)
<1>1. \A d \in Cards \ {c} : new[d] = row[d]
  BY DEF PutAtEnd
<1>2. \A d \in Cards \ {c} : Stored(row[d]) /\ row[d].column = k
        => row[d].pos # new[c].pos
  <2>1. \A d \in CardsIn(row, k) : row[d].pos < NextPosition(row, k)
    BY NextIsFree
  <2>2. \A d \in CardsIn(row, k) : row[d].pos \in Nat
    BY StoredRow DEF CardsIn
  <2>3. NextPosition(row, k) \in Nat
    BY NextIsFree
  <2> QED BY <2>1, <2>2, <2>3 DEF CardsIn, PutAtEnd
<1>3. RowsDistinct(new)
  <2>1. \A d, e \in Cards \ {c} :
          /\ Stored(new[d]) /\ Stored(new[e])
          /\ new[d].column = new[e].column /\ new[d].pos = new[e].pos
          => d = e
    BY <1>1 DEF RowsDistinct
  <2>2. \A d \in Cards \ {c} :
          ~(Stored(new[d]) /\ new[d].column = new[c].column
              /\ new[d].pos = new[c].pos)
    BY <1>1, <1>2 DEF PutAtEnd
  <2> QED BY <2>1, <2>2 DEF RowsDistinct
<1> QED BY <1>3 DEF PutAtEnd, RowsTyped

LEMMA PutAtEndColumns ==
  ASSUME RowsTyped(row), RowsDistinct(row), NEW c \in Cards, NEW k \in Columns,
         NEW new, PutAtEnd(new, c, k)
  PROVE  /\ EntriesIn(new, k) = {e \in EntriesIn(row, k) : e.card # c}
                                  \cup {Entry(new, c)}
         /\ \A e \in EntriesIn(row, k) : e.pos < Entry(new, c).pos
         /\ \A j : j # k => EntriesIn(new, j)
                              = {e \in EntriesIn(row, j) : e.card # c}
<1>1. \A d \in Cards \ {c} : new[d] = row[d]
  BY DEF PutAtEnd
<1>2. \A d \in Cards : Entry(new, d).card = d /\ Entry(row, d).card = d
  BY DEF Entry
<1>3. \A d \in Cards \ {c} : Entry(new, d) = Entry(row, d)
  BY <1>1 DEF Entry
<1>4. Stored(new[c]) /\ new[c].column = k
  BY RowIsStored DEF PutAtEnd
<1>5. \A j : CardsIn(new, j) \ {c} = CardsIn(row, j) \ {c}
  BY <1>1 DEF CardsIn
<1>6. c \in CardsIn(new, k) /\ \A j : j # k => c \notin CardsIn(new, j)
  BY <1>4 DEF CardsIn
<1>7. \A j : /\ EntriesIn(new, j) = {Entry(new, d) : d \in CardsIn(new, j)}
             /\ EntriesIn(row, j) = {Entry(row, d) : d \in CardsIn(row, j)}
             /\ CardsIn(row, j) \subseteq Cards /\ CardsIn(new, j) \subseteq Cards
  BY DEF EntriesIn, CardsIn
<1>8. \A j : {e \in EntriesIn(row, j) : e.card # c}
               = {Entry(new, d) : d \in CardsIn(new, j) \ {c}}
  BY <1>2, <1>3, <1>5, <1>7
<1>9. \A e \in EntriesIn(row, k) : e.pos < Entry(new, c).pos
  <2>1. Entry(new, c).pos = NextPosition(row, k)
    BY DEF PutAtEnd, Entry
  <2>2. \A d \in CardsIn(row, k) : Entry(row, d).pos < NextPosition(row, k)
    BY NextIsFree DEF Entry
  <2> QED BY <1>7, <2>1, <2>2
<1>10. EntriesIn(new, k) = {e \in EntriesIn(row, k) : e.card # c}
                             \cup {Entry(new, c)}
  BY <1>6, <1>7, <1>8
<1>11. ASSUME NEW j, j # k
       PROVE  EntriesIn(new, j) = {e \in EntriesIn(row, j) : e.card # c}
  BY <1>6, <1>7, <1>8, <1>11
<1> QED BY <1>9, <1>10, <1>11

LEMMA AppendedIs ==
  ASSUME RowsTyped(row), RowsDistinct(row), NEW c \in Cards, NEW k \in Columns,
         NEW v \in 1 .. MutateMax + 1
  PROVE  PutAtEnd(Appended(c, k, v), c, k)
<1> DEFINE r == [column |-> k, pos |-> NextPosition(row, k),
                 archived |-> FALSE, version |-> v]
<1>1. r \in Rows /\ r.column = k /\ r.pos = NextPosition(row, k)
  BY NextIsFree, NativeCardsAssumption DEF Rows
<1> HIDE DEF r
<1>2. Appended(c, k, v) = [row EXCEPT ![c] = r]
  BY DEF Appended, r
<1> QED BY <1>1, <1>2 DEF PutAtEnd, RowsTyped

LEMMA CreatedIs ==
  ASSUME RowsTyped(row), RowsDistinct(row), NEW c \in Cards, NEW k \in Columns
  PROVE  PutAtEnd(Created(c, k), c, k)
BY AppendedIs, NativeCardsAssumption DEF Created

LEMMA MovedIs ==
  ASSUME RowsTyped(row), RowsDistinct(row), NEW c \in Cards, NEW k \in Columns,
         Mutable(c)
  PROVE  /\ PutAtEnd(MovedTo(c, k), c, k)
         /\ MovedTo(c, k)[c].version = row[c].version + 1
<1> DEFINE w == [row EXCEPT ![c].column = k, ![c].pos = NextPosition(row, k)]
           new == Advanced(w, {c})
<1>1. row[c] \in Rows /\ row[c].version <= MutateMax /\ NextPosition(row, k) \in Nat
  BY StoredRow, NextIsFree DEF Mutable
<1>2. /\ w[c] \in Rows /\ w[c].column = k /\ w[c].pos = NextPosition(row, k)
      /\ w[c].version = row[c].version
      /\ \A d \in Cards \ {c} : w[d] = row[d]
  BY <1>1 DEF Rows, RowsTyped
<1>3. RowsTyped(w)
  <2>1. \A d \in Cards : w[d] \in Rows \cup {NoRow, Gone}
    BY <1>2 DEF RowsTyped
  <2>2. w = [d \in Cards |-> w[d]]
    BY DEF RowsTyped
  <2> QED BY <2>1, <2>2 DEF RowsTyped
<1>4. new = MovedTo(c, k)
  BY DEF MovedTo
<1> HIDE DEF w, new
<1>5. /\ RowsTyped(new) /\ SamePlaces(new, w)
      /\ \A d \in Cards : d \notin {c} => new[d] = w[d]
      /\ new[c].version = w[c].version + 1
  <2>1. \A d \in {c} : Stored(w[d]) /\ w[d].version <= MutateMax
    BY <1>1, <1>2, RowIsStored
  <2> QED BY <1>3, <2>1, AdvancedIs DEF new
<1>6. Stored(w[c]) /\ Stored(new[c])
  BY <1>2, <1>5, RowIsStored DEF SamePlaces
<1>7. new[c] \in Rows
  BY <1>5, <1>6, StoredRow
<1> QED BY <1>2, <1>4, <1>5, <1>6, <1>7 DEF PutAtEnd, SamePlaces, RowsTyped

\* Archiving and restoring change neither the cards of a column nor their
\* places.
LEMMA ArchivedIs ==
  ASSUME RowsTyped(row), RowsDistinct(row), NEW S \in SUBSET Cards,
         \A c \in S : Mutable(c), NEW to \in BOOLEAN
  PROVE  LET new == Archived(S, to)
         IN /\ RowsTyped(new) /\ RowsDistinct(new)
            /\ \A k : CardsIn(new, k) = CardsIn(row, k)
            /\ \A c \in Cards \ S : new[c] = row[c]
            /\ \A c \in S : Entry(new, c) = [card |-> c, pos |-> row[c].pos,
                                             archived |-> to]
<1> DEFINE w == [c \in Cards |-> IF c \in S THEN [row[c] EXCEPT !.archived = to]
                                 ELSE row[c]]
           new == Advanced(w, S)
<1>1. \A c \in S : /\ row[c] \in Rows /\ row[c].version <= MutateMax
                   /\ Stored(row[c]) /\ c \in Cards
  BY StoredRow DEF Mutable
<1>2. \A c \in S :
        /\ w[c] \in Rows /\ w[c].column = row[c].column /\ w[c].pos = row[c].pos
        /\ w[c].archived = to /\ w[c].version = row[c].version
  BY <1>1 DEF Rows
<1>3. \A c \in Cards \ S : w[c] = row[c]
  OBVIOUS
<1>4. RowsTyped(w)
  <2>1. \A c \in Cards : w[c] \in Rows \cup {NoRow, Gone}
    BY <1>2, <1>3 DEF RowsTyped
  <2> QED BY <2>1 DEF RowsTyped
<1>5. new = Archived(S, to)
  BY DEF Archived
<1> HIDE DEF w
<1>6. SamePlaces(w, row)
  BY <1>1, <1>2, <1>3, RowIsStored DEF SamePlaces
<1>7. \A c \in S : Stored(w[c]) /\ w[c].version <= MutateMax
  BY <1>1, <1>2, RowIsStored
<1>8. /\ RowsTyped(new) /\ SamePlaces(new, w)
      /\ \A c \in Cards : c \notin S => new[c] = w[c]
      /\ \A c \in S : new[c].archived = w[c].archived
  BY <1>4, <1>7, AdvancedIs
<1> HIDE DEF new
<1>9. SamePlaces(new, row)
  BY <1>6, <1>8 DEF SamePlaces
<1>10. RowsDistinct(new) /\ \A k : CardsIn(new, k) = CardsIn(row, k)
  BY <1>9, SamePlacesKeep
<1>11. \A c \in S : Entry(new, c) = [card |-> c, pos |-> row[c].pos,
                                     archived |-> to]
  BY <1>1, <1>2, <1>8, <1>9 DEF Entry, SamePlaces
<1> QED BY <1>3, <1>5, <1>8, <1>10, <1>11

\* Cards that leave the board take no place of another.
LEMMA LeftIs ==
  ASSUME RowsTyped(row), RowsDistinct(row), NEW S \in SUBSET Cards
  PROVE  RowsTyped(Left(S)) /\ RowsDistinct(Left(S))
<1>1. \A c \in Cards : Left(S)[c] = IF c \in S THEN Gone ELSE row[c]
  BY DEF Left
<1>2. ~Stored(Gone)
  BY DEF Stored, Gone
<1>3. RowsTyped(Left(S))
  BY DEF RowsTyped, Left
<1>4. \A c \in Cards : Stored(Left(S)[c]) => Left(S)[c] = row[c]
  BY <1>1, <1>2
<1> QED BY <1>3, <1>4 DEF RowsDistinct
-----------------------------------------------------------------------------
(* What the operations make of a copy. *)

\* u lists what s lists, and nothing else.
SameElements(u, s) ==
  /\ \A i \in DOMAIN u : \E j \in DOMAIN s : u[i] = s[j]
  /\ \A j \in DOMAIN s : \E i \in DOMAIN u : u[i] = s[j]

LEMMA InsertedIs ==
  ASSUME NEW s \in Seq(Entries), NEW t \in 0 .. Len(s), NEW e \in Entries
  PROVE  LET n == Len(s)
             u == InsertAt(s, t + 1, e)
         IN /\ Listed(u, Entries, n + 1)
            /\ \A i \in 1 .. n + 1 : u[i] = e \/ \E j \in 1 .. n : u[i] = s[j]
            /\ \A j \in 1 .. n : \E i \in 1 .. n + 1 : u[i] = s[j]
            /\ \E i \in 1 .. n + 1 : u[i] = e
            /\ OneEach(s) /\ (\A j \in 1 .. n : s[j].card # e.card)
                 => OneEach(u)
<1> DEFINE n == Len(s)
           u == InsertAt(s, t + 1, e)
           q == t + 1
<1>1. n \in Nat /\ DOMAIN s = 1 .. n /\ t \in Nat /\ q \in 1 .. n + 1
  BY LenProperties
<1>2. /\ Listed(u, Entries, n + 1)
      /\ \A j \in 1 .. n + 1 : u[j] = IF j < q THEN s[j]
                                      ELSE IF j = q THEN e ELSE s[j - 1]
  BY <1>1, InsertAtIs
<1> HIDE DEF u
<1>3. DOMAIN u = 1 .. n + 1
  BY <1>2 DEF Listed
<1> HIDE DEF q, n
<1> DEFINE h(j) == IF j < q THEN j ELSE j - 1
<1>4. /\ \A j \in 1 .. n + 1 : j # q => h(j) \in 1 .. n /\ u[j] = s[h(j)]
  BY <1>1, <1>2
<1>5. \A i, j \in 1 .. n + 1 : i # q /\ j # q /\ h(i) = h(j) => i = j
  BY <1>1
<1>6. ASSUME NEW j \in 1 .. n PROVE \E i \in 1 .. n + 1 : i # q /\ h(i) = j
  <2>1. IF j < q THEN j \in 1 .. n + 1 /\ j # q /\ h(j) = j
                 ELSE j + 1 \in 1 .. n + 1 /\ j + 1 # q /\ h(j + 1) = j
    BY <1>1
  <2> QED BY <2>1
<1> HIDE DEF h
<1>7. u[q] = e
  BY <1>1, <1>2
<1>8. ASSUME OneEach(s), \A j \in 1 .. n : s[j].card # e.card PROVE OneEach(u)
  <2>1. \A i, j \in 1 .. n : s[i].card = s[j].card => i = j
    BY <1>1, <1>8 DEF OneEach
  <2>2. \A i \in 1 .. n + 1 : i # q => u[i].card # e.card
    BY <1>4, <1>8
  <2>3. \A i, j \in 1 .. n + 1 :
          i # q /\ j # q /\ u[i].card = u[j].card => i = j
    BY <1>4, <1>5, <2>1
  <2> QED BY <1>3, <1>7, <2>2, <2>3 DEF OneEach
<1>9. /\ \A i \in 1 .. n + 1 : u[i] = e \/ \E j \in 1 .. n : u[i] = s[j]
      /\ \A j \in 1 .. n : \E i \in 1 .. n + 1 : u[i] = s[j]
      /\ \E i \in 1 .. n + 1 : u[i] = e
  BY <1>1, <1>4, <1>6, <1>7
<1> QED BY <1>2, <1>8, <1>9 DEF u, n

\* One card put at another place of its column.
LEMMA ReorderedIs ==
  ASSUME NEW s \in Seq(Entries), OneEach(s),
         NEW p \in 1 .. Len(s), NEW t \in 0 .. Len(s) - 1
  PROVE  LET u == InsertAt(RemoveAt(s, p), t + 1, s[p])
         IN Listed(u, Entries, Len(s)) /\ SameElements(u, s) /\ OneEach(u)
<1> DEFINE n == Len(s)
           r == RemoveAt(s, p)
           u == InsertAt(r, t + 1, s[p])
<1>1. n \in Nat /\ DOMAIN s = 1 .. n /\ s[p] \in Entries
      /\ n - 1 \in Nat /\ n - 1 + 1 = n /\ p \in 1 .. n
  BY LenProperties, ElementOfSeq
<1>2. /\ Listed(r, Entries, n - 1)
      /\ \A j \in 1 .. n - 1 : r[j] = IF j < p THEN s[j] ELSE s[j + 1]
  BY RemoveAtIs
<1> HIDE DEF r, u, n
<1>3. r \in Seq(Entries) /\ Len(r) = n - 1 /\ DOMAIN r = 1 .. n - 1
  BY <1>2 DEF Listed
<1> DEFINE h(j) == IF j < p THEN j ELSE j + 1
<1>4. /\ \A j \in 1 .. n - 1 : h(j) \in 1 .. n /\ h(j) # p /\ r[j] = s[h(j)]
  BY <1>1, <1>2
<1>5. \A i, j \in 1 .. n - 1 : h(i) = h(j) => i = j
  BY <1>1
<1>6. ASSUME NEW j \in 1 .. n, j # p PROVE \E i \in 1 .. n - 1 : h(i) = j
  <2>1. IF j < p THEN j \in 1 .. n - 1 /\ h(j) = j
                  ELSE j - 1 \in 1 .. n - 1 /\ h(j - 1) = j
    BY <1>1, <1>6
  <2> QED BY <2>1
<1> HIDE DEF h
<1>7. \A i, j \in 1 .. n : s[i].card = s[j].card => i = j
  BY <1>1 DEF OneEach
<1>8. OneEach(r) /\ \A j \in 1 .. n - 1 : r[j].card # s[p].card
  <2>1. \A i, j \in 1 .. n - 1 : r[i].card = r[j].card => i = j
    BY <1>4, <1>5, <1>7
  <2>2. \A j \in 1 .. n - 1 : r[j].card # s[p].card
    BY <1>1, <1>4, <1>7
  <2> QED BY <1>3, <2>1, <2>2 DEF OneEach
<1>9. /\ Listed(u, Entries, n) /\ OneEach(u)
      /\ \A i \in 1 .. n : u[i] = s[p] \/ \E j \in 1 .. n - 1 : u[i] = r[j]
      /\ \A j \in 1 .. n - 1 : \E i \in 1 .. n : u[i] = r[j]
      /\ \E i \in 1 .. n : u[i] = s[p]
  <2> DEFINE v == InsertAt(r, t + 1, s[p])
             m == Len(r)
  <2>1. r \in Seq(Entries) /\ t \in 0 .. m /\ s[p] \in Entries
    BY <1>1, <1>3 DEF n
  <2>2. /\ Listed(v, Entries, m + 1)
        /\ \A i \in 1 .. m + 1 : v[i] = s[p] \/ \E j \in 1 .. m : v[i] = r[j]
        /\ \A j \in 1 .. m : \E i \in 1 .. m + 1 : v[i] = r[j]
        /\ \E i \in 1 .. m + 1 : v[i] = s[p]
        /\ OneEach(r) /\ (\A j \in 1 .. m : r[j].card # s[p].card) => OneEach(v)
    BY <2>1, InsertedIs
  <2>3. m = n - 1 /\ m + 1 = n /\ u = v
    BY <1>1, <1>3 DEF u
  <2> HIDE DEF m, v
  <2> QED BY <1>8, <2>2, <2>3
<1>10. DOMAIN u = 1 .. n
  BY <1>9 DEF Listed
<1>11. \A i \in 1 .. n : \E j \in 1 .. n : u[i] = s[j]
  <2> SUFFICES ASSUME NEW i \in 1 .. n PROVE \E j \in 1 .. n : u[i] = s[j]
    OBVIOUS
  <2>1. CASE u[i] = s[p]
    BY <1>1, <2>1
  <2>2. CASE \E j \in 1 .. n - 1 : u[i] = r[j]
    BY <1>4, <2>2
  <2> QED BY <1>9, <2>1, <2>2
<1>12. \A j \in 1 .. n : \E i \in 1 .. n : u[i] = s[j]
  <2> SUFFICES ASSUME NEW j \in 1 .. n PROVE \E i \in 1 .. n : u[i] = s[j]
    OBVIOUS
  <2>1. CASE j = p
    BY <1>9, <2>1
  <2>2. CASE j # p
    <3>1. PICK m \in 1 .. n - 1 : h(m) = j
      BY <1>6, <2>2
    <3>2. r[m] = s[j]
      BY <1>4, <3>1
    <3> QED BY <1>9, <3>2
  <2> QED BY <2>1, <2>2
<1> QED BY <1>1, <1>9, <1>10, <1>11, <1>12 DEF SameElements, u, r, n

\* A copy whose fingerprint is the store's has the stored cards at their places.
LEMMA PlacesMatch ==
  ASSUME RowsTyped(row), RowsDistinct(row), NEW k,
         NEW s \in Seq(Entries), Places(s) = Places(ColumnOf(row, k))
  PROVE  /\ Len(s) \in Nat /\ DOMAIN s = 1 .. Len(s) /\ OneEach(s)
         /\ \A i \in 1 .. Len(s) : /\ s[i].card \in CardsIn(row, k)
                                   /\ s[i].pos = row[s[i].card].pos
         /\ \A c \in CardsIn(row, k) : \E i \in 1 .. Len(s) : s[i].card = c
         /\ Ascending(s)
<1> DEFINE w == ColumnOf(row, k)
<1>1. /\ w \in Seq(Entries) /\ Len(w) \in Nat /\ DOMAIN w = 1 .. Len(w)
      /\ \A i \in 1 .. Len(w) :
           w[i].card \in CardsIn(row, k) /\ w[i] = Entry(row, w[i].card)
      /\ \A i, j \in 1 .. Len(w) : w[i].card = w[j].card => i = j
      /\ \A c \in CardsIn(row, k) : \E i \in 1 .. Len(w) : w[i].card = c
      /\ \A i, j \in 1 .. Len(w) : i < j => w[i].pos < w[j].pos
  BY ColumnPlaces
<1>2. Len(s) \in Nat /\ DOMAIN s = 1 .. Len(s)
  BY LenProperties
<1> HIDE DEF w
<1>3. DOMAIN s = DOMAIN w
  BY DEF Places, w
<1>4. Len(s) = Len(w)
  <2>1. 1 .. Len(s) = 1 .. Len(w) /\ Len(s) \in Nat /\ Len(w) \in Nat
    BY <1>1, <1>2, <1>3
  <2> DEFINE m == Len(s)
             l == Len(w)
  <2> HIDE DEF m, l
  <2>2. m = l
    <3>1. \A i \in Nat : i \in 1 .. m <=> i \in 1 .. l
      BY <2>1 DEF m, l
    <3>2. m \in Nat /\ l \in Nat
      BY <2>1 DEF m, l
    <3>3. (m >= 1 => m \in 1 .. l) /\ (l >= 1 => l \in 1 .. m)
      BY <3>1, <3>2
    <3> QED BY <3>2, <3>3
  <2> QED BY <2>2 DEF m, l
<1>5. \A i \in 1 .. Len(w) : s[i].card = w[i].card /\ s[i].pos = w[i].pos
  <2> SUFFICES ASSUME NEW i \in 1 .. Len(w)
               PROVE  s[i].card = w[i].card /\ s[i].pos = w[i].pos
    OBVIOUS
  <2>1. Places(s)[i] = <<s[i].card, s[i].pos>>
    BY <1>1, <1>3 DEF Places
  <2>2. Places(w)[i] = <<w[i].card, w[i].pos>>
    BY <1>1 DEF Places
  <2>3. Places(s) = Places(w)
    BY DEF w
  <2> QED BY <2>1, <2>2, <2>3
<1>6. \A i \in 1 .. Len(w) : w[i].pos = row[w[i].card].pos
  BY <1>1 DEF Entry
<1>7. OneEach(s) /\ Ascending(s)
  BY <1>1, <1>2, <1>4, <1>5 DEF OneEach, Ascending
<1> QED BY <1>1, <1>2, <1>4, <1>5, <1>6, <1>7

LEMMA ColumnIsOrdered ==
  ASSUME NEW rows, RowsTyped(rows), RowsDistinct(rows), NEW k
  PROVE  OneEach(ColumnOf(rows, k)) /\ Ascending(ColumnOf(rows, k))
<1> DEFINE s == ColumnOf(rows, k)
<1>1. /\ DOMAIN s = 1 .. Len(s)
      /\ \A i, j \in 1 .. Len(s) : s[i].card = s[j].card => i = j
      /\ \A i, j \in 1 .. Len(s) : i < j => s[i].pos < s[j].pos
  BY ColumnPlaces
<1> HIDE DEF s
<1>2. OneEach(s) /\ Ascending(s)
  BY <1>1 DEF OneEach, Ascending
<1> QED BY <1>2 DEF s

\* A column of which a card was taken away is still in the order of positions.
LEMMA WithoutSorts ==
  ASSUME RowsTyped(row), RowsDistinct(row), NEW k, NEW c
  PROVE  Sorts(Without(ColumnOf(row, k), c),
               {e \in EntriesIn(row, k) : e.card # c})
<1> DEFINE s == ColumnOf(row, k)
           S == EntriesIn(row, k)
           T == {e \in S : e.card # c}
           u == Without(s, c)
<1>1. /\ s \in Seq(Entries) /\ DOMAIN s = 1 .. Len(s)
      /\ \A i \in 1 .. Len(s) : s[i] \in S
      /\ \A e \in S : \E i \in 1 .. Len(s) : s[i] = e
  <2>1. Sorts(s, S) /\ s \in Seq(Entries)
    BY ColumnRead
  <2> HIDE DEF s, S
  <2> QED BY <2>1, ElementOfSeq DEF Sorts
<1>2. OneEach(s) /\ Ascending(s)
  BY ColumnIsOrdered
<1> HIDE DEF s
<1>3. Ascending(u)
  BY <1>1, <1>2, WithoutIs
<1>4. /\ \A j \in 1 .. Len(u) :
           u[j].card # c /\ \E i \in 1 .. Len(s) : u[j] = s[i]
      /\ \A i \in 1 .. Len(s) :
           s[i].card # c => \E j \in 1 .. Len(u) : u[j] = s[i]
  <2>1. TakenOut(u, s, c)
    BY <1>1, <1>2, WithoutIs
  <2> HIDE DEF u, S, T
  <2> QED BY <2>1 DEF TakenOut
<1> DEFINE n == Len(u)
<1>11. u \in Seq(Entries)
  BY <1>1, WithoutTyped
<1> HIDE DEF u, S
<1>5. n \in Nat /\ DOMAIN u = 1 .. n
  BY <1>11, LenProperties
<1>6. \A j \in 1 .. n : u[j] \in T
  BY <1>1, <1>4
<1>7. ASSUME NEW e \in T PROVE \E j \in 1 .. n : u[j] = e
  <2>1. e \in S /\ e.card # c
    OBVIOUS
  <2>2. PICK i \in 1 .. Len(s) : s[i] = e
    BY <1>1, <2>1
  <2> QED BY <1>4, <2>1, <2>2
<1>8. \A i, j \in 1 .. n : i < j => u[i].pos < u[j].pos
  BY <1>3, <1>5 DEF Ascending
<1>9. u \in Seq(T)
  <2> HIDE DEF T
  <2>1. u = [j \in 1 .. n |-> u[j]]
    BY <1>5, <1>11
  <2>2. u \in [1 .. n -> T]
    BY <1>6, <2>1
  <2> QED BY <2>2
<1>10. Sorts(u, T)
  BY <1>5, <1>7, <1>8, <1>9 DEF Sorts
<1> QED BY <1>10 DEF u, S, s

LEMMA AppendSorts ==
  ASSUME NEW T, NEW w, Sorts(w, T), NEW e, \A d \in T : d.pos < e.pos
  PROVE  Sorts(Append(w, e), T \cup {e})
<1> DEFINE n == Len(w)
           u == Append(w, e)
           U == T \cup {e}
<1>1. /\ w \in Seq(T) /\ n \in Nat /\ DOMAIN w = 1 .. n
      /\ \A i, j \in 1 .. n : i < j => w[i].pos < w[j].pos
      /\ \A d \in T : \E i \in 1 .. n : w[i] = d
      /\ \A i \in 1 .. n : w[i] \in T
  BY ElementOfSeq DEF Sorts
<1>2. w \in Seq(U) /\ e \in U
  <2>1. T \subseteq U
    OBVIOUS
  <2> HIDE DEF U
  <2>2. w \in Seq(U)
    BY <1>1, <2>1, SeqMonotonic
  <2> QED BY <2>2 DEF U
<1> HIDE DEF U
<1>3. /\ u \in Seq(U) /\ Len(u) = n + 1 /\ u[n + 1] = e
      /\ \A i \in 1 .. n : u[i] = w[i]
  BY <1>2, AppendProperties
<1> HIDE DEF u
<1>4. DOMAIN u = 1 .. n + 1 /\ n + 1 \in Nat
  BY <1>1, <1>3, LenProperties
<1> HIDE DEF n
<1>5. \A i, j \in 1 .. n + 1 : i < j => u[i].pos < u[j].pos
  <2> SUFFICES ASSUME NEW i \in 1 .. n + 1, NEW j \in 1 .. n + 1, i < j
               PROVE  u[i].pos < u[j].pos
    OBVIOUS
  <2>1. i \in 1 .. n
    BY <1>1
  <2>2. CASE j = n + 1
    BY <1>1, <1>3, <2>1, <2>2
  <2>3. CASE j # n + 1
    <3>1. j \in 1 .. n
      BY <1>1, <2>3
    <3> QED BY <1>1, <1>3, <2>1, <3>1
  <2> QED BY <2>2, <2>3
<1>6. \A d \in U : \E i \in 1 .. n + 1 : u[i] = d
  <2> SUFFICES ASSUME NEW d \in U PROVE \E i \in 1 .. n + 1 : u[i] = d
    OBVIOUS
  <2>1. CASE d = e
    <3>1. n + 1 \in 1 .. n + 1
      BY <1>1
    <3> QED BY <1>3, <2>1, <3>1
  <2>2. CASE d \in T
    <3>1. PICK i \in 1 .. n : w[i] = d
      BY <1>1, <2>2
    <3>2. i \in 1 .. n + 1
      BY <1>1
    <3> QED BY <1>3, <3>1, <3>2
  <2> QED BY <2>1, <2>2 DEF U
<1>7. Sorts(u, U)
  BY <1>3, <1>4, <1>5, <1>6 DEF Sorts
<1> QED BY <1>7 DEF u, U

\* A current copy that shows the card last of column k is current afterwards.
LEMMA PutLastCurrent ==
  ASSUME RowsTyped(row), RowsDistinct(row), NEW c \in Cards, NEW k \in Columns,
         NEW p, copy[p] = BoardOf(row), NEW new, PutAtEnd(new, c, k)
  PROVE  PutLast(p, k, Entry(new, c)) = BoardOf(new)
<1> DEFINE e == Entry(new, c)
           w(j) == Without(ColumnOf(row, j), c)
           T(j) == {d \in EntriesIn(row, j) : d.card # c}
<1>1. \A j \in Columns : copy[p][j] = ColumnOf(row, j)
  BY DEF BoardOf
<1>2. RowsTyped(new) /\ RowsDistinct(new)
  BY PutAtEndKeeps
<1>3. /\ EntriesIn(new, k) = T(k) \cup {e}
      /\ \A d \in T(k) : d.pos < e.pos
      /\ \A j : j # k => EntriesIn(new, j) = T(j)
  BY PutAtEndColumns
<1>4. /\ \A j : Sorts(w(j), T(j))
  BY WithoutSorts
<1>5. e.card = c
  BY DEF Entry
<1> HIDE DEF e, w, T
<1>6. Append(w(k), e) = ColumnOf(new, k)
  <2>1. Sorts(Append(w(k), e), T(k) \cup {e})
    BY <1>3, <1>4, AppendSorts
  <2> QED BY <1>2, <1>3, <2>1, ColumnIs
<1>7. \A j \in Columns : j # k => w(j) = ColumnOf(new, j)
  BY <1>2, <1>3, <1>4, ColumnIs
<1>8. PutLast(p, k, e) = [j \in Columns |-> IF j = k THEN Append(w(j), e) ELSE w(j)]
  BY <1>1, <1>5 DEF PutLast, w
<1>9. PutLast(p, k, e) = BoardOf(new)
  BY <1>6, <1>7, <1>8 DEF BoardOf
<1> QED BY <1>9 DEF e

\* A current copy with the flag of one card changed, too.
LEMMA MarkedCurrent ==
  ASSUME RowsTyped(row), RowsDistinct(row), NEW c \in Cards, Mutable(c),
         NEW to \in BOOLEAN, NEW p, copy[p] = BoardOf(row)
  PROVE  Marked(p, c, to) = BoardOf(Archived({c}, to))
<1> DEFINE new == Archived({c}, to)
<1>1. /\ RowsTyped(new) /\ RowsDistinct(new)
      /\ \A k : CardsIn(new, k) = CardsIn(row, k)
      /\ \A d \in Cards \ {c} : new[d] = row[d]
      /\ Entry(new, c) = [card |-> c, pos |-> row[c].pos, archived |-> to]
  BY ArchivedIs
<1> HIDE DEF new
<1>2. ASSUME NEW k \in Columns
      PROVE  [i \in DOMAIN copy[p][k] |->
                IF copy[p][k][i].card = c
                THEN [copy[p][k][i] EXCEPT !.archived = to]
                ELSE copy[p][k][i]] = ColumnOf(new, k)
  <2> DEFINE s == ColumnOf(row, k)
             n == Len(s)
             u == Read(new, s, n)
  <2>1. copy[p][k] = s
    BY DEF BoardOf
  <2>2. /\ n \in Nat /\ DOMAIN s = 1 .. n
        /\ \A i \in 1 .. n : s[i].card \in CardsIn(row, k)
                             /\ s[i] = Entry(row, s[i].card)
        /\ \A d \in CardsIn(row, k) : \E i \in 1 .. n : s[i].card = d
        /\ \A i, j \in 1 .. n : i < j => s[i].pos < s[j].pos
    BY ColumnPlaces
  <2> HIDE DEF s, n
  <2>3. ASSUME NEW i \in 1 .. n
        PROVE  Entry(new, s[i].card) = IF s[i].card = c
                                       THEN [s[i] EXCEPT !.archived = to]
                                       ELSE s[i]
    <3>1. s[i].card \in Cards /\ s[i] = Entry(row, s[i].card)
      BY <2>2 DEF CardsIn
    <3> QED BY <1>1, <3>1 DEF Entry
  <2>8. \A i \in 1 .. n : u[i] = Entry(new, s[i].card)
    BY DEF Read
  <2>4. \A i \in 1 .. n : u[i].pos = s[i].pos
    <3>1. \A i \in 1 .. n : s[i] = [card |-> s[i].card, pos |-> s[i].pos,
                                    archived |-> s[i].archived]
      BY <2>2 DEF Entry
    <3> QED BY <2>3, <2>8, <3>1
  <2>5. CardsIn(new, k) = {s[i].card : i \in 1 .. n}
    BY <1>1, <2>2
  <2>6. u = ColumnOf(new, k)
    <3>1. \A i, j \in 1 .. n : i < j => u[i].pos < u[j].pos
      BY <2>2, <2>4
    <3> QED BY <1>1, <2>2, <2>5, <3>1, ReadAs
  <2>7. [i \in DOMAIN s |-> IF s[i].card = c THEN [s[i] EXCEPT !.archived = to]
                            ELSE s[i]] = u
    BY <2>2, <2>3 DEF Read
  <2> QED BY <2>1, <2>6, <2>7
<1>3. Marked(p, c, to) = BoardOf(new)
  BY <1>2 DEF Marked, BoardOf
<1> QED BY <1>3 DEF new

\* The column as the process shows it afterwards: the places are the stored
\* ones, and so is all of it if the archived flags were.
LEMMA PlacedReads ==
  ASSUME RowsTyped(row), RowsDistinct(row), NEW k, NEW s, NEW n, NEW S,
         Placeable(k, s, n, S), NEW new, new = PlacedAs(k, s, S)
  PROVE  /\ Renumbered(s) \in Seq(Entries)
         /\ Places(Renumbered(s)) = Places(ColumnOf(new, k))
         /\ (\A i \in 1 .. n : s[i].archived = row[s[i].card].archived)
              => Renumbered(s) = ColumnOf(new, k)
<1> DEFINE u == Read(new, s, n)
           r == Renumbered(s)
<1>1. /\ n \in Nat /\ DOMAIN s = 1 .. n
      /\ \A i \in 1 .. n : s[i] \in Entries /\ i - 1 \in Nat
  BY DEF Placeable, Listed
<1>2. /\ RowsTyped(new) /\ CardsIn(new, k) = {s[i].card : i \in 1 .. n}
      /\ \A i \in 1 .. n : Entry(new, s[i].card)
           = [card |-> s[i].card, pos |-> i - 1,
              archived |-> row[s[i].card].archived]
  BY PlacedIs
<1>3. u = ColumnOf(new, k)
  <2>1. ASSUME NEW i \in 1 .. n PROVE u[i].pos = i - 1
    <3>1. u[i] = Entry(new, s[i].card)
      BY DEF Read
    <3>2. Entry(new, s[i].card) = [card |-> s[i].card, pos |-> i - 1,
                                   archived |-> row[s[i].card].archived]
      BY <1>2
    <3> HIDE DEF u
    <3> QED BY <3>1, <3>2
  <2>2. \A i, j \in 1 .. n : i < j => u[i].pos < u[j].pos
    BY <1>1, <2>1
  <2> QED BY <1>1, <1>2, <2>2, ReadAs
<1>4. \A i \in 1 .. n : r[i] = [card |-> s[i].card, pos |-> i - 1,
                                archived |-> s[i].archived]
  BY <1>1 DEF Renumbered, Entries
<1>5. \A i \in 1 .. n : u[i] = [card |-> s[i].card, pos |-> i - 1,
                                archived |-> row[s[i].card].archived]
  BY <1>2 DEF Read
<1>6. r = [i \in 1 .. n |-> r[i]] /\ u = [i \in 1 .. n |-> u[i]]
  BY <1>1 DEF Renumbered, Read
<1> HIDE DEF r, u
<1>7. r \in Seq(Entries)
  <2>1. ASSUME NEW i \in 1 .. n PROVE r[i] \in Entries
    <3>1. s[i] \in Entries /\ i - 1 \in Nat
      BY <1>1
    <3>2. s[i].card \in Cards /\ s[i].archived \in BOOLEAN
      BY <3>1 DEF Entries
    <3>3. [card |-> s[i].card, pos |-> i - 1, archived |-> s[i].archived]
            \in Entries
      BY <3>1, <3>2 DEF Entries
    <3> QED BY <1>4, <3>3
  <2>2. r \in [1 .. n -> Entries]
    BY <1>6, <2>1
  <2> QED BY <1>1, <2>2
<1>8. Places(r) = Places(u)
  <2>1. DOMAIN r = 1 .. n /\ DOMAIN u = 1 .. n
    BY <1>6
  <2>2. ASSUME NEW i \in 1 .. n
        PROVE  r[i].card = u[i].card /\ r[i].pos = u[i].pos
    <3>1. r[i] = [card |-> s[i].card, pos |-> i - 1, archived |-> s[i].archived]
      BY <1>4
    <3>2. u[i] = [card |-> s[i].card, pos |-> i - 1,
                  archived |-> row[s[i].card].archived]
      BY <1>5
    <3> QED BY <3>1, <3>2
  <2> QED BY <2>1, <2>2 DEF Places
<1>9. ASSUME \A i \in 1 .. n : s[i].archived = row[s[i].card].archived
      PROVE  r = u
  <2>1. \A i \in 1 .. n : r[i] = u[i]
    BY <1>4, <1>5, <1>9
  <2> QED BY <1>6, <2>1
<1> QED BY <1>3, <1>7, <1>8, <1>9 DEF r

\* Among the n cards of s is c, and none but c can come from elsewhere.
Brings(s, n, c, k) ==
  /\ \E i \in 1 .. n : s[i].card = c
  /\ \A i \in 1 .. n : s[i].card = c \/ s[i].card \in CardsIn(row, k)

\* The other columns lose card c if it comes from there.
LEMMA PlacedOthers ==
  ASSUME RowsTyped(row), RowsDistinct(row), NEW k, NEW s, NEW n, NEW S,
         Placeable(k, s, n, S), NEW new, new = PlacedAs(k, s, S),
         NEW c, Brings(s, n, c, k), NEW j, j # k
  PROVE  /\ CardsIn(new, j) = CardsIn(row, j) \ {c}
         /\ \A d \in CardsIn(new, j) : new[d] = row[d]
         /\ ColumnOf(new, j) = Without(ColumnOf(row, j), c)
         /\ c \notin CardsIn(row, j) => ColumnOf(new, j) = ColumnOf(row, j)
<1> DEFINE In == {s[i].card : i \in 1 .. n}
<1>1. /\ RowsTyped(new)
      /\ \A d \in Cards : (\A i \in 1 .. n : s[i].card # d) => new[d] = row[d]
      /\ CardsIn(new, j) = CardsIn(row, j) \ In
  BY PlacedIs
<1>2. CardsIn(row, j) \cap In \subseteq {c} /\ c \in In
  BY DEF CardsIn, Brings
<1>3. CardsIn(new, j) = CardsIn(row, j) \ {c}
  BY <1>1, <1>2
<1>4. \A d \in CardsIn(new, j) : new[d] = row[d] /\ Entry(new, d) = Entry(row, d)
  <2>1. \A d \in CardsIn(new, j) : d \in Cards /\ \A i \in 1 .. n : s[i].card # d
    BY <1>1 DEF CardsIn
  <2> QED BY <1>1, <2>1 DEF Entry
<1>5. \A d : Entry(row, d).card = d
  BY DEF Entry
<1>6. EntriesIn(new, j) = {e \in EntriesIn(row, j) : e.card # c}
  BY <1>3, <1>4, <1>5 DEF EntriesIn
<1>7. ColumnOf(new, j) = Without(ColumnOf(row, j), c)
  <2>1. Sorts(Without(ColumnOf(row, j), c),
              {e \in EntriesIn(row, j) : e.card # c})
    BY WithoutSorts
  <2> QED BY <1>1, <1>6, <2>1, ColumnIs
<1>8. ASSUME c \notin CardsIn(row, j) PROVE ColumnOf(new, j) = ColumnOf(row, j)
  <2>1. EntriesIn(new, j) = EntriesIn(row, j)
    BY <1>3, <1>4, <1>8 DEF EntriesIn
  <2> QED BY <2>1 DEF ColumnOf, EntriesIn
<1> QED BY <1>3, <1>4, <1>7, <1>8

\* A column whose fingerprint was checked may be written in another order.
LEMMA ReorderPlaceable ==
  ASSUME RowsTyped(row), RowsDistinct(row), NEW k \in Columns,
         NEW s \in Seq(Entries), Places(s) = Places(ColumnOf(row, k)),
         NEW p \in 1 .. Len(s), NEW t \in 0 .. Len(s) - 1,
         Mutable(s[p].card)
  PROVE  LET u == InsertAt(RemoveAt(s, p), t + 1, s[p])
         IN Placeable(k, u, Len(s), {s[p].card}) /\ SameElements(u, s)
<1> DEFINE n == Len(s)
           c == s[p].card
           u == InsertAt(RemoveAt(s, p), t + 1, s[p])
<1>1. /\ n \in Nat /\ DOMAIN s = 1 .. n /\ OneEach(s)
      /\ \A i \in 1 .. n : s[i].card \in CardsIn(row, k)
      /\ \A d \in CardsIn(row, k) : \E i \in 1 .. n : s[i].card = d
  BY PlacesMatch
<1>2. Listed(u, Entries, n) /\ SameElements(u, s) /\ OneEach(u)
  BY <1>1, ReorderedIs
<1>3. p \in 1 .. n /\ c = s[p].card /\ Mutable(c)
  OBVIOUS
<1> HIDE DEF u, n, c
<1>4. DOMAIN u = 1 .. n
  BY <1>2 DEF Listed
<1>5. \A i \in 1 .. n : \E j \in 1 .. n : u[i] = s[j]
  BY <1>1, <1>2, <1>4 DEF SameElements
<1>6. \A j \in 1 .. n : \E i \in 1 .. n : u[i] = s[j]
  BY <1>1, <1>2, <1>4 DEF SameElements
<1>7. \A i \in 1 .. n : Stored(row[u[i].card])
  BY <1>1, <1>5 DEF CardsIn
<1>8. ASSUME NEW d \in CardsIn(row, k) PROVE \E i \in 1 .. n : u[i].card = d
  <2>1. PICK j \in 1 .. n : s[j].card = d
    BY <1>1
  <2>2. PICK i \in 1 .. n : u[i] = s[j]
    BY <1>6
  <2> QED BY <2>1, <2>2
<1>9. c \in CardsIn(row, k) /\ row[c].version <= MutateMax
  BY <1>1, <1>3 DEF Mutable
<1>10. Placeable(k, u, n, {c})
  BY <1>2, <1>7, <1>8, <1>9 DEF Placeable, CardsIn
<1> QED BY <1>2, <1>10 DEF u, n, c

\* s lists the cards C, each once.
ListsCards(s, C) ==
  /\ s \in Seq(Entries) /\ OneEach(s)
  /\ \A i \in 1 .. Len(s) : s[i].card \in C
  /\ \A c \in C : \E i \in 1 .. Len(s) : s[i].card = c

\* u lists what s lists, and e.
InsertedInto(u, s, e, k) ==
  /\ \A i \in 1 .. Len(s) + 1 : u[i] = e \/ \E j \in 1 .. Len(s) : u[i] = s[j]
  /\ \A i \in 1 .. Len(s) + 1 :
       u[i].card = e.card \/ u[i].card \in CardsIn(row, k)
  /\ \E i \in 1 .. Len(s) + 1 : u[i].card = e.card

\* A card may be put between the others of a column.
LEMMA InsertPlaceable ==
  ASSUME RowsTyped(row), RowsDistinct(row), NEW k \in Columns,
         NEW e \in Entries, Mutable(e.card),
         NEW s, ListsCards(s, CardsIn(row, k) \ {e.card}),
         NEW t \in 0 .. Len(s)
  PROVE  LET u == InsertAt(s, t + 1, e)
         IN Placeable(k, u, Len(s) + 1, {e.card}) /\ InsertedInto(u, s, e, k)
<1> DEFINE n == Len(s)
           c == e.card
           u == InsertAt(s, t + 1, e)
<1>1. /\ s \in Seq(Entries) /\ OneEach(s)
      /\ \A i \in 1 .. n : s[i].card \in CardsIn(row, k) \ {c}
      /\ \A d \in CardsIn(row, k) \ {c} : \E i \in 1 .. n : s[i].card = d
  BY DEF ListsCards
<1>2. /\ Listed(u, Entries, n + 1)
      /\ \A i \in 1 .. n + 1 : u[i] = e \/ \E j \in 1 .. n : u[i] = s[j]
      /\ \A j \in 1 .. n : \E i \in 1 .. n + 1 : u[i] = s[j]
      /\ \E i \in 1 .. n + 1 : u[i] = e
      /\ OneEach(s) /\ (\A j \in 1 .. n : s[j].card # c) => OneEach(u)
  BY <1>1, InsertedIs
<1>3. c = e.card /\ c \in Cards /\ Stored(row[c]) /\ row[c].version <= MutateMax
  BY DEF Mutable, Entries
<1> HIDE DEF u, n, c
<1>4. OneEach(u)
  BY <1>1, <1>2
<1>5. \A i \in 1 .. n + 1 : u[i].card = c \/ u[i].card \in CardsIn(row, k)
  BY <1>1, <1>2, <1>3
<1>6. \A i \in 1 .. n + 1 : Stored(row[u[i].card])
  BY <1>3, <1>5 DEF CardsIn
<1>7. \E i \in 1 .. n + 1 : u[i].card = c
  BY <1>2, <1>3
<1>8. ASSUME NEW d \in CardsIn(row, k) PROVE \E i \in 1 .. n + 1 : u[i].card = d
  <2>1. CASE d = c
    BY <1>7, <2>1
  <2>2. CASE d # c
    <3>1. PICK j \in 1 .. n : s[j].card = d
      BY <1>1, <2>2
    <3>2. PICK i \in 1 .. n + 1 : u[i] = s[j]
      BY <1>2
    <3> QED BY <3>1, <3>2
  <2> QED BY <2>1, <2>2
<1>9. Placeable(k, u, n + 1, {c})
  BY <1>2, <1>3, <1>4, <1>6, <1>7, <1>8 DEF Placeable
<1>10. InsertedInto(u, s, e, k)
  BY <1>2, <1>5, <1>7 DEF InsertedInto, n, c
<1> QED BY <1>9, <1>10 DEF u, n, c

\* What is left of a column that was read without c.
LEMMA WithoutLists ==
  ASSUME RowsTyped(row), RowsDistinct(row), NEW k, NEW c
  PROVE  ListsCards(Without(ColumnOf(row, k), c), CardsIn(row, k) \ {c})
<1> DEFINE s == ColumnOf(row, k)
           u == Without(s, c)
<1>1. /\ s \in Seq(Entries)
      /\ \A i \in 1 .. Len(s) : s[i].card \in CardsIn(row, k)
      /\ \A d \in CardsIn(row, k) : \E i \in 1 .. Len(s) : s[i].card = d
  BY ColumnPlaces
<1>2. OneEach(s)
  BY ColumnIsOrdered
<1> HIDE DEF s
<1>3. OneEach(u) /\ TakenOut(u, s, c) /\ u \in Seq(Entries)
  BY <1>1, <1>2, WithoutIs, WithoutTyped
<1> HIDE DEF u
<1>4. \A j \in 1 .. Len(u) : u[j].card \in CardsIn(row, k) \ {c}
  BY <1>1, <1>3 DEF TakenOut
<1>5. ASSUME NEW d \in CardsIn(row, k) \ {c}
      PROVE  \E j \in 1 .. Len(u) : u[j].card = d
  <2>1. PICK i \in 1 .. Len(s) : s[i].card = d
    BY <1>1
  <2>2. PICK j \in 1 .. Len(u) : u[j] = s[i]
    BY <1>3, <2>1 DEF TakenOut
  <2> QED BY <2>1, <2>2
<1>6. ListsCards(u, CardsIn(row, k) \ {c})
  BY <1>3, <1>4, <1>5 DEF ListsCards
<1> QED BY <1>6 DEF u, s

\* Two listings of different cards, one behind the other.
LEMMA ConcatLists ==
  ASSUME NEW a, NEW C, ListsCards(a, C), NEW b, NEW D, ListsCards(b, D),
         C \cap D = {}
  PROVE  ListsCards(a \o b, C \cup D)
<1> DEFINE n == Len(a)
           m == Len(b)
           u == a \o b
<1>1. /\ a \in Seq(Entries) /\ n \in Nat /\ DOMAIN a = 1 .. n
      /\ b \in Seq(Entries) /\ m \in Nat /\ DOMAIN b = 1 .. m
  BY LenProperties DEF ListsCards
<1>2. /\ u \in Seq(Entries) /\ Len(u) = n + m
      /\ \A i \in 1 .. n + m : u[i] = IF i <= n THEN a[i] ELSE b[i - n]
  BY <1>1, ConcatProperties
<1>3. /\ \A i \in 1 .. n : a[i].card \in C
      /\ \A c \in C : \E i \in 1 .. n : a[i].card = c
      /\ \A i, j \in 1 .. n : a[i].card = a[j].card => i = j
  BY <1>1 DEF ListsCards, OneEach
<1>4. /\ \A i \in 1 .. m : b[i].card \in D
      /\ \A c \in D : \E i \in 1 .. m : b[i].card = c
      /\ \A i, j \in 1 .. m : b[i].card = b[j].card => i = j
  BY <1>1 DEF ListsCards, OneEach
<1> HIDE DEF u
<1>5. DOMAIN u = 1 .. n + m
  BY <1>2, LenProperties
<1> HIDE DEF n, m
<1>6. ASSUME NEW i \in 1 .. n + m
      PROVE  IF i <= n THEN i \in 1 .. n /\ u[i] = a[i]
                       ELSE i - n \in 1 .. m /\ u[i] = b[i - n]
  BY <1>1, <1>2
<1>7. \A i \in 1 .. n + m : u[i].card \in C \cup D
  BY <1>3, <1>4, <1>6
<1>8. ASSUME NEW c \in C \cup D PROVE \E i \in 1 .. n + m : u[i].card = c
  <2>1. CASE c \in C
    <3>1. PICK i \in 1 .. n : a[i].card = c
      BY <1>3, <2>1
    <3>2. i \in 1 .. n + m /\ i <= n
      BY <1>1
    <3> QED BY <1>6, <3>1, <3>2
  <2>2. CASE c \in D
    <3>1. PICK i \in 1 .. m : b[i].card = c
      BY <1>4, <2>2
    <3>2. i + n \in 1 .. n + m /\ ~(i + n <= n) /\ (i + n) - n = i
      BY <1>1
    <3> QED BY <1>6, <3>1, <3>2
  <2> QED BY <2>1, <2>2
<1>9. ASSUME NEW i \in 1 .. n + m, NEW j \in 1 .. n + m, u[i].card = u[j].card
      PROVE  i = j
  <2>1. CASE i <= n /\ j <= n
    BY <1>3, <1>6, <1>9, <2>1
  <2>2. CASE ~(i <= n) /\ ~(j <= n)
    <3>1. i - n = j - n
      BY <1>4, <1>6, <1>9, <2>2
    <3> QED BY <1>1, <3>1
  <2>3. CASE i <= n /\ ~(j <= n)
    <3>1. u[i].card \in C /\ u[j].card \in D
      BY <1>3, <1>4, <1>6, <2>3
    <3> QED BY <1>9, <3>1
  <2>4. CASE ~(i <= n) /\ j <= n
    <3>1. u[j].card \in C /\ u[i].card \in D
      BY <1>3, <1>4, <1>6, <2>4
    <3> QED BY <1>9, <3>1
  <2> QED BY <2>1, <2>2, <2>3, <2>4
<1>10. OneEach(u)
  BY <1>5, <1>9 DEF OneEach
<1>11. ListsCards(u, C \cup D)
  BY <1>2, <1>7, <1>8, <1>10 DEF ListsCards
<1> QED BY <1>11 DEF u

\* Some entries of a column that was read, in the order of their positions.
LEMMA PartLists ==
  ASSUME RowsTyped(row), RowsDistinct(row), NEW k,
         NEW T, T \subseteq EntriesIn(row, k)
  PROVE  ListsCards(InOrder(T), {e.card : e \in T})
<1> DEFINE s == InOrder(T)
<1>1. /\ IsFiniteSet(T) /\ T \subseteq Entries
      /\ \A e \in T : e.pos \in Nat
  <2>1. /\ IsFiniteSet(EntriesIn(row, k))
        /\ \A e \in EntriesIn(row, k) : e \in Entries /\ e.pos \in Nat
    BY ColumnRead
  <2> QED BY <2>1, FS_Subset
<1>2. \A d, e \in T : d.pos = e.pos \/ d.card = e.card => d = e
  <2>1. \A e \in T : \E c \in CardsIn(row, k) : e = Entry(row, c)
    BY DEF EntriesIn
  <2>2. \A c \in CardsIn(row, k) :
          Entry(row, c).card = c /\ Entry(row, c).pos = row[c].pos
    BY DEF Entry
  <2>3. \A c, d \in CardsIn(row, k) : row[c].pos = row[d].pos => c = d
    BY DEF CardsIn, RowsDistinct
  <2> QED BY <2>1, <2>2, <2>3
<1>3. Sorts(s, T)
  BY <1>1, <1>2, InOrderSorts
<1> HIDE DEF s
<1>4. /\ s \in Seq(T) /\ Len(s) \in Nat /\ DOMAIN s = 1 .. Len(s)
      /\ \A i, j \in 1 .. Len(s) : i < j => s[i].pos < s[j].pos
      /\ \A e \in T : \E i \in 1 .. Len(s) : s[i] = e
      /\ \A i \in 1 .. Len(s) : s[i] \in T
  BY <1>3, ElementOfSeq DEF Sorts
<1>5. s \in Seq(Entries)
  BY <1>1, <1>4, SeqMonotonic
<1>6. ASSUME NEW i \in 1 .. Len(s), NEW j \in 1 .. Len(s),
             s[i].card = s[j].card
      PROVE  i = j
  <2>1. s[i] = s[j] /\ s[i].pos \in Nat
    BY <1>1, <1>2, <1>4, <1>6
  <2>2. ~(i < j) /\ ~(j < i)
    BY <1>4, <2>1
  <2> QED BY <1>4, <2>2
<1>7. OneEach(s)
  BY <1>4, <1>6 DEF OneEach
<1>8. \A c \in {e.card : e \in T} : \E i \in 1 .. Len(s) : s[i].card = c
  BY <1>4
<1>9. \A i \in 1 .. Len(s) : s[i].card \in {e.card : e \in T}
  BY <1>4
<1>10. ListsCards(s, {e.card : e \in T})
  BY <1>5, <1>7, <1>8, <1>9 DEF ListsCards
<1> QED BY <1>10 DEF s

\* A selection may be put between the others of a column.
LEMMA SelectionPlaceable ==
  ASSUME RowsTyped(row), RowsDistinct(row), NEW k \in Columns,
         NEW sel \in Selections, \A c \in ToSet(sel) : Mutable(c),
         NEW before \in Nat, before <= Len(ColumnOf(row, k))
  PROVE  LET old == ColumnOf(row, k)
             Rest(I) ==
               InOrder({e \in {old[i] : i \in I} : e.card \notin ToSet(sel)})
             new == Rest(1 .. before) \o [i \in DOMAIN sel |-> Entry(row, sel[i])]
                      \o Rest(before + 1 .. Len(old))
         IN Placeable(k, new, Len(new), ToSet(sel))
<1> DEFINE old == ColumnOf(row, k)
           X == ToSet(sel)
           T(I) == {e \in {old[i] : i \in I} : e.card \notin X}
           a == InOrder(T(1 .. before))
           x == [i \in DOMAIN sel |-> Entry(row, sel[i])]
           b == InOrder(T(before + 1 .. Len(old)))
           A == {e.card : e \in T(1 .. before)}
           B == {e.card : e \in T(before + 1 .. Len(old))}
           new == a \o x \o b
<1>1. /\ Len(old) \in Nat
      /\ \A i \in 1 .. Len(old) : old[i].card \in CardsIn(row, k)
                                  /\ old[i] = Entry(row, old[i].card)
      /\ \A c \in CardsIn(row, k) : \E i \in 1 .. Len(old) : old[i].card = c
      /\ \A i, j \in 1 .. Len(old) : old[i].card = old[j].card => i = j
  BY ColumnPlaces
<1>2. PICK n \in Nat : sel \in [1 .. n -> Cards]
                       /\ \A i, j \in 1 .. n : sel[i] = sel[j] => i = j
  BY DEF Selections
<1>3. DOMAIN sel = 1 .. n /\ X = {sel[i] : i \in 1 .. n} /\ X \subseteq Cards
  BY <1>2 DEF ToSet
<1>4. \A c \in X : Stored(row[c]) /\ row[c].version <= MutateMax
  BY DEF Mutable
<1> HIDE DEF X
<1>5. ListsCards(x, X)
  <2>1. \A i \in 1 .. n : sel[i] \in Cards /\ Entry(row, sel[i]) \in Entries
                          /\ Entry(row, sel[i]).card = sel[i]
    <3>1. \A i \in 1 .. n : sel[i] \in Cards /\ Stored(row[sel[i]])
      BY <1>2, <1>3, <1>4
    <3> QED BY <3>1, StoredRow
  <2>2. x = [i \in 1 .. n |-> Entry(row, sel[i])]
    BY <1>3
  <2> HIDE DEF x
  <2>3. x \in Seq(Entries) /\ Len(x) = n /\ DOMAIN x = 1 .. n
    <3>1. x \in [1 .. n -> Entries]
      BY <2>1, <2>2
    <3> QED BY <1>2, <3>1
  <2>4. \A i \in 1 .. n : x[i].card = sel[i]
    BY <2>1, <2>2
  <2>5. OneEach(x)
    BY <1>2, <2>3, <2>4 DEF OneEach
  <2> QED BY <1>3, <2>3, <2>4, <2>5 DEF ListsCards
<1>6. ASSUME NEW I, I \subseteq 1 .. Len(old)
      PROVE  ListsCards(InOrder(T(I)), {e.card : e \in T(I)})
  <2>1. T(I) \subseteq EntriesIn(row, k)
    <3>1. \A i \in I : old[i] \in EntriesIn(row, k)
      <4> SUFFICES ASSUME NEW i \in I PROVE old[i] \in EntriesIn(row, k)
        OBVIOUS
      <4>1. i \in 1 .. Len(old)
        BY <1>6
      <4> HIDE DEF old
      <4> QED BY <1>1, <4>1 DEF EntriesIn
    <3> HIDE DEF old
    <3> QED BY <3>1
  <2> HIDE DEF T
  <2> QED BY <2>1, PartLists
<1>7. 1 .. before \subseteq 1 .. Len(old)
      /\ before + 1 .. Len(old) \subseteq 1 .. Len(old)
  BY <1>1
<1>8. ListsCards(a, A) /\ ListsCards(b, B)
  <2> HIDE DEF old, T
  <2> QED BY <1>6, <1>7
<1>9. A \cap X = {} /\ (A \cup X) \cap B = {}
  <2>1. \A c \in A : c \notin X /\ \E i \in 1 .. before : old[i].card = c
    OBVIOUS
  <2>2. \A c \in B : c \notin X /\ \E i \in before + 1 .. Len(old) : old[i].card = c
    OBVIOUS
  <2> HIDE DEF old, A, B
  <2>3. \A i \in 1 .. before, j \in before + 1 .. Len(old) :
          old[i].card # old[j].card
    BY <1>1, <1>7
  <2> QED BY <2>1, <2>2, <2>3
<1>10. CardsIn(row, k) \subseteq A \cup X \cup B
  <2> SUFFICES ASSUME NEW c \in CardsIn(row, k), c \notin X PROVE c \in A \cup B
    OBVIOUS
  <2>1. PICK i \in 1 .. Len(old) : old[i].card = c
    BY <1>1
  <2>2. i \in 1 .. before \/ i \in before + 1 .. Len(old)
    BY <1>1
  <2> HIDE DEF old
  <2> QED BY <2>1, <2>2
<1>11. \A c \in A \cup X \cup B : Stored(row[c])
  <2>1. \A c \in A \cup B : c \in CardsIn(row, k)
    BY <1>1, <1>7
  <2> QED BY <1>4, <2>1 DEF CardsIn
<1> HIDE DEF A, B, a, b, x, old, T
<1>12. ListsCards(new, A \cup X \cup B)
  <2>1. ListsCards(a \o x, A \cup X)
    BY <1>5, <1>8, <1>9, ConcatLists
  <2>2. ListsCards((a \o x) \o b, (A \cup X) \cup B)
    BY <1>8, <1>9, <2>1, ConcatLists
  <2> QED BY <2>2
<1> HIDE DEF new
<1>13. Placeable(k, new, Len(new), X)
  <2>1. new \in Seq(Entries) /\ OneEach(new)
        /\ (\A i \in 1 .. Len(new) : new[i].card \in A \cup X \cup B)
        /\ \A c \in A \cup X \cup B : \E i \in 1 .. Len(new) : new[i].card = c
    BY <1>12 DEF ListsCards
  <2>2. Listed(new, Entries, Len(new))
    BY <2>1, SeqIsListed
  <2>3. \A i \in 1 .. Len(new) : Stored(row[new[i].card])
    BY <1>11, <2>1
  <2>4. \A c \in CardsIn(row, k) : \E i \in 1 .. Len(new) : new[i].card = c
    BY <1>10, <2>1
  <2>5. \A c \in X : /\ c \in Cards /\ row[c].version <= MutateMax
                     /\ \E i \in 1 .. Len(new) : new[i].card = c
    BY <1>3, <1>4, <2>1
  <2> QED BY <2>1, <2>2, <2>3, <2>4, <2>5 DEF Placeable
<1> QED BY <1>13 DEF new, a, b, x, X, T, old
-----------------------------------------------------------------------------
(* The inductive invariant: types, and distinct positions in every column. *)

CopiesTyped == copy \in [Processes -> [Columns -> Seq(Entries)]]
PanelTyped(r) ==
  \/ r = NoPanel
  \/ /\ r.card \in Cards /\ r.version \in 1 .. MutateMax + 1
     /\ r.column \in Columns /\ r.target \in Columns
     /\ r.order \cup r.targetOrder \subseteq Entries
PanelsTyped ==
  /\ panel = [p \in Processes |-> panel[p]]
  /\ \A p \in Processes : PanelTyped(panel[p])

NativeInv ==
  RowsTyped(row) /\ RowsDistinct(row) /\ CopiesTyped /\ PanelsTyped

LEMMA NativeInvTypes == NativeInv => NativeTypeOK
BY DEF NativeInv, NativeTypeOK, RowsTyped, CopiesTyped, PanelsTyped, PanelTyped

LEMMA BoardTyped ==
  ASSUME NEW rows, RowsTyped(rows), RowsDistinct(rows)
  PROVE  BoardOf(rows) \in [Columns -> Seq(Entries)]
<1>1. \A k \in Columns : ColumnOf(rows, k) \in Seq(Entries)
  BY ColumnRead
<1> QED BY <1>1 DEF BoardOf

LEMMA ShowKeeps ==
  ASSUME CopiesTyped, NEW p, NEW cards \in [Columns -> Seq(Entries)],
         Show(p, cards)
  PROVE  CopiesTyped'
BY DEF CopiesTyped, Show

LEMMA PanelKeeps ==
  ASSUME PanelsTyped, NEW p, NEW r, PanelTyped(r), panel' = [panel EXCEPT ![p] = r]
  PROVE  PanelsTyped'
<1>1. \A q \in Processes : panel'[q] = IF q = p THEN r ELSE panel[q]
  BY DEF PanelsTyped
<1>2. panel' = [q \in Processes |-> panel'[q]]
  BY DEF PanelsTyped
<1> QED BY <1>1, <1>2 DEF PanelsTyped

LEMMA NoPanelTyped == PanelTyped(NoPanel)
BY DEF PanelTyped

LEMMA PutLastTyped ==
  ASSUME CopiesTyped, NEW p \in Processes, NEW k, NEW e \in Entries
  PROVE  PutLast(p, k, e) \in [Columns -> Seq(Entries)]
<1>1. \A j \in Columns : copy[p][j] \in Seq(Entries)
  BY DEF CopiesTyped
<1>2. \A j \in Columns : Without(copy[p][j], e.card) \in Seq(Entries)
  BY <1>1, WithoutTyped
<1>3. \A j \in Columns : Append(Without(copy[p][j], e.card), e) \in Seq(Entries)
  BY <1>2, AppendProperties
<1> QED BY <1>2, <1>3 DEF PutLast

LEMMA MarkedTyped ==
  ASSUME CopiesTyped, NEW p \in Processes, NEW c, NEW to \in BOOLEAN
  PROVE  Marked(p, c, to) \in [Columns -> Seq(Entries)]
<1>1. ASSUME NEW k \in Columns
      PROVE  [i \in DOMAIN copy[p][k] |->
                IF copy[p][k][i].card = c
                THEN [copy[p][k][i] EXCEPT !.archived = to]
                ELSE copy[p][k][i]] \in Seq(Entries)
  <2> DEFINE s == copy[p][k]
             f(i) == IF s[i].card = c THEN [s[i] EXCEPT !.archived = to] ELSE s[i]
             u == [i \in DOMAIN s |-> f(i)]
  <2>1. s \in Seq(Entries)
    BY DEF CopiesTyped
  <2> HIDE DEF s
  <2>2. Len(s) \in Nat /\ DOMAIN s = 1 .. Len(s)
    BY <2>1, LenProperties
  <2>3. \A i \in 1 .. Len(s) : f(i) \in Entries
    <3>1. \A i \in 1 .. Len(s) : s[i] \in Entries
      BY <2>1, ElementOfSeq
    <3> QED BY <3>1 DEF Entries
  <2> HIDE DEF f
  <2>4. u \in [1 .. Len(s) -> Entries]
    BY <2>2, <2>3
  <2>5. u \in Seq(Entries)
    <3> HIDE DEF u
    <3> QED BY <2>2, <2>4
  <2> QED BY <2>5 DEF f, s
<1> QED BY <1>1 DEF Marked

\* A card that may be saved by a form is shown where the form says.
LEMMA ReadyIs ==
  ASSUME NativeInv, NEW p \in Processes, Ready(p)
  PROVE  LET c == panel[p].card
             k == panel[p].column
             s == copy[p][k]
         IN /\ c \in Cards /\ k \in Columns /\ panel[p].target \in Columns
            /\ Movable(c) /\ Mutable(c) /\ s \in Seq(Entries)
            /\ PlaceIn(s, c) \in 1 .. Len(s) /\ s[PlaceIn(s, c)].card = c
            /\ s[PlaceIn(s, c)] \in Entries
<1> DEFINE c == panel[p].card
           k == panel[p].column
           s == copy[p][k]
<1>1. panel[p] # NoPanel /\ PanelTyped(panel[p])
  BY DEF Ready, NativeInv, PanelsTyped
<1>2. c \in Cards /\ k \in Columns /\ panel[p].target \in Columns
  BY <1>1 DEF PanelTyped
<1>3. Movable(c) /\ Mutable(c)
  BY DEF Ready, Movable
<1>4. s \in Seq(Entries)
  BY <1>2 DEF NativeInv, CopiesTyped
<1>5. PICK x \in ShownAs(p, c) : x[1] = k
  BY DEF Ready
<1>6. x[2] \in DOMAIN s /\ s[x[2]].card = c
  BY <1>5 DEF ShownAs, Shown
<1>7. PlaceIn(s, c) \in DOMAIN s /\ s[PlaceIn(s, c)].card = c
  BY <1>6 DEF PlaceIn
<1>8. DOMAIN s = 1 .. Len(s)
  BY <1>4, LenProperties
<1> HIDE DEF s
<1>9. s[PlaceIn(s, c)] \in Entries
  BY <1>4, <1>7, <1>8, ElementOfSeq
<1> QED BY <1>2, <1>3, <1>4, <1>7, <1>8, <1>9 DEF s

\* What a form does when it reorders the card's own column: it writes the
\* column that the process shows, in another order.
LEMMA SaveReorderIs ==
  ASSUME NativeInv, NEW p \in Processes, NEW t \in PlaceNumbers,
         SaveReorder(p, t)
  PROVE  LET c == panel[p].card
             k == panel[p].column
             s == copy[p][k]
         IN \E u : /\ k \in Columns /\ s \in Seq(Entries)
                   /\ Places(s) = Places(ColumnOf(row, k))
                   /\ Placeable(k, u, Len(s), {c}) /\ SameElements(u, s)
                   /\ \E i \in 1 .. Len(s) : u[i].card = c
                   /\ \A i \in 1 .. Len(s) : u[i].card \in CardsIn(row, k)
                   /\ IsCurrent(s, panel[p].order) /\ panel[p].target = k
                   /\ row' = PlacedAs(k, u, {c})
                   /\ Show(p, [copy[p] EXCEPT ![k] = Renumbered(u)])
<1> DEFINE c == panel[p].card
           k == panel[p].column
           s == copy[p][k]
           at == PlaceIn(s, c)
           u == InsertAt(RemoveAt(s, at), t + 1, s[at])
<1>1. /\ Ready(p) /\ t < Len(s) /\ IsCurrent(s, panel[p].order)
      /\ Fingerprint(p, k) /\ panel[p].target = k
      /\ row' = PlacedAs(k, u, {c})
      /\ Show(p, [copy[p] EXCEPT ![k] = Renumbered(u)])
  BY DEF SaveReorder
<1>2. /\ c \in Cards /\ k \in Columns /\ Mutable(c) /\ s \in Seq(Entries)
      /\ at \in 1 .. Len(s) /\ s[at].card = c
  BY <1>1, ReadyIs
<1>3. Places(s) = Places(ColumnOf(row, k))
  BY <1>1 DEF Fingerprint
<1>4. RowsTyped(row) /\ RowsDistinct(row)
  BY DEF NativeInv
<1>5. Len(s) \in Nat /\ DOMAIN s = 1 .. Len(s)
  BY <1>2, LenProperties
<1>6. t \in 0 .. Len(s) - 1
  <2>1. t \in Nat
    BY FS_CardinalityType, NativeCardsAssumption DEF PlaceNumbers
  <2> HIDE DEF s
  <2> QED BY <1>1, <1>5, <2>1
<1> HIDE DEF s, c, k, at
<1>7. Placeable(k, u, Len(s), {s[at].card}) /\ SameElements(u, s)
  BY <1>2, <1>3, <1>4, <1>6, ReorderPlaceable
<1> HIDE DEF u
<1>8. DOMAIN u = 1 .. Len(s)
  BY <1>7 DEF Placeable, Listed
<1>9. \E i \in 1 .. Len(s) : u[i].card = c
  BY <1>2, <1>5, <1>7, <1>8 DEF SameElements
<1>10. \A i \in 1 .. Len(s) : u[i].card \in CardsIn(row, k)
  <2>1. \A i \in 1 .. Len(s) : s[i].card \in CardsIn(row, k)
    BY <1>2, <1>3, <1>4, PlacesMatch
  <2> QED BY <1>5, <1>7, <1>8, <2>1 DEF SameElements
<1> QED BY <1>1, <1>2, <1>3, <1>7, <1>9, <1>10 DEF s, c, k

\* What a form does when it puts the card into another column: it writes the
\* target as the process shows it, with the card between.
LEMMA SaveInsertIs ==
  ASSUME NativeInv, NEW p \in Processes, NEW t \in PlaceNumbers,
         SaveInsert(p, t)
  PROVE  LET c == panel[p].card
             from == panel[p].column
             k == panel[p].target
             s == copy[p][from]
             w == copy[p][k]
             e == s[PlaceIn(s, c)]
         IN \E u : /\ c \in Cards /\ k \in Columns /\ from \in Columns
                   /\ k # from /\ c \in CardsIn(row, from)
                   /\ s \in Seq(Entries) /\ w \in Seq(Entries)
                   /\ Places(s) = Places(ColumnOf(row, from))
                   /\ Places(w) = Places(ColumnOf(row, k))
                   /\ Placeable(k, u, Len(w) + 1, {c})
                   /\ InsertedInto(u, w, e, k) /\ e.card = c
                   /\ IsCurrent(w, panel[p].targetOrder)
                   /\ row' = PlacedAs(k, u, {c})
                   /\ Show(p, [copy[p] EXCEPT ![from] = Without(s, c),
                                              ![k] = Renumbered(u)])
<1> DEFINE c == panel[p].card
           from == panel[p].column
           k == panel[p].target
           s == copy[p][from]
           w == copy[p][k]
           at == PlaceIn(s, c)
           e == s[at]
           u == InsertAt(w, t + 1, e)
<1>1. /\ Ready(p) /\ t <= Len(w) /\ k # from
      /\ IsCurrent(w, panel[p].targetOrder)
      /\ Fingerprint(p, from) /\ Fingerprint(p, k)
      /\ row' = PlacedAs(k, u, {c})
      /\ Show(p, [copy[p] EXCEPT ![from] = Without(s, c), ![k] = Renumbered(u)])
  BY DEF SaveInsert
<1>2. /\ c \in Cards /\ from \in Columns /\ k \in Columns /\ Mutable(c)
      /\ s \in Seq(Entries) /\ at \in 1 .. Len(s) /\ e.card = c /\ e \in Entries
  BY <1>1, ReadyIs
<1>3. w \in Seq(Entries)
  BY <1>2 DEF NativeInv, CopiesTyped
<1>4. /\ Places(s) = Places(ColumnOf(row, from))
      /\ Places(w) = Places(ColumnOf(row, k))
  BY <1>1 DEF Fingerprint
<1>5. RowsTyped(row) /\ RowsDistinct(row)
  BY DEF NativeInv
<1>6. t \in 0 .. Len(w)
  <2>1. t \in Nat
    BY FS_CardinalityType, NativeCardsAssumption DEF PlaceNumbers
  <2>2. Len(w) \in Nat
    BY <1>3, LenProperties
  <2> HIDE DEF w
  <2> QED BY <1>1, <2>1, <2>2
<1> HIDE DEF s, w, c, k, from, at
<1>7. c \in CardsIn(row, from)
  <2>1. \A i \in 1 .. Len(s) : s[i].card \in CardsIn(row, from)
    BY <1>2, <1>4, <1>5, PlacesMatch
  <2> QED BY <1>2, <2>1
<1>8. ListsCards(w, CardsIn(row, k) \ {c})
  <2>1. /\ OneEach(w) /\ \A i \in 1 .. Len(w) : w[i].card \in CardsIn(row, k)
        /\ \A d \in CardsIn(row, k) : \E i \in 1 .. Len(w) : w[i].card = d
    BY <1>3, <1>4, <1>5, PlacesMatch
  <2>2. c \notin CardsIn(row, k)
    BY <1>1, <1>7 DEF CardsIn
  <2> QED BY <1>3, <2>1, <2>2 DEF ListsCards
<1> HIDE DEF e
<1>9. Placeable(k, u, Len(w) + 1, {e.card}) /\ InsertedInto(u, w, e, k)
  <2>1. ListsCards(w, CardsIn(row, k) \ {e.card}) /\ Mutable(e.card)
    BY <1>2, <1>8
  <2> QED BY <1>2, <1>5, <1>6, <2>1, InsertPlaceable
<1> HIDE DEF u
<1> QED BY <1>1, <1>2, <1>3, <1>4, <1>7, <1>9
        DEF s, w, c, k, from, e, at

LEMMA NativeInitInv == NativeInit => NativeInv
<1> SUFFICES ASSUME NativeInit PROVE NativeInv
  OBVIOUS
<1>1. \A c \in Cards : row[c] = NoRow /\ ~Stored(row[c])
  BY DEF NativeInit, Stored, NoRow
<1>2. RowsTyped(row) /\ RowsDistinct(row)
  BY <1>1 DEF NativeInit, RowsTyped, RowsDistinct
<1>3. CopiesTyped
  BY <1>2, BoardTyped DEF NativeInit, CopiesTyped
<1>4. PanelsTyped
  BY NoPanelTyped DEF NativeInit, PanelsTyped
<1> QED BY <1>2, <1>3, <1>4 DEF NativeInv

\* A change after which the process shows some typed board.
LEMMA ShownKeeps ==
  ASSUME NativeInv, RowsTyped(row'), RowsDistinct(row'), NEW p,
         NEW cards \in [Columns -> Seq(Entries)], Show(p, cards),
         \/ UNCHANGED panel
         \/ panel' = [panel EXCEPT ![p] = NoPanel]
  PROVE  NativeInv'
<1>1. CopiesTyped'
  BY ShowKeeps DEF NativeInv
<1>2. PanelsTyped'
  <2>1. CASE UNCHANGED panel
    BY <2>1 DEF NativeInv, PanelsTyped
  <2>2. CASE panel' = [panel EXCEPT ![p] = NoPanel]
    BY <2>2, PanelKeeps, NoPanelTyped DEF NativeInv
  <2> QED BY <2>1, <2>2
<1> QED BY <1>1, <1>2 DEF NativeInv

LEMMA PublishKeeps ==
  ASSUME NativeInv, RowsTyped(row'), RowsDistinct(row'), NEW p,
         Show(p, BoardOf(row')), UNCHANGED panel
  PROVE  NativeInv'
BY BoardTyped, ShownKeeps

LEMMA LoadKeeps ==
  ASSUME NativeInv, NEW p, Reload(p) \/ SelectionLoad(p)
  PROVE  NativeInv'
<1>1. row' = row /\ Show(p, BoardOf(row))
      /\ (UNCHANGED panel \/ panel' = [panel EXCEPT ![p] = NoPanel])
  BY DEF Reload, SelectionLoad
<1>2. RowsTyped(row') /\ RowsDistinct(row')
  BY <1>1 DEF NativeInv
<1>3. BoardOf(row) \in [Columns -> Seq(Entries)]
  BY BoardTyped DEF NativeInv
<1> QED BY <1>1, <1>2, <1>3, ShownKeeps

LEMMA CreateKeeps ==
  ASSUME NativeInv, NEW p \in Processes, NEW c \in Cards, NEW k \in Columns,
         Create(p, c, k)
  PROVE  NativeInv'
<1>1. PutAtEnd(row', c, k)
  BY CreatedIs DEF Create, NativeInv
<1>2. RowsTyped(row') /\ RowsDistinct(row')
  BY <1>1, PutAtEndKeeps DEF NativeInv
<1>3. Entry(row', c) \in Entries
  <2>1. Stored(row'[c])
    BY <1>1, RowIsStored DEF PutAtEnd
  <2> QED BY <1>2, <2>1, StoredRow
<1>4. PutLast(p, k, Entry(row', c)) \in [Columns -> Seq(Entries)]
  BY <1>3, PutLastTyped DEF NativeInv
<1> QED BY <1>2, <1>4, ShownKeeps DEF Create

LEMMA ArchiveKeeps ==
  ASSUME NativeInv, NEW p \in Processes, NEW c \in Cards,
         ArchiveCard(p, c) \/ RestoreCard(p, c)
  PROVE  NativeInv'
<1>1. PICK to \in BOOLEAN : /\ Mutable(c) /\ row' = Archived({c}, to)
                            /\ Show(p, Marked(p, c, to)) /\ UNCHANGED panel
  BY DEF ArchiveCard, RestoreCard, Movable
<1>2. RowsTyped(row') /\ RowsDistinct(row')
  BY <1>1, ArchivedIs DEF NativeInv
<1>3. Marked(p, c, to) \in [Columns -> Seq(Entries)]
  BY MarkedTyped DEF NativeInv
<1> QED BY <1>1, <1>2, <1>3, ShownKeeps

LEMMA PublishArchivedKeeps ==
  ASSUME NativeInv, NEW p \in Processes, NEW S \in SUBSET Cards,
         NEW to \in BOOLEAN, PublishArchived(p, S, to)
  PROVE  NativeInv'
<1>1. RowsTyped(row') /\ RowsDistinct(row')
  BY ArchivedIs DEF NativeInv, PublishArchived
<1> QED BY <1>1, PublishKeeps DEF PublishArchived

LEMMA MoveSelectedKeeps ==
  ASSUME NativeInv, NEW p \in Processes, NEW sel \in Selections,
         NEW k \in Columns, NEW n \in PlaceNumbers, MoveSelected(p, sel, k, n)
  PROVE  NativeInv'
<1> DEFINE old == ColumnOf(row, k)
           Rest(I) ==
             InOrder({e \in {old[i] : i \in I} : e.card \notin ToSet(sel)})
           new == Rest(1 .. n) \o [i \in DOMAIN sel |-> Entry(row, sel[i])]
                    \o Rest(n + 1 .. Len(old))
<1>1. /\ Selected(p, ToSet(sel)) /\ n <= Len(old)
      /\ row' = PlacedAs(k, new, ToSet(sel))
      /\ Show(p, BoardOf(row')) /\ UNCHANGED panel
  BY DEF MoveSelected
<1>2. n \in Nat
  BY FS_CardinalityType, NativeCardsAssumption DEF PlaceNumbers
<1>3. \A c \in ToSet(sel) : Mutable(c)
  BY <1>1 DEF Selected, Movable
<1>4. Placeable(k, new, Len(new), ToSet(sel))
  BY <1>1, <1>2, <1>3, SelectionPlaceable DEF NativeInv
<1> HIDE DEF new
<1>5. RowsTyped(row') /\ RowsDistinct(row')
  BY <1>1, <1>4, PlacedIs DEF NativeInv
<1> QED BY <1>1, <1>5, PublishKeeps

LEMMA TransferKeeps ==
  ASSUME NativeInv, NEW p \in Processes, NEW S \in SUBSET Cards,
         TransferSelected(p, S)
  PROVE  NativeInv'
<1>1. RowsTyped(row') /\ RowsDistinct(row')
  BY LeftIs DEF NativeInv, TransferSelected
<1> QED BY <1>1, PublishKeeps DEF TransferSelected

LEMMA OpenKeeps ==
  ASSUME NativeInv, NEW p \in Processes, NEW c \in Cards, Open(p, c)
  PROVE  NativeInv'
<1>1. PICK x \in ShownAs(p, c) :
        LET k == x[1]  s == copy[p][k]
        IN panel' = [panel EXCEPT ![p] =
             [card |-> c, version |-> row[c].version, column |-> k,
              order |-> ToSet(s), target |-> k, targetOrder |-> ToSet(s)]]
  BY DEF Open
<1> DEFINE k == x[1]
           s == copy[p][k]
           r == [card |-> c, version |-> row[c].version, column |-> k,
                 order |-> ToSet(s), target |-> k, targetOrder |-> ToSet(s)]
<1>2. k \in Columns
  BY DEF ShownAs, Shown
<1>3. ToSet(s) \subseteq Entries
  <2>1. s \in Seq(Entries)
    BY <1>2 DEF NativeInv, CopiesTyped
  <2> QED BY <2>1, ElementOfSeq, LenProperties DEF ToSet
<1>4. row[c].version \in 1 .. MutateMax + 1
  BY StoredRow DEF Open, NativeInv
<1>5. PanelTyped(r)
  BY <1>2, <1>3, <1>4 DEF PanelTyped
<1>6. panel' = [panel EXCEPT ![p] = r]
  BY <1>1
<1> HIDE DEF r
<1>7. PanelsTyped'
  BY <1>5, <1>6, PanelKeeps DEF NativeInv
<1>8. row' = row /\ copy' = copy
  BY DEF Open
<1> QED BY <1>7, <1>8 DEF NativeInv, CopiesTyped

LEMMA ChooseKeeps ==
  ASSUME NativeInv, NEW p \in Processes, NEW k \in Columns, Choose(p, k)
  PROVE  NativeInv'
<1> DEFINE s == copy[p][k]
           r == [panel[p] EXCEPT !.target = k, !.targetOrder = ToSet(s)]
<1>1. panel[p] # NoPanel /\ PanelTyped(panel[p])
  BY DEF Choose, NativeInv, PanelsTyped
<1>2. panel' = [panel EXCEPT ![p] = r]
  BY DEF Choose, NativeInv, PanelsTyped
<1>3. ToSet(s) \subseteq Entries
  <2>1. s \in Seq(Entries)
    BY DEF NativeInv, CopiesTyped
  <2> QED BY <2>1, ElementOfSeq, LenProperties DEF ToSet
<1> HIDE DEF s
<1>4. PanelTyped(r)
  BY <1>1, <1>3 DEF PanelTyped
<1> HIDE DEF r
<1>5. PanelsTyped'
  BY <1>2, <1>4, PanelKeeps DEF NativeInv
<1>6. row' = row /\ copy' = copy
  BY DEF Choose
<1> QED BY <1>5, <1>6 DEF NativeInv, CopiesTyped

LEMMA CloseKeeps ==
  ASSUME NativeInv, NEW p \in Processes, Close(p)
  PROVE  NativeInv'
<1>1. PanelsTyped'
  BY PanelKeeps, NoPanelTyped DEF NativeInv, Close
<1>2. row' = row /\ copy' = copy
  BY DEF Close
<1> QED BY <1>1, <1>2 DEF NativeInv, CopiesTyped

LEMMA SaveMoveIs ==
  ASSUME NativeInv, NEW p \in Processes, SaveMove(p)
  PROVE  LET c == panel[p].card  k == panel[p].target
         IN /\ c \in Cards /\ k \in Columns /\ PutAtEnd(row', c, k)
            /\ row'[c].version = row[c].version + 1
            /\ row' = MovedTo(c, k)
            /\ Show(p, PutLast(p, k, Entry(row', c)))
            /\ panel' = [panel EXCEPT ![p] = NoPanel]
<1>1. Ready(p)
  BY DEF SaveMove
<1>2. panel[p].card \in Cards /\ panel[p].target \in Columns
      /\ Mutable(panel[p].card)
  BY <1>1, ReadyIs
<1> QED BY <1>2, MovedIs DEF SaveMove, NativeInv

LEMMA SaveMoveKeeps ==
  ASSUME NativeInv, NEW p \in Processes, SaveMove(p)
  PROVE  NativeInv'
<1> DEFINE c == panel[p].card
           k == panel[p].target
<1>1. /\ c \in Cards /\ k \in Columns /\ PutAtEnd(row', c, k)
      /\ Show(p, PutLast(p, k, Entry(row', c)))
      /\ panel' = [panel EXCEPT ![p] = NoPanel]
  BY SaveMoveIs
<1> HIDE DEF c, k
<1>2. RowsTyped(row') /\ RowsDistinct(row')
  BY <1>1, PutAtEndKeeps DEF NativeInv
<1>3. Entry(row', c) \in Entries
  <2>1. Stored(row'[c])
    BY <1>1, RowIsStored DEF PutAtEnd
  <2> QED BY <1>1, <1>2, <2>1, StoredRow
<1>4. PutLast(p, k, Entry(row', c)) \in [Columns -> Seq(Entries)]
  BY <1>3, PutLastTyped DEF NativeInv
<1> QED BY <1>1, <1>2, <1>4, ShownKeeps

LEMMA SaveReorderKeeps ==
  ASSUME NativeInv, NEW p \in Processes, NEW t \in PlaceNumbers,
         SaveReorder(p, t)
  PROVE  NativeInv'
<1> DEFINE c == panel[p].card
           k == panel[p].column
           s == copy[p][k]
<1>1. PICK u : /\ k \in Columns /\ Placeable(k, u, Len(s), {c})
               /\ row' = PlacedAs(k, u, {c})
               /\ Show(p, [copy[p] EXCEPT ![k] = Renumbered(u)])
  BY SaveReorderIs
<1>2. panel' = [panel EXCEPT ![p] = NoPanel]
  BY DEF SaveReorder
<1> HIDE DEF c, k, s
<1>3. RowsTyped(row') /\ RowsDistinct(row') /\ Renumbered(u) \in Seq(Entries)
  BY <1>1, PlacedIs, PlacedReads DEF NativeInv
<1>4. [copy[p] EXCEPT ![k] = Renumbered(u)] \in [Columns -> Seq(Entries)]
  BY <1>1, <1>3 DEF NativeInv, CopiesTyped
<1> QED BY <1>1, <1>2, <1>3, <1>4, ShownKeeps

LEMMA SaveInsertKeeps ==
  ASSUME NativeInv, NEW p \in Processes, NEW t \in PlaceNumbers,
         SaveInsert(p, t)
  PROVE  NativeInv'
<1> DEFINE c == panel[p].card
           from == panel[p].column
           k == panel[p].target
           s == copy[p][from]
           w == copy[p][k]
<1>1. PICK u :
        /\ k \in Columns /\ from \in Columns /\ s \in Seq(Entries)
        /\ Placeable(k, u, Len(w) + 1, {c})
        /\ row' = PlacedAs(k, u, {c})
        /\ Show(p, [copy[p] EXCEPT ![from] = Without(s, c),
                                   ![k] = Renumbered(u)])
  BY SaveInsertIs
<1>2. panel' = [panel EXCEPT ![p] = NoPanel]
  BY DEF SaveInsert
<1> HIDE DEF c, k, s, w, from
<1>3. RowsTyped(row') /\ RowsDistinct(row') /\ Renumbered(u) \in Seq(Entries)
  BY <1>1, PlacedIs, PlacedReads DEF NativeInv
<1>4. Without(s, c) \in Seq(Entries)
  BY <1>1, WithoutTyped
<1>5. [copy[p] EXCEPT ![from] = Without(s, c), ![k] = Renumbered(u)]
        \in [Columns -> Seq(Entries)]
  BY <1>1, <1>3, <1>4 DEF NativeInv, CopiesTyped
<1> QED BY <1>1, <1>2, <1>3, <1>5, ShownKeeps

\* What other clients commit.
LEMMA ElsewhereRows ==
  ASSUME NativeInv, Elsewhere
  PROVE  RowsTyped(row') /\ RowsDistinct(row')
<1> USE DEF NativeInv
<1>1. CASE \E c \in Cards, k \in Columns, v \in 1 .. MutateMax + 1 :
             row' = Appended(c, k, v)
  BY <1>1, AppendedIs, PutAtEndKeeps
<1>2. CASE \E c \in Cards, k \in Columns : Movable(c) /\ row' = MovedTo(c, k)
  <2>1. PICK c \in Cards, k \in Columns : Movable(c) /\ row' = MovedTo(c, k)
    BY <1>2
  <2> QED BY <2>1, MovedIs, PutAtEndKeeps DEF Movable
<1>3. CASE \E c \in Cards, k \in Columns :
             /\ Movable(c)
             /\ LET s == Without(ColumnOf(row, k), c)
                IN \E t \in 0 .. Len(s) :
                     row' = PlacedAs(k, InsertAt(s, t + 1, Entry(row, c)), {c})
  <2>1. PICK c \in Cards, k \in Columns :
               /\ Movable(c)
               /\ LET s == Without(ColumnOf(row, k), c)
                  IN \E t \in 0 .. Len(s) :
                       row' = PlacedAs(k, InsertAt(s, t + 1, Entry(row, c)), {c})
    BY <1>3
  <2> DEFINE s == Without(ColumnOf(row, k), c)
             e == Entry(row, c)
  <2>2. PICK t \in 0 .. Len(s) : row' = PlacedAs(k, InsertAt(s, t + 1, e), {c})
    BY <2>1
  <2>3. ListsCards(s, CardsIn(row, k) \ {c})
    BY WithoutLists
  <2>4. e \in Entries /\ e.card = c /\ Mutable(c)
    BY <2>1, StoredRow DEF Movable, Mutable
  <2> HIDE DEF s, e
  <2>5. Placeable(k, InsertAt(s, t + 1, e), Len(s) + 1, {e.card})
    BY <2>3, <2>4, InsertPlaceable
  <2> QED BY <2>2, <2>4, <2>5, PlacedIs
<1>4. CASE \E c \in Cards : /\ Mutable(c)
                            /\ \/ row' = Archived({c}, ~row[c].archived)
                               \/ row' = Advanced(row, {c})
                               \/ row' = Left({c})
  <2>1. PICK c \in Cards : /\ Mutable(c)
                           /\ \/ row' = Archived({c}, ~row[c].archived)
                              \/ row' = Advanced(row, {c})
                              \/ row' = Left({c})
    BY <1>4
  <2>2. {c} \in SUBSET Cards /\ \A d \in {c} : Mutable(d)
    BY <2>1
  <2>3. CASE row' = Archived({c}, ~row[c].archived)
    <3>1. (~row[c].archived) \in BOOLEAN
      OBVIOUS
    <3> QED BY <2>2, <2>3, <3>1, ArchivedIs
  <2>4. CASE row' = Advanced(row, {c})
    BY <2>2, <2>4, AdvancedIs, SamePlacesKeep DEF Mutable
  <2>5. CASE row' = Left({c})
    BY <2>2, <2>5, LeftIs
  <2> QED BY <2>1, <2>3, <2>4, <2>5
<1>5. 1 \in 1 .. MutateMax + 1 /\ 2 .. MutateMax + 1 \subseteq 1 .. MutateMax + 1
  BY NativeCardsAssumption
<1> QED BY <1>1, <1>2, <1>3, <1>4, <1>5 DEF Elsewhere, Created

LEMMA ElsewhereKeeps ==
  ASSUME NativeInv, Elsewhere PROVE NativeInv'
<1>1. RowsTyped(row') /\ RowsDistinct(row')
  BY ElsewhereRows
<1>2. copy' = copy /\ panel' = panel
  BY DEF Elsewhere
<1> QED BY <1>1, <1>2 DEF NativeInv, CopiesTyped, PanelsTyped

LEMMA NativeNextInv == NativeInv /\ [NativeNext]_nativeVars => NativeInv'
<1> SUFFICES ASSUME NativeInv, [NativeNext]_nativeVars PROVE NativeInv'
  OBVIOUS
<1>1. CASE UNCHANGED nativeVars
  BY <1>1 DEF nativeVars, NativeInv, CopiesTyped, PanelsTyped
<1>2. CASE Elsewhere
  BY <1>2, ElsewhereKeeps
<1>3. ASSUME NEW p \in Processes, OwnNext(p) PROVE NativeInv'
  <2>1. CASE Reload(p) \/ SelectionLoad(p)
    BY <2>1, LoadKeeps
  <2>2. CASE \E c \in Cards, k \in Columns : Create(p, c, k)
    BY <2>2, CreateKeeps
  <2>3. CASE \E c \in Cards : ArchiveCard(p, c) \/ RestoreCard(p, c)
    BY <2>3, ArchiveKeeps
  <2>4. CASE \E S \in SUBSET Cards, to \in BOOLEAN : PublishArchived(p, S, to)
    BY <2>4, PublishArchivedKeeps
  <2>5. CASE \E S \in SUBSET Cards : TransferSelected(p, S)
    BY <2>5, TransferKeeps
  <2>6. CASE \E sel \in Selections, k \in Columns, n \in PlaceNumbers :
               MoveSelected(p, sel, k, n)
    BY <2>6, MoveSelectedKeeps
  <2> QED BY <1>3, <2>1, <2>2, <2>3, <2>4, <2>5, <2>6
        DEF OwnNext, Changes
<1>4. ASSUME NEW p \in Processes, PanelNext(p) PROVE NativeInv'
  <2>1. CASE \E c \in Cards : Open(p, c)
    BY <2>1, OpenKeeps
  <2>2. CASE \E k \in Columns : Choose(p, k)
    BY <2>2, ChooseKeeps
  <2>3. CASE Close(p)
    BY <2>3, CloseKeeps
  <2>4. CASE SaveMove(p)
    BY <2>4, SaveMoveKeeps
  <2>5. CASE \E t \in PlaceNumbers : SaveReorder(p, t) \/ SaveInsert(p, t)
    BY <2>5, SaveReorderKeeps, SaveInsertKeeps
  <2> QED BY <1>4, <2>1, <2>2, <2>3, <2>4, <2>5 DEF PanelNext
<1> QED BY <1>1, <1>2, <1>3, <1>4 DEF NativeNext

LEMMA NativeInvariant == NativeSpec => []NativeInv
<1> QED BY NativeInitInv, NativeNextInv, PTL DEF NativeSpec

\* The store keeps every row well formed and the copies and forms of the
\* processes show only entries that the database can hold: versions stay within
\* their bound, whatever processes and other clients do.
THEOREM NativeTypeCorrect == NativeSpec => []NativeTypeOK
<1> QED BY NativeInvariant, NativeInvTypes, PTL
-----------------------------------------------------------------------------
(* A current copy stays current through the process's own changes. *)

LEMMA ReorderCurrent ==
  ASSUME NativeInv, NEW p \in Processes, NEW t \in PlaceNumbers,
         SaveReorder(p, t), copy[p] = BoardOf(row)
  PROVE  copy'[p] = BoardOf(row')
<1> DEFINE c == panel[p].card
           k == panel[p].column
           s == copy[p][k]
           n == Len(s)
<1>1. PICK u : /\ k \in Columns /\ Placeable(k, u, n, {c}) /\ SameElements(u, s)
               /\ s \in Seq(Entries) /\ row' = PlacedAs(k, u, {c})
               /\ \E i \in 1 .. n : u[i].card = c
               /\ \A i \in 1 .. n : u[i].card \in CardsIn(row, k)
               /\ Show(p, [copy[p] EXCEPT ![k] = Renumbered(u)])
  BY SaveReorderIs
<1>2. RowsTyped(row) /\ RowsDistinct(row)
  BY DEF NativeInv
<1>3. \A j \in Columns : copy[p][j] = ColumnOf(row, j)
  BY DEF BoardOf
<1>4. \A i \in 1 .. n : s[i] = Entry(row, s[i].card)
  <2>1. s = ColumnOf(row, k)
    BY <1>1, <1>3
  <2> HIDE DEF s
  <2> QED BY <1>2, <2>1, ColumnPlaces
<1>5. \A i \in 1 .. n : u[i].archived = row[u[i].card].archived
  <2>1. DOMAIN s = 1 .. n
    BY <1>1, LenProperties
  <2>2. DOMAIN u = 1 .. n
    BY <1>1 DEF Placeable, Listed
  <2> HIDE DEF s, n
  <2>3. ASSUME NEW i \in 1 .. n PROVE s[i].archived = row[s[i].card].archived
    <3>1. Entry(row, s[i].card).archived = row[s[i].card].archived
      BY DEF Entry
    <3> QED BY <1>4, <3>1
  <2>4. \A i \in 1 .. n : \E j \in 1 .. n : u[i] = s[j]
    BY <1>1, <2>1, <2>2 DEF SameElements
  <2> QED BY <2>3, <2>4
<1> HIDE DEF s, n
<1>6. Renumbered(u) = ColumnOf(row', k)
  BY <1>1, <1>2, <1>5, PlacedReads
<1> HIDE DEF c, k
<1>7. ASSUME NEW j \in Columns, j # k PROVE ColumnOf(row', j) = ColumnOf(row, j)
  <2>1. c \notin CardsIn(row, j)
    BY <1>1, <1>7 DEF CardsIn
  <2>2. Brings(u, n, c, k)
    BY <1>1 DEF Brings
  <2> QED BY <1>1, <1>2, <1>7, <2>1, <2>2, PlacedOthers
<1>8. copy'[p] = [copy[p] EXCEPT ![k] = Renumbered(u)]
  BY <1>1 DEF Show, NativeInv, CopiesTyped
<1>9. copy'[p] = [j \in Columns |-> IF j = k THEN Renumbered(u) ELSE copy[p][j]]
  BY <1>1, <1>8 DEF BoardOf
<1> QED BY <1>3, <1>6, <1>7, <1>9 DEF BoardOf

LEMMA InsertCurrent ==
  ASSUME NativeInv, NEW p \in Processes, NEW t \in PlaceNumbers,
         SaveInsert(p, t), copy[p] = BoardOf(row)
  PROVE  copy'[p] = BoardOf(row')
<1> DEFINE c == panel[p].card
           from == panel[p].column
           k == panel[p].target
           s == copy[p][from]
           w == copy[p][k]
           e == s[PlaceIn(s, c)]
           n == Len(w) + 1
<1>1. PICK u :
        /\ k \in Columns /\ from \in Columns /\ k # from
        /\ c \in CardsIn(row, from)
        /\ s \in Seq(Entries) /\ w \in Seq(Entries)
        /\ Placeable(k, u, n, {c}) /\ InsertedInto(u, w, e, k) /\ e.card = c
        /\ row' = PlacedAs(k, u, {c})
        /\ Show(p, [copy[p] EXCEPT ![from] = Without(s, c),
                                   ![k] = Renumbered(u)])
  BY SaveInsertIs
<1>2. RowsTyped(row) /\ RowsDistinct(row)
  BY DEF NativeInv
<1>3. \A j \in Columns : copy[p][j] = ColumnOf(row, j)
  BY DEF BoardOf
<1>4. \A i \in 1 .. Len(w) : w[i] = Entry(row, w[i].card)
  <2>1. w = ColumnOf(row, k)
    BY <1>1, <1>3
  <2> HIDE DEF w
  <2> QED BY <1>2, <2>1, ColumnPlaces
<1>5. e = Entry(row, c)
  <2>1. s = ColumnOf(row, from)
    BY <1>1, <1>3
  <2>2. PlaceIn(s, c) \in 1 .. Len(s)
    BY ReadyIs DEF SaveInsert
  <2> HIDE DEF s
  <2>3. s[PlaceIn(s, c)] = Entry(row, s[PlaceIn(s, c)].card)
    BY <1>2, <2>1, <2>2, ColumnPlaces
  <2> QED BY <1>1, <2>3
<1>6. \A i \in 1 .. n : u[i].archived = row[u[i].card].archived
  <2> HIDE DEF w, e, c
  <2>1. ASSUME NEW i \in 1 .. Len(w)
        PROVE  w[i].archived = row[w[i].card].archived
    <3>1. Entry(row, w[i].card).archived = row[w[i].card].archived
      BY DEF Entry
    <3> QED BY <1>4, <3>1
  <2>2. e.archived = row[e.card].archived
    BY <1>1, <1>5 DEF Entry
  <2> QED BY <1>1, <2>1, <2>2 DEF InsertedInto
<1> HIDE DEF s, w, e
<1>7. Renumbered(u) = ColumnOf(row', k)
  BY <1>1, <1>2, <1>6, PlacedReads
<1>8. Brings(u, n, c, k)
  BY <1>1 DEF InsertedInto, Brings
<1> HIDE DEF c, k, from, n
<1>9. ASSUME NEW j \in Columns, j # k
      PROVE  /\ ColumnOf(row', j) = Without(ColumnOf(row, j), c)
             /\ c \notin CardsIn(row, j) => ColumnOf(row', j) = ColumnOf(row, j)
  BY <1>1, <1>2, <1>8, <1>9, PlacedOthers
<1>10. \A j \in Columns : j # from => c \notin CardsIn(row, j)
  BY <1>1 DEF CardsIn
<1>11. copy'[p] = [copy[p] EXCEPT ![from] = Without(s, c), ![k] = Renumbered(u)]
  BY <1>1 DEF Show, NativeInv, CopiesTyped
<1>12. s = ColumnOf(row, from)
  BY <1>1, <1>3 DEF s
<1>13. copy'[p] = [j \in Columns |-> IF j = k THEN Renumbered(u)
                                     ELSE IF j = from THEN Without(s, c)
                                     ELSE copy[p][j]]
  BY <1>1, <1>11 DEF BoardOf
<1>14. \A j \in Columns : copy'[p][j] = ColumnOf(row', j)
  BY <1>1, <1>3, <1>7, <1>9, <1>10, <1>12, <1>13
<1> QED BY <1>13, <1>14 DEF BoardOf

\* Whatever a process shows after a step of its own.
LEMMA OwnStepCurrent ==
  ASSUME NativeInv, NEW p \in Processes, OwnNext(p) \/ PanelNext(p),
         copy[p] = BoardOf(row)
  PROVE  copy'[p] = BoardOf(row')
<1>1. RowsTyped(row) /\ RowsDistinct(row)
  BY DEF NativeInv
<1>2. ASSUME NEW cards, Show(p, cards) PROVE copy'[p] = cards
  BY <1>2 DEF Show, NativeInv, CopiesTyped
<1>3. CASE Reload(p) \/ SelectionLoad(p)
  BY <1>2, <1>3 DEF Reload, SelectionLoad
<1>4. CASE \E c \in Cards, k \in Columns : Create(p, c, k)
  <2>1. PICK c \in Cards, k \in Columns : Create(p, c, k)
    BY <1>4
  <2>2. PutAtEnd(row', c, k)
    BY <1>1, <2>1, CreatedIs DEF Create
  <2>3. PutLast(p, k, Entry(row', c)) = BoardOf(row')
    BY <1>1, <2>2, PutLastCurrent
  <2> QED BY <1>2, <2>1, <2>3 DEF Create
<1>5. CASE \E c \in Cards : ArchiveCard(p, c) \/ RestoreCard(p, c)
  <2>1. PICK c \in Cards, to \in BOOLEAN :
          /\ Mutable(c) /\ row' = Archived({c}, to) /\ Show(p, Marked(p, c, to))
    BY <1>5 DEF ArchiveCard, RestoreCard, Movable
  <2>2. Marked(p, c, to) = BoardOf(row')
    BY <1>1, <2>1, MarkedCurrent
  <2> QED BY <1>2, <2>1, <2>2
<1>6. CASE \E S \in SUBSET Cards, to \in BOOLEAN : PublishArchived(p, S, to)
  BY <1>2, <1>6 DEF PublishArchived
<1>7. CASE \E S \in SUBSET Cards : TransferSelected(p, S)
  BY <1>2, <1>7 DEF TransferSelected
<1>8. CASE \E sel \in Selections, k \in Columns, n \in PlaceNumbers :
             MoveSelected(p, sel, k, n)
  BY <1>2, <1>8 DEF MoveSelected
<1>9. CASE (\E c \in Cards : Open(p, c)) \/ (\E k \in Columns : Choose(p, k))
             \/ Close(p)
  <2>1. row' = row /\ copy' = copy
    BY <1>9 DEF Open, Choose, Close
  <2> QED BY <2>1
<1>10. CASE SaveMove(p)
  <2> DEFINE c == panel[p].card
             k == panel[p].target
  <2>1. /\ c \in Cards /\ k \in Columns /\ PutAtEnd(row', c, k)
        /\ Show(p, PutLast(p, k, Entry(row', c)))
    BY <1>10, SaveMoveIs
  <2> HIDE DEF c, k
  <2>2. PutLast(p, k, Entry(row', c)) = BoardOf(row')
    BY <1>1, <2>1, PutLastCurrent
  <2> QED BY <1>2, <2>1, <2>2
<1>11. CASE \E t \in PlaceNumbers : SaveReorder(p, t) \/ SaveInsert(p, t)
  BY <1>11, ReorderCurrent, InsertCurrent
<1> QED BY <1>3, <1>4, <1>5, <1>6, <1>7, <1>8, <1>9, <1>10, <1>11
        DEF OwnNext, Changes, PanelNext

\* A step of one process leaves the copy and the form of another alone.
LEMMA OthersAlone ==
  ASSUME NativeInv, NEW p \in Processes, NEW q \in Processes, q # p,
         OwnNext(q) \/ PanelNext(q)
  PROVE  copy'[p] = copy[p] /\ panel'[p] = panel[p]
<1>1. \/ copy' = copy
      \/ \E cards : copy' = [copy EXCEPT ![q] = cards]
  BY DEF OwnNext, Changes, PanelNext, Reload, SelectionLoad, Create, ArchiveCard,
         RestoreCard, PublishArchived, MoveSelected, TransferSelected, Open,
         Choose, Close, SaveMove, SaveReorder, SaveInsert, Show
<1>2. \/ panel' = panel
      \/ \E r : panel' = [panel EXCEPT ![q] = r]
  BY DEF OwnNext, Changes, PanelNext, Reload, SelectionLoad, Create, ArchiveCard,
         RestoreCard, PublishArchived, MoveSelected, TransferSelected, Open,
         Choose, Close, SaveMove, SaveReorder, SaveInsert
<1> QED BY <1>1, <1>2 DEF NativeInv, CopiesTyped, PanelsTyped

\* What a process repeats on its copy after a commit is what loading the board
\* would show, whatever other processes and clients do in between.
THEOREM NativeCopyCurrent == NativeSpec => OwnChangesKeepCopyCurrent
<1>1. NativeInv /\ [NativeNext]_nativeVars
        => [\A p \in Processes :
              copy[p] = BoardOf(row) /\ copy'[p] # BoardOf(row')
                => copy'[p] = copy[p] /\ ~Changes(p) /\ ~PanelNext(p)]_nativeVars
  <2>1. ASSUME NativeInv, [NativeNext]_nativeVars, NEW p \in Processes,
               copy[p] = BoardOf(row), copy'[p] # BoardOf(row')
        PROVE  copy'[p] = copy[p] /\ ~Changes(p) /\ ~PanelNext(p)
    <3>1. ~OwnNext(p) /\ ~PanelNext(p)
      BY <2>1, OwnStepCurrent
    <3>2. copy'[p] = copy[p]
      BY <2>1, <3>1, OthersAlone DEF NativeNext, Elsewhere, nativeVars
    <3> QED BY <3>1, <3>2 DEF OwnNext
  <2> QED BY <2>1
<1> QED BY <1>1, NativeInvariant, PTL DEF NativeSpec, OwnChangesKeepCopyCurrent
-----------------------------------------------------------------------------
(* Cards are shifted only in a column as the user saw it. *)

\* A card placed at the end shifts nothing: only its own version is new.
LEMMA AtEndShiftsNothing ==
  ASSUME NEW c \in Cards, NEW k, PutAtEnd(row', c, k),
         RowsTyped(row), Stored(row[c]), row'[c].version = row[c].version + 1,
         NEW j
  PROVE  Shifted(j) = {}
<1>1. \A d \in Cards : d # c => row'[d] = row[d]
  BY DEF PutAtEnd
<1>2. row'[c].version # row[c].version
  BY StoredRow
<1> QED BY <1>1, <1>2 DEF Shifted, CardsIn

\* The captured entries are those of a copy that has the stored places.
LEMMA CapturedPlaces ==
  ASSUME NEW s, NEW w, Places(s) = Places(w)
  PROVE  PlacesOf(ToSet(s)) = ToSet(Places(w))
<1>1. PlacesOf(ToSet(s)) = {<<s[i].card, s[i].pos>> : i \in DOMAIN s}
  BY DEF PlacesOf, ToSet
<1>2. ToSet(Places(s)) = {<<s[i].card, s[i].pos>> : i \in DOMAIN s}
  BY DEF Places, ToSet
<1> QED BY <1>1, <1>2

LEMMA ReorderShows ==
  ASSUME NativeInv, NEW p \in Processes, NEW t \in PlaceNumbers,
         SaveReorder(p, t), NEW j \in Columns, Shifted(j) # {}
  PROVE  /\ PlacesOf(Captured(p, j)) = ToSet(Places(ColumnOf(row, j)))
         /\ Places(copy'[p][j]) = Places(ColumnOf(row', j))
<1> DEFINE c == panel[p].card
           k == panel[p].column
           s == copy[p][k]
           n == Len(s)
<1>1. PICK u : /\ k \in Columns /\ Placeable(k, u, n, {c})
               /\ Places(s) = Places(ColumnOf(row, k))
               /\ row' = PlacedAs(k, u, {c})
               /\ \E i \in 1 .. n : u[i].card = c
               /\ \A i \in 1 .. n : u[i].card \in CardsIn(row, k)
               /\ IsCurrent(s, panel[p].order)
               /\ Show(p, [copy[p] EXCEPT ![k] = Renumbered(u)])
  BY SaveReorderIs
<1>2. RowsTyped(row) /\ RowsDistinct(row)
  BY DEF NativeInv
<1>3. Brings(u, n, c, k)
  BY <1>1 DEF Brings
<1>4. copy'[p] = [copy[p] EXCEPT ![k] = Renumbered(u)]
  BY <1>1 DEF Show, NativeInv, CopiesTyped
<1>5. copy'[p][k] = Renumbered(u)
  BY <1>1, <1>4 DEF NativeInv, CopiesTyped
<1>6. Captured(p, k) = ToSet(s)
  BY <1>1 DEF Captured, IsCurrent
<1>7. PlacesOf(ToSet(s)) = ToSet(Places(ColumnOf(row, k)))
  BY <1>1, CapturedPlaces
<1> HIDE DEF s, n, k, c
<1>8. j = k
  <2> SUFFICES ASSUME j # k PROVE FALSE
    OBVIOUS
  <2>1. \A d \in CardsIn(row', j) : row'[d] = row[d]
    BY <1>1, <1>2, <1>3, PlacedOthers
  <2> QED BY <2>1 DEF Shifted
<1>9. Places(Renumbered(u)) = Places(ColumnOf(row', k))
  BY <1>1, <1>2, PlacedReads
<1> QED BY <1>5, <1>6, <1>7, <1>8, <1>9

LEMMA InsertShows ==
  ASSUME NativeInv, NEW p \in Processes, NEW t \in PlaceNumbers,
         SaveInsert(p, t), NEW j \in Columns, Shifted(j) # {}
  PROVE  /\ PlacesOf(Captured(p, j)) = ToSet(Places(ColumnOf(row, j)))
         /\ Places(copy'[p][j]) = Places(ColumnOf(row', j))
<1> DEFINE c == panel[p].card
           from == panel[p].column
           k == panel[p].target
           s == copy[p][from]
           w == copy[p][k]
           e == s[PlaceIn(s, c)]
           n == Len(w) + 1
<1>1. PICK u :
        /\ k \in Columns /\ k # from /\ Places(w) = Places(ColumnOf(row, k))
        /\ Placeable(k, u, n, {c}) /\ InsertedInto(u, w, e, k) /\ e.card = c
        /\ IsCurrent(w, panel[p].targetOrder)
        /\ row' = PlacedAs(k, u, {c})
        /\ Show(p, [copy[p] EXCEPT ![from] = Without(s, c),
                                   ![k] = Renumbered(u)])
  BY SaveInsertIs
<1>2. RowsTyped(row) /\ RowsDistinct(row)
  BY DEF NativeInv
<1>3. Brings(u, n, c, k)
  <2> HIDE DEF w, e, c
  <2> QED BY <1>1 DEF Brings, InsertedInto
<1>4. copy'[p] = [copy[p] EXCEPT ![from] = Without(s, c), ![k] = Renumbered(u)]
  BY <1>1 DEF Show, NativeInv, CopiesTyped
<1>5. copy'[p][k] = Renumbered(u)
  BY <1>1, <1>4 DEF NativeInv, CopiesTyped
<1>6. Captured(p, k) = ToSet(w)
  BY <1>1 DEF Captured, IsCurrent
<1>7. PlacesOf(ToSet(w)) = ToSet(Places(ColumnOf(row, k)))
  BY <1>1, CapturedPlaces
<1> HIDE DEF s, w, n, k, c, e, from
<1>8. j = k
  <2> SUFFICES ASSUME j # k PROVE FALSE
    OBVIOUS
  <2>1. \A d \in CardsIn(row', j) : row'[d] = row[d]
    BY <1>1, <1>2, <1>3, PlacedOthers
  <2> QED BY <2>1 DEF Shifted
<1>9. Places(Renumbered(u)) = Places(ColumnOf(row', k))
  BY <1>1, <1>2, PlacedReads
<1> QED BY <1>5, <1>6, <1>7, <1>8, <1>9

LEMMA ShownStep ==
  ASSUME NativeInv, [NativeNext]_nativeVars, NEW p \in Processes,
         NEW k \in Columns, panel[p] # NoPanel, panel'[p] = NoPanel,
         Shifted(k) # {}
  PROVE  /\ PlacesOf(Captured(p, k)) = ToSet(Places(ColumnOf(row, k)))
         /\ Places(copy'[p][k]) = Places(ColumnOf(row', k))
<1>1. panel' # panel
  OBVIOUS
<1>2. row' # row
  BY DEF Shifted
<1>3. PICK q \in Processes : OwnNext(q) \/ PanelNext(q)
  BY <1>1 DEF NativeNext, nativeVars, Elsewhere
<1>4. q = p
  BY <1>3, OthersAlone
<1>5. ~OwnNext(p)
  BY <1>1, <1>2 DEF OwnNext, Changes, Reload, SelectionLoad, Create, ArchiveCard,
     RestoreCard, PublishArchived, MoveSelected, TransferSelected
<1>6. ~SaveMove(p)
  <2> SUFFICES ASSUME SaveMove(p) PROVE FALSE
    OBVIOUS
  <2> DEFINE c == panel[p].card
             j == panel[p].target
  <2>1. /\ c \in Cards /\ PutAtEnd(row', c, j)
        /\ row'[c].version = row[c].version + 1
    BY SaveMoveIs
  <2>2. Stored(row[c])
    BY DEF SaveMove, Ready, Movable, Mutable
  <2> HIDE DEF c, j
  <2>3. Shifted(k) = {}
    BY <2>1, <2>2, AtEndShiftsNothing DEF NativeInv
  <2> QED BY <2>3
<1>7. \E t \in PlaceNumbers : SaveReorder(p, t) \/ SaveInsert(p, t)
  BY <1>2, <1>3, <1>4, <1>5, <1>6 DEF PanelNext, Open, Choose, Close
<1> QED BY <1>7, ReorderShows, InsertShows

\* A form or a drag never shifts cards of a column in another order than its
\* user saw when it was opened, and shows the column as it is stored afterwards.
THEOREM NativeSavesWhatWasShown == NativeSpec => SavesWhatWasShown
<1>1. NativeInv /\ [NativeNext]_nativeVars
        => [\A p \in Processes, k \in Columns :
              panel[p] # NoPanel /\ panel'[p] = NoPanel /\ Shifted(k) # {}
                => /\ PlacesOf(Captured(p, k)) = ToSet(Places(ColumnOf(row, k)))
                   /\ Places(copy'[p][k])
                        = Places(ColumnOf(row', k))]_nativeVars
  BY ShownStep
<1> QED BY <1>1, NativeInvariant, PTL DEF NativeSpec, SavesWhatWasShown
=============================================================================

---------------------------- MODULE HttpRequests ----------------------------
(***************************************************************************)
(* Requests that change a board: the forms of the HTTP service, its single *)
(* listener, the desktop clients that write to the same database, and the  *)
(* identities (actor, route, operation, request version) that SQLite keeps *)
(* so that no request is applied twice.                                    *)
(*                                                                         *)
(* The listener serves one connection at a time, so serving a POST is one  *)
(* action.  It numbers the plain forms itself (next_request_version); an   *)
(* enhanced client numbers its own.  The domain adapter refuses numbers    *)
(* not above the last one it let through, SQLite those it has committed    *)
(* for the scope.  What a request does to the rows, and whether the rows   *)
(* still have the versions it names, is the matter of BoardStore: here a   *)
(* transaction commits, commits without a change, or is refused.           *)
(*                                                                         *)
(* A definition named Wrong... is a mistake the code could have made; the  *)
(* manifest pairs it with the property that tells it from the real one.    *)
(***************************************************************************)
EXTENDS Naturals, FiniteSets

CONSTANTS
  Forms,       \* identities of rendered forms, one CSRF token each
  Sessions,    \* identities of sessions
  Scopes,      \* actor, route and operation: what a version is unique in
  SessionOf,   \* the session a form is rendered for
  ScopeOf,     \* the scope a form is rendered for
  Clients,     \* desktop processes
  ClientScope, \* the scope a desktop process writes in
  Slots,       \* WENA_SECURITY_MAX_CSRF
  SessionSlots, \* WENA_SECURITY_MAX_SESSIONS
  VersionMax,  \* bound of this model on request versions
  MayLose,     \* whether an answer can fail to reach the client
  MayStop      \* whether the service can be stopped and started again

ASSUME HttpRequestsAssumption ==
  /\ VersionMax \in Nat \ {0}
  /\ Slots \in Nat /\ SessionSlots \in Nat
  /\ SessionOf \in [Forms -> Sessions]
  /\ ScopeOf \in [Forms -> Scopes]
  /\ ClientScope \in [Clients -> Scopes]
  /\ MayLose \in BOOLEAN /\ MayStop \in BOOLEAN

VARIABLES
  up,       \* whether the listener is open
  next,     \* WenaHttpListener.next_request_version
  last,     \* WenaDomainAdapter.last_request_version
  session,  \* of every session: none, live or ended
  form,     \* of every form: none, fresh or spent
  keys,     \* the rows of idempotency_keys
  picked,   \* the version a desktop process read for its request, 0 for none
  commits,  \* history: how often a scope and version changed the board
  applied,  \* history: how often a form changed the board
  hint,     \* of every form: what the page script made of it
  calm      \* history: no answer was lost, the service was started once, and
            \* no desktop process changed anything in the scope of a form

server == <<up, next, last>>
store == <<keys, commits>>
vars ==
  <<up, next, last, session, form, keys, picked, commits, applied, hint, calm>>

Versions == 1 .. VersionMax
FormScopes == {ScopeOf[f] : f \in Forms}

TypeOK ==
  /\ up \in BOOLEAN /\ next \in 1 .. VersionMax + 1 /\ last \in 0 .. VersionMax
  /\ session \in [Sessions -> {"none", "live", "ended"}]
  /\ form \in [Forms -> {"none", "fresh", "spent"}]
  /\ keys \subseteq Scopes \X Versions
  /\ picked \in [Clients -> 0 .. VersionMax]
  /\ commits \in [Scopes \X Versions -> Nat]
  /\ applied \in [Forms -> Nat]
  /\ hint \in [Forms -> {"none", "shown", "restored"}]
  /\ calm \in BOOLEAN

Init ==
  /\ up = FALSE /\ next = 1 /\ last = 0
  /\ session = [s \in Sessions |-> "none"]
  /\ form = [f \in Forms |-> "none"]
  /\ keys = {} /\ commits = [k \in Scopes \X Versions |-> 0]
  /\ picked = [c \in Clients |-> 0]
  /\ applied = [f \in Forms |-> 0]
  /\ hint = [f \in Forms |-> "none"]
  /\ calm = TRUE
-----------------------------------------------------------------------------
(* Sessions and forms. *)

Live == {s \in Sessions : session[s] = "live"}
Fresh == {f \in Forms : form[f] = "fresh"}

Login(s) ==
  /\ session[s] = "none" /\ Cardinality(Live) < SessionSlots
  /\ session' = [session EXCEPT ![s] = "live"]
  /\ UNCHANGED <<server, form, store, picked, applied, hint, calm>>

\* The session is revoked or expires.
EndSession(s) ==
  /\ session[s] = "live"
  /\ session' = [session EXCEPT ![s] = "ended"]
  /\ UNCHANGED <<server, form, store, picked, applied, hint, calm>>

\* A page with the form is rendered: used and expired tokens give up their
\* slots, those of ended sessions do not.
Issue(f) ==
  /\ form[f] = "none" /\ SessionOf[f] \in Live
  /\ Cardinality(Fresh) < Slots
  /\ form' = [form EXCEPT ![f] = "fresh"]
  /\ hint' = [hint EXCEPT ![f] = "shown"]
  /\ UNCHANGED <<server, session, store, picked, applied, calm>>

Expire(f) ==
  /\ form[f] = "fresh"
  /\ form' = [form EXCEPT ![f] = "spent"]
  /\ UNCHANGED <<server, session, store, picked, applied, hint, calm>>

Usable(f) == form[f] = "fresh" /\ SessionOf[f] \in Live

WrongConsumed(f) == form
\* The token is used up by the first POST of its live session, whatever comes
\* of the request.
Consumed(f) ==
  IF SessionOf[f] \in Live THEN [form EXCEPT ![f] = "spent"] ELSE form
-----------------------------------------------------------------------------
(* The transaction. *)

WrongUnseen(s, v) == TRUE
\* No committed request has this identity.
Unseen(s, v) == <<s, v>> \notin keys

\* A change commits together with its identity, and a transaction that finds
\* nothing to change commits without one.
Change(s, v) ==
  /\ Unseen(s, v)
  /\ keys' = keys \cup {<<s, v>>}
  /\ commits' = [commits EXCEPT ![<<s, v>>] = @ + 1]
NoChange(s, v) == Unseen(s, v) /\ UNCHANGED store
-----------------------------------------------------------------------------
(* Serving a POST. *)

\* Every check of the form and of the request's number has passed.
Dispatched(f, v) ==
  /\ Usable(f) /\ v > last
  /\ last' = v
  /\ form' = Consumed(f)
  /\ \/ Change(ScopeOf[f], v) /\ applied' = [applied EXCEPT ![f] = @ + 1]
     \/ NoChange(ScopeOf[f], v) /\ UNCHANGED applied

\* 403, 409 or 503: some check failed, or the store refused the rows' versions.
\* A request that is malformed, not acceptable (406) or of another origin is
\* answered before the token is looked at, and changes nothing.
Refused(f) ==
  /\ form' = Consumed(f)
  /\ UNCHANGED <<server, store, applied, calm>>

Posted(f) == up /\ form[f] # "none" /\ UNCHANGED <<up, session, picked, hint>>

\* A plain form.  Its number is used up only when the redirect was sent; send
\* may fail (or SIGPIPE, which nothing handles, end the process: see Crash).
WrongNextAfter(v, sent) == v
BadNextAfter(v, sent) == v + 2
NextAfter(v, sent) == IF sent THEN v + 1 ELSE v

PlainPost(f) ==
  /\ Posted(f)
  /\ \/ Refused(f)
     \/ /\ next \in Versions /\ Dispatched(f, next)
        /\ \E sent \in {TRUE, ~MayLose} :
             next' = NextAfter(next, sent) /\ calm' = (calm /\ sent)

\* An enhanced client that sends the content type of a plain form.
EnhancedPost(f, v) ==
  /\ Posted(f)
  /\ \/ Refused(f)
     \/ /\ Dispatched(f, v)
        /\ next' = IF v >= next THEN v + 1 ELSE next
        /\ UNCHANGED calm

\* The page script adds a charset to the content type, which the router does
\* not accept: it rejects the POST before it looks at the token.  The script
\* then shows the plain form again.
ScriptPost(f) ==
  /\ up /\ form[f] # "none" /\ hint[f] = "shown"
  /\ hint' = [hint EXCEPT ![f] = "restored"]
  /\ UNCHANGED <<server, session, form, store, picked, applied, calm>>
-----------------------------------------------------------------------------
(* The service. *)

Start ==
  /\ ~up
  /\ up' = TRUE /\ next' = 1 /\ last' = 0
  /\ UNCHANGED <<session, form, store, picked, applied, hint, calm>>

\* The security store belongs to the caller and outlives the service.
Stop ==
  /\ up /\ MayStop
  /\ up' = FALSE /\ next' = 1 /\ calm' = FALSE
  /\ UNCHANGED <<last, session, form, store, picked, applied, hint>>

\* The end of the process takes the sessions and the tokens along.
Crash ==
  /\ MayStop
  /\ up' = FALSE /\ next' = 1 /\ calm' = FALSE
  /\ session' = [s \in Sessions |-> IF session[s] = "live" THEN "ended" ELSE session[s]]
  /\ form' = [f \in Forms |-> IF form[f] = "fresh" THEN "spent" ELSE form[f]]
  /\ UNCHANGED <<last, store, picked, applied, hint>>
-----------------------------------------------------------------------------
(* A desktop process: it reads the largest committed version of its scope,  *)
(* and later asks for the next one.                                         *)

Seen(s) == {v \in Versions : <<s, v>> \in keys}

Pick(c) ==
  /\ picked[c] = 0
  /\ \E v \in Versions :
       /\ \A w \in Seen(ClientScope[c]) : w < v
       /\ v = 1 \/ v - 1 \in Seen(ClientScope[c])
       /\ picked' = [picked EXCEPT ![c] = v]
  /\ UNCHANGED <<server, session, form, store, applied, hint, calm>>

Save(c) ==
  /\ picked[c] # 0
  /\ \/ /\ Change(ClientScope[c], picked[c])
        /\ calm' = (calm /\ ClientScope[c] \notin FormScopes)
     \/ UNCHANGED <<store, calm>>     \* refused, or nothing to change
  /\ picked' = [picked EXCEPT ![c] = 0]
  /\ UNCHANGED <<server, session, form, applied, hint>>
-----------------------------------------------------------------------------
Next ==
  \/ \E s \in Sessions : Login(s) \/ EndSession(s)
  \/ \E f \in Forms :
       \/ Issue(f) \/ Expire(f) \/ PlainPost(f) \/ ScriptPost(f)
       \/ \E v \in Versions : EnhancedPost(f, v)
  \/ \E c \in Clients : Pick(c) \/ Save(c)
  \/ Start \/ Stop \/ Crash

Spec == Init /\ [][Next]_vars
-----------------------------------------------------------------------------
\* A form changes the board at most once, however often it is posted: after a
\* lost answer, by a second click, as a plain and as an enhanced request, and
\* across restarts of the service.
FormsApplyOnce == \A f \in Forms : applied[f] <= 1

\* No two changes of a scope have the same version, whether the service and
\* desktop processes that read the same largest version made them, and though
\* the service counts from 1 again after every start.
VersionsNameOneChange == \A k \in Scopes \X Versions : commits[k] <= 1

\* What a user or a process asked for once is done once.
ChangesHappenOnce == FormsApplyOnce /\ VersionsNameOneChange

\* The service's own bookkeeping refuses no plain form: whatever happened
\* before, "Ordinary navigation and POST/303 remain available"
\* (docs/progressive-enhancement.md:44-45).
PlainPostsRemainAvailable ==
  up /\ next \in Versions => next > last /\ \A s \in FormScopes : Unseen(s, next)

\* That much holds as long as nothing disturbs the service, in whatever order
\* plain and enhanced forms of several sessions are posted.
PlainPostsAvailableIfCalm == calm => PlainPostsRemainAvailable
=============================================================================

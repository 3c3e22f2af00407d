--------------------------- MODULE MCHttpRequests ---------------------------
(* Instances of HttpRequests for TLC: forms of two sessions and two scopes *)
(* or of one, and desktop processes that write in the scope of the first.   *)
EXTENDS HttpRequests, TLC

CONSTANTS f1, f2, f3, s1, s2, a, b

TwoSessions == f1 :> s1 @@ f2 :> s1 @@ f3 :> s2
TwoScopes == f1 :> a @@ f2 :> a @@ f3 :> b
OneSession == [f \in Forms |-> s1]
OneScope == [f \in Forms |-> a]
TheClients == [c \in Clients |-> a]
=============================================================================

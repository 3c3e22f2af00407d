------------------------------ MODULE WipLimit ------------------------------
(***************************************************************************)
(* The work-in-progress rule of models/wip_limit.c: what a list limit says *)
(* about a number of active cards, and how its editor changes the limit.   *)
(* Pure operators; no state.                                               *)
(***************************************************************************)
EXTENDS Naturals

CONSTANT EditorMax      \* the largest value the editor accepts (99 in the code)

ASSUME EditorMaxAssumption == EditorMax \in Nat \ {0}

WipLimits == [value : Nat \ {0}, enabled : BOOLEAN, soft : BOOLEAN]

\* Stored rows are optional: a list without one has this limit.
DefaultLimit == [value |-> 1, enabled |-> FALSE, soft |-> FALSE]

Exceeded(limit, count) == limit.enabled /\ count > limit.value

\* A mistake the code could have made: the count before the change decides.
WrongWipAllowed(limit, current, removed, added) ==
  ~Exceeded(limit, current) \/ limit.soft

(***************************************************************************)
(* A change of a list that holds current cards: removed leave, added come. *)
(* A change that does not increase the count is always allowed, so that a  *)
(* list over its limit cannot trap its cards.                              *)
(***************************************************************************)
WipAllowed(limit, current, removed, added) ==
  LET projected == (current - removed) + added
  IN  \/ ~Exceeded(limit, projected)
      \/ limit.soft
      \/ projected <= current

\* Raises a value that is smaller than the present count to the count.
Raised(limit, current) ==
  IF limit.value < current THEN [limit EXCEPT !.value = current] ELSE limit

CanApplyValue(limit, value, current) ==
  /\ value \in 1 .. EditorMax
  /\ limit.soft \/ value >= current

ApplyValue(limit, value) == [limit EXCEPT !.value = value]

ToggleEnabled(limit, current) ==
  IF limit.enabled
  THEN [limit EXCEPT !.enabled = FALSE]
  ELSE Raised([limit EXCEPT !.enabled = TRUE], current)

\* A mistake the code could have made: the value stays below the count.
WrongToggleSoft(limit, current) == [limit EXCEPT !.soft = ~@]

ToggleSoft(limit, current) ==
  IF limit.soft
  THEN Raised([limit EXCEPT !.soft = FALSE], current)
  ELSE [limit EXCEPT !.soft = TRUE]

\* The limits one accepted edit of a list with current active cards can store.
EditedLimits(limit, current) ==
       {ToggleEnabled(limit, current), ToggleSoft(limit, current)}
  \cup {ApplyValue(limit, v) :
           v \in {w \in 1 .. EditorMax : CanApplyValue(limit, w, current)}}
=============================================================================

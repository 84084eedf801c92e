----------------------------- MODULE DurableSet -----------------------------
(***************************************************************************)
(* What a store of records promises its callers: a set that only a caller  *)
(* who asked changes, one record at a time, and that a restart brings back *)
(* as it was: a change in flight has landed by then or never does.         *)
(***************************************************************************)
CONSTANTS Callers, Elements, None

VARIABLES
  held,    \* the records
  asked    \* the record each caller is adding or dropping, or None

Toggled(e) == IF e \in held THEN held \ {e} ELSE held \cup {e}

Init == held = {} /\ asked = [c \in Callers |-> None]

Begin(c) ==
  /\ asked[c] = None
  /\ \E e \in Elements : asked' = [asked EXCEPT ![c] = e]
  /\ UNCHANGED held

\* The change lands; the caller may have a second one to make.
Land(c) ==
  /\ asked[c] # None
  /\ held' = Toggled(asked[c])
  /\ \E next \in {None, asked[c]} : asked' = [asked EXCEPT ![c] = next]

GiveUp(c) ==
  /\ asked[c] # None
  /\ asked' = [asked EXCEPT ![c] = None]
  /\ UNCHANGED held

Restart == asked' = [c \in Callers |-> None] /\ UNCHANGED held

Next == Restart \/ \E c \in Callers : Begin(c) \/ Land(c) \/ GiveUp(c)

Spec == Init /\ [][Next]_<<held, asked>>
=============================================================================

----------------------------- MODULE FwRegistry -----------------------------
(***************************************************************************)
(* What the import registry promises: a map from the two names of an       *)
(* import to the host function registered for them last.                   *)
(***************************************************************************)
CONSTANTS
    Names,             \* the names somebody registers a function for
    Hosts, NoHost

VARIABLES
    map,               \* the host function of each pair of names
    answer             \* the last lookup: the names, and what was found

registryVars == <<map, answer>>

Nothing == [n \in Names |-> NoHost]

Init == map = Nothing /\ answer = << >>

\* "must be duplicate" is not refused: the newest registration counts.
Register(n, h) == map' = [map EXCEPT ![n] = h] /\ UNCHANGED answer

Lookup(n) == IF n \in Names THEN map[n] ELSE NoHost

\* Any names may be asked for: the answer says which.
Resolve ==
    /\ answer' # << >>
    /\ answer' = <<answer'[1], Lookup(answer'[1])>>
    /\ UNCHANGED map

Clear == map' = Nothing /\ UNCHANGED answer

Next == \/ \E n \in Names, h \in Hosts : Register(n, h)
        \/ Resolve
        \/ Clear

Spec == Init /\ [][Next]_registryVars

=============================================================================

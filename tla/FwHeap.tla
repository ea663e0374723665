------------------------------- MODULE FwHeap -------------------------------
(***************************************************************************)
(* The process that loads, compiles and runs one module: where it stands,  *)
(* and the objects fw_malloc and fw_calloc have given it.                  *)
(*                                                                         *)
(* An object is named for what it is and for the place in the file that    *)
(* made the process allocate it.  A pointer is such a name, Null, or Wild: *)
(* the contents of memory nobody has written.                              *)
(***************************************************************************)
EXTENDS Integers, Sequences, FiniteSets, SequencesExt

VARIABLES
    pc,                \* where the process stands, or how it was lost
    live,              \* the objects that are allocated
    fails              \* a bound: the allocations that may still fail

Obj(what, i, j) == <<what, i, j>>

Null == Obj("NULL", 0, 0)
Wild == Obj("wild", 0, 0)

(* "crash": NULL was dereferenced.  "bad": memory that is not the          *)
(* process's own, or not what it takes it for, was freed, read or written. *)
(* Nothing is modelled behind either.                                      *)
LostStates == {"crash", "bad"}

\* What fw_malloc may answer for an object.
Answer(o) == {o, Null}

\* The answers of the calls a step makes.
Mallocs(ptrs) ==
    LET nulls == Cardinality({i \in DOMAIN ptrs : ptrs[i] = Null})
    IN /\ nulls <= fails
       /\ fails' = fails - nulls
       /\ live' = live \cup (Range(ptrs) \ {Null})

\* The pointers may be handed to fw_free one after the other.
Freeable(ptrs) ==
    /\ Range(ptrs) \subseteq live \cup {Null}
    /\ \A i, j \in DOMAIN ptrs : ptrs[i] = ptrs[j] => i = j \/ ptrs[i] = Null

Without(ptrs) == live \ Range(ptrs)

\* Reading an array through `ptr': "" when it is there.
Reads(ptr) == CASE ptr \in live -> ""
                [] ptr = Null   -> "crash"
                [] OTHER        -> "bad"

=============================================================================

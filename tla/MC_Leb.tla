------------------------------- MODULE MC_Leb -------------------------------
(***************************************************************************)
(* FwLeb on four families of buffers:                                      *)
(*   - every string of up to two bytes, followed by every byte that lies   *)
(*     beyond it: fields side by side, strings cut within an encoding;     *)
(*   - single encodings of one to eleven bytes, around the five and ten    *)
(*     that 32 and 64 bits allow, with each interesting last byte;         *)
(*   - encodings of 255 to 257 bytes, around the width of _round.          *)
(***************************************************************************)
EXTENDS FwLeb

Plain == {{}, {0}, {Sign}, 0..6}

Bytes == Plain \cup {p \cup {More} : p \in Plain}

Shorts ==
    {[mem |-> s \o << b >>, last |-> Len(s) + 1, calls |-> 2] :
        s \in UNION {[1..n -> Bytes] : n \in 0..2}, b \in {{}, {0, More}}}

Whole(m) == [mem |-> m, last |-> Len(m) + 1, calls |-> 1]

LastBytes == {{}, {0}, {3}, {4}, {Sign}, {3, Sign}, 0..3, 0..6}

Long(n, payload, b) == [i \in 1..n |-> IF i = n THEN b ELSE payload \cup {More}]

Singles == {Whole(Long(n, p, b)) : n \in 1..11, p \in {{}, {3}, 0..6}, b \in LastBytes}

Wrapping == {Whole(Long(n, p, b)) : n \in 255..257, p \in {{}, {0}}, b \in {{}, {0}}}

MCBuffers == Shorts \cup Singles \cup Wrapping

=============================================================================

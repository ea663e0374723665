------------------------------- MODULE FwLeb --------------------------------
(***************************************************************************)
(* The readers of fw_str.h: bytes, words, runs of bytes and LEB128, called *)
(* one after the other on one string, as every section parser and every    *)
(* handler calls them.  One step of a LEB128 reader is one byte.           *)
(*                                                                         *)
(* A byte is the set of its bits that are set, a value the set of its      *)
(* bits: OR is union and `<<' moves the set.  The string is the part       *)
(* [pos, last) of a buffer: a section, or a function body, of the file.    *)
(***************************************************************************)
EXTENDS Integers, Sequences, FiniteSets

CONSTANTS
    Buffers,           \* what may be read: the bytes, the end of the string,
                       \* and, a bound, the calls made on it
    Skips              \* the sizes fw_str_pass is called with

Bits == 0..7
More == 7              \* the bit 0x80 of a byte of LEB128: more bytes follow
Sign == 6              \* the bit 0x40 of the last byte: a negative number

ASSUME BuffersAssumption ==
    \A b \in Buffers : /\ b.mem \in Seq(SUBSET Bits)
                       /\ b.last \in 1..(Len(b.mem) + 1)
                       /\ b.calls \in Nat

ASSUME SkipsAssumption == Skips \subseteq Nat

VARIABLES
    mem,               \* the bytes of the buffer
    last,              \* the first byte beyond the string
    calls,             \* the calls that may still be made
    masks,             \* what the build makes of a shift beyond 31
    pos,               \* the cursor
    call,              \* the LEB128 reader that runs, or "none"
    round, shift, res, \* its _round and _shift, of eight bits, and _res
    state,             \* "reading", or how the reading stopped
    fields             \* history: the fields read, for the properties only

lebVars == <<mem, last, calls, masks, pos, call, round, shift, res, state, fields>>

(* The readers in use.  `const' is getu32 as the run handler of i32.const  *)
(* calls it (fw_instr.c:237), where the format has a signed number.        *)
Signed   == {"s32", "s64"}
Unsigned == {"u8", "u32", "u64", "const"}
Readers  == Signed \cup Unsigned

Width == [u8 |-> 8, u32 |-> 32, u64 |-> 64, const |-> 32, s32 |-> 32, s64 |-> 64]

MaxRound(r) == (Width[r] + 7 - 1) \div 7

Init ==
    /\ \E b \in Buffers : mem = b.mem /\ last = b.last /\ calls = b.calls
    /\ masks \in BOOLEAN
    /\ pos = 1
    /\ call = "none"
    /\ round = 0
    /\ shift = 0
    /\ res = {}
    /\ state = "reading"
    /\ fields = << >>

-----------------------------------------------------------------------------
(***************************************************************************)
(* C arithmetic on bits                                                    *)
(***************************************************************************)
\* Variant: _res has 64 bits in every reader.
StoredLong(int, width) == {b \in 0..63 : b \in int \/ (31 \in int /\ b > 31)}

\* An int, stored in a variable of `width' bits: bit 31 is its sign.
Stored(int, width) ==
    {b \in 0..(width - 1) : b \in int \/ (31 \in int /\ b > 31)}

ShiftedBy(bits, n) == {b + n : b \in bits} \cap 0..31

(* bits << n, an int.  C does not define it for n beyond 31: the processor *)
(* takes n modulo 32, a compiler that folds it answers 0.                  *)
Shift(bits, n) ==
    IF n < 32 THEN ShiftedBy(bits, n)
    ELSE IF masks THEN ShiftedBy(bits, n % 32) ELSE {}

\* - (1 << n), an int: the bits from n up, and 0 when 1 << n is 0.
Negated(one) == {b \in 0..31 : \E n \in one : b >= n}

-----------------------------------------------------------------------------
(***************************************************************************)
(* fw_str_get8, _get32, _pass                                              *)
(***************************************************************************)
Idle ==
    /\ state = "reading" /\ call = "none"
    /\ calls > 0
    /\ calls' = calls - 1

Field(op, from, to, val) == [op |-> op, from |-> from, to |-> to, val |-> val]

Unread == UNCHANGED <<mem, last, masks, call, round, shift, res>>

StrErr == state' = "str_err" /\ UNCHANGED <<pos, fields>>

\* `size' bytes are taken, or none.
Take(op, size, val) ==
    /\ IF pos + size > last
       THEN StrErr
       ELSE /\ pos' = pos + size
            /\ fields' = Append(fields, Field(op, pos, pos + size, val))
            /\ UNCHANGED state
    /\ Unread

Get8 == Idle /\ Take("get8", 1, IF pos < last THEN mem[pos] ELSE {})

Get32 ==
    /\ Idle
    /\ Take("get32", 4, IF pos + 4 > last THEN {}
                        ELSE {b \in 0..31 : b % 8 \in mem[pos + (b \div 8)]})

Pass == Idle /\ \E n \in Skips : Take("pass", n, {})

-----------------------------------------------------------------------------
(***************************************************************************)
(* fw_str_leb_getu, fw_str_leb_gets                                        *)
(***************************************************************************)
Call(r) ==
    /\ Idle
    /\ call' = r
    /\ round' = 0
    /\ shift' = 0
    /\ res' = {}
    /\ UNCHANGED <<mem, last, masks, pos, state, fields>>

\* Variant: the length is tested for every byte but the last.
TooLongByOne(r, n) == n > MaxRound(r) + 1

TooLong(r, n) == n > MaxRound(r)

\* Variant: no sign extension.
SignedPlain(r, byte, val, n) == val

(* gets extends the sign of the last byte in int arithmetic, from _shift,  *)
(* which is beyond that byte by now.                                       *)
SignExtended(r, byte, val, n) ==
    IF r \in Signed /\ Sign \in byte
    THEN val \cup Stored(Negated(Shift({0}, n)), Width[r])
    ELSE val

\* The loop is left: the length is tested, then the cursor moves.
Ends(byte, val, n, sh) ==
    IF TooLong(call, n)
    THEN StrErr
    ELSE /\ pos' = pos + n
         /\ fields' = Append(fields, Field(call, pos, pos + n,
                                          SignExtended(call, byte, val, sh)))
         /\ UNCHANGED state

\* The variables of the macro are gone.
Returns == call' = "none" /\ round' = 0 /\ shift' = 0 /\ res' = {}

\* Variant: no test, the reader trusts its caller.
InBoundsNever == TRUE

\* The end of the string is tested against the cursor, not the byte read.
InBounds == pos < last

\* Variant: the index of the byte wraps at 16.
WrapsAtNibble(n) == n % 16

\* _round and _shift are uint8_t.
Wraps(n) == n % 256

\* Variant: the continuation bit is a bit of the value.
PayloadAll(byte) == byte

Payload(byte) == byte \ {More}

(* One turn of the loop.  A byte beyond the buffer is read all the same;   *)
(* nothing is modelled behind it.                                          *)
ReadByte ==
    /\ state = "reading" /\ call # "none"
    /\ InBounds /\ pos + round <= Len(mem)
    /\ LET byte == mem[pos + round]
           val  == res \cup Stored(Shift(Payload(byte), shift), Width[call])
       IN IF More \in byte
          THEN /\ round' = Wraps(round + 1)
               /\ shift' = Wraps(shift + 7)
               /\ res' = val
               /\ UNCHANGED <<pos, call, state, fields>>
          ELSE /\ Ends(byte, val, Wraps(round + 1), Wraps(shift + 7))
               /\ Returns
    /\ UNCHANGED <<mem, last, calls, masks>>

NoByte ==
    /\ state = "reading" /\ call # "none"
    /\ ~InBounds
    /\ StrErr
    /\ Returns
    /\ UNCHANGED <<mem, last, calls, masks>>

Overread ==
    /\ state = "reading" /\ call # "none"
    /\ InBounds /\ pos + round > Len(mem)
    /\ state' = "overread"
    /\ UNCHANGED <<mem, last, calls, masks, pos, call, round, shift, res, fields>>

Turn == ReadByte \/ NoByte \/ Overread

Next == Get8 \/ Get32 \/ Pass \/ (\E r \in Readers : Call(r)) \/ Turn

(* A reader is a loop of one thread; nobody has to call the next.          *)
Spec == Init /\ [][Next]_lebVars /\ WF_lebVars(Turn)

-----------------------------------------------------------------------------
(***************************************************************************)
(* The integers of the format, by definition                               *)
(***************************************************************************)
\* The bits of the encoding that is the bytes [from, to).
Unsigned128(from, to) ==
    UNION {{b + 7 * (i - from) : b \in mem[i] \ {More}} : i \in from..(to - 1)}

Signed128(from, to, width) ==
    Unsigned128(from, to)
      \cup (IF Sign \in mem[to - 1] THEN (7 * (to - from))..(width - 1) ELSE {})

Size(f) == f.to - f.from

LebFields == {i \in DOMAIN fields : fields[i].op \in Readers}

\* The LEB128 fields that have bytes: _round had not wrapped.
Lebs == {i \in LebFields : Size(fields[i]) > 0}

\* The bytes from `p' on that hold the encoding there, if it ends at all.
Enders(p) == {i \in p..Len(mem) : More \notin mem[i]}

-----------------------------------------------------------------------------
(***************************************************************************)
(* Properties                                                              *)
(***************************************************************************)
(* The counters of a reader stay in step while both wrap, and its value    *)
(* has the width of the reader that runs; between two reads nothing is     *)
(* left of the last one.                                                   *)
TypeOK ==
    /\ mem \in Seq(SUBSET Bits)
    /\ pos \in Nat \ {0}
    /\ call \in Readers \cup {"none"}
    /\ round \in 0..255 /\ shift = Wraps(7 * round)
    /\ res \subseteq (IF call = "none" THEN {} ELSE 0..(Width[call] - 1))
    /\ state \in {"reading", "str_err", "overread"}

(* A value is decoded as it is encoded, whatever the number of its bytes   *)
(* (fw_str_leb_getu): counts, indices, sizes.  getu64 shifts an int: it is *)
(* right below 2^31 only.  getu8 keeps eight bits.                         *)
UnsignedRight ==
    \A i \in Lebs :
        LET f == fields[i]
            v == Unsigned128(f.from, f.to)
        IN /\ f.op \in {"u8", "u32"} => f.val = v \cap 0..(Width[f.op] - 1)
           /\ (f.op = "u64" /\ v \subseteq 0..30) => f.val = v

(* fw_str_leb_gets decodes signed numbers of up to four bytes, and longer  *)
(* ones of 32 bits that are not negative.                                  *)
SignedRight ==
    \A i \in Lebs :
        LET f == fields[i]
            v == Signed128(f.from, f.to, 64) \cap 0..(Width[f.op] - 1)
        IN f.op \in Signed
              /\ (Size(f) <= 4 \/ (f.op = "s32" /\ Sign \notin mem[f.to - 1]))
           => f.val = v

(* "Uninterpreted integers are encoded as signed integers"                 *)
(* (fw_str.h:123), and i32.const is one: its operand is the low 32 bits of *)
(* the signed number.  The code reads it with getu32 (fw_instr.c:237).     *)
ConstAsSigned ==
    \A i \in Lebs :
        LET f == fields[i]
        IN f.op = "const" => f.val = Signed128(f.from, f.to, 64) \cap 0..31

(* The fields of a string lie one behind the other, each LEB128 field is   *)
(* one encoding of at most ceil(N/7) bytes.  Only one of 256 bytes, where  *)
(* _round has wrapped, is accepted too, as a field of no bytes.            *)
FieldsTile ==
    /\ \A i \in DOMAIN fields :
          fields[i].from = IF i = 1 THEN 1 ELSE fields[i - 1].to
    /\ (fields # << >>) => pos = fields[Len(fields)].to
    /\ \A i \in Lebs :
          LET f == fields[i]
          IN /\ f.to - 1 \in Enders(f.from)
             /\ \A j \in Enders(f.from) : f.to - 1 <= j
             /\ Size(f) <= MaxRound(f.op)
    /\ \A i \in LebFields \ Lebs :
          /\ fields[i].from + 255 \in Enders(fields[i].from)
          /\ \A j \in Enders(fields[i].from) : fields[i].from + 255 <= j

(* No byte beyond the string is read but where the string ends within an   *)
(* encoding: every byte from the cursor to its end says that more follow.  *)
(* Then the field that is read may end beyond the string.                  *)
OverreadsTruncatedOnly ==
    LET cut(p) == p < last /\ \A j \in p..(last - 1) : More \in mem[j]
    IN /\ (round > 0 /\ pos + round > last) => cut(pos)
       /\ state = "overread" => cut(pos)
       /\ \A i \in DOMAIN fields : fields[i].to > last => cut(fields[i].from)

(* A reader finishes when its encoding ends within 256 bytes; else _round  *)
(* wraps before the end is seen and it reads the same bytes for ever.      *)
ReadersFinish ==
    (call # "none" /\ \E i \in Enders(pos) : i < pos + 256) ~> (call = "none")

=============================================================================

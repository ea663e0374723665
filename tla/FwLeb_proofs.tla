---------------------------- MODULE FwLeb_proofs ----------------------------
(***************************************************************************)
(* What the readers of fw_str.h do, for every string: the fields they cut, *)
(* the bytes they touch, the values they answer.                           *)
(*                                                                         *)
(* The invariant says where a reader stands: `round' bytes from the cursor *)
(* have been read, and each of them says that more follow.                 *)
(***************************************************************************)
EXTENDS FwLeb, SequenceTheorems, TLAPS

-----------------------------------------------------------------------------
(***************************************************************************)
(* The inductive invariant                                                 *)
(***************************************************************************)
\* A reader was begun within the string, and has seen only bytes with More.
Reading ==
    /\ last \in 1..(Len(mem) + 1)
    /\ call = "none" => round = 0
    /\ round > 0 => pos < last
    /\ \A j \in pos..(pos + round - 1) : j <= Len(mem) /\ More \in mem[j]
    /\ state = "overread" => pos < last /\ pos + round > Len(mem)

Cut(p) == p < last /\ \A j \in p..(last - 1) : More \in mem[j]

\* Where the encoding of a field ends: 256 bytes count as none.
EndOf(f) == IF f.from < f.to THEN f.to - 1 ELSE f.from + 255

FirstEnder(e, p) == e \in Enders(p) /\ \A j \in Enders(p) : e <= j

FieldOK(f) ==
    /\ f.from <= f.to
    /\ f.to > last => Cut(f.from)
    /\ f.op \in Readers => /\ FirstEnder(EndOf(f), f.from)
                           /\ f.to - f.from <= MaxRound(f.op)

FieldSet == [op : {"get8", "get32", "pass"} \cup Readers, from : Nat \ {0}, to : Nat,
             val : SUBSET (0..63)]

Cutting ==
    /\ fields \in Seq(FieldSet)
    /\ \A i \in 1..Len(fields) : FieldOK(fields[i])
    /\ \A i \in 1..Len(fields) :
          fields[i].from = IF i = 1 THEN 1 ELSE fields[i - 1].to
    /\ pos = IF fields = << >> THEN 1 ELSE fields[Len(fields)].to

LebInv == TypeOK /\ Reading /\ Cutting

-----------------------------------------------------------------------------
(***************************************************************************)
(* Arithmetic on bits                                                      *)
(***************************************************************************)
LEMMA WidthType ==
    \A r \in Readers : Width[r] \in {8, 32, 64} /\ MaxRound(r) \in Nat
BY DEF Readers, Signed, Unsigned, Width, MaxRound

LEMMA StoredType ==
    ASSUME NEW int, NEW r \in Readers
    PROVE  Stored(int, Width[r]) \subseteq 0..(Width[r] - 1)
BY WidthType DEF Stored

LEMMA WrapsType ==
    \A n \in 0..255 : Wraps(n + 1) = (IF n = 255 THEN 0 ELSE n + 1)
BY DEF Wraps

LEMMA WrapsRange == \A n \in Nat : Wraps(n) \in 0..255
BY DEF Wraps

LEMMA WidthRange ==
    ASSUME NEW r \in Readers, NEW val, val \subseteq 0..(Width[r] - 1)
    PROVE  val \in SUBSET (0..63)
<1>1. Width[r] \in {8, 32, 64}
  BY WidthType
<1> HIDE DEF Width
<1>2. 0..(Width[r] - 1) \subseteq 0..63
  BY <1>1
<1> QED  BY <1>2

LEMMA SignExtendedType ==
    ASSUME NEW r \in Readers, NEW byte, NEW val \in SUBSET (0..63), NEW n
    PROVE  SignExtended(r, byte, val, n) \in SUBSET (0..63)
<1>1. ASSUME NEW int PROVE Stored(int, Width[r]) \in SUBSET (0..63)
  BY StoredType, WidthRange
<1> QED  BY <1>1 DEF SignExtended

\* The counters step together.
LEMMA ShiftFollows ==
    \A n \in 0..255 : Wraps(Wraps(7 * n) + 7) = Wraps(7 * Wraps(n + 1))
BY DEF Wraps

\* What the type invariant says of a reader that runs.
LEMMA ReaderType ==
    ASSUME TypeOK, call # "none"
    PROVE  /\ call \in Readers /\ round \in 0..255 /\ shift \in 0..255
           /\ res \subseteq 0..(Width[call] - 1) /\ res \subseteq 0..63
           /\ pos \in Nat \ {0}
<1>1. /\ call \in Readers /\ round \in 0..255 /\ shift = Wraps(7 * round)
      /\ res \subseteq 0..(Width[call] - 1) /\ pos \in Nat \ {0}
  BY DEF TypeOK
<1>2. shift \in 0..255
  <2>1. 7 * round \in Nat
    BY <1>1
  <2> QED  BY <1>1, <2>1, WrapsRange
<1> QED  BY <1>1, <1>2, WidthRange

\* Between two reads the counters are 0.
LEMMA IdleType == Wraps(7 * 0) = 0
BY DEF Wraps

-----------------------------------------------------------------------------
(***************************************************************************)
(* One field more                                                          *)
(***************************************************************************)
\* What has been read stays right when a field is added behind it.
LEMMA OneMore ==
    ASSUME Cutting, NEW f \in FieldSet, f.from = pos, FieldOK(f),
           pos' = f.to, fields' = Append(fields, f), mem' = mem, last' = last
    PROVE  Cutting'
<1>1. /\ fields \in Seq(FieldSet)
      /\ Len(fields) \in Nat
  BY LenProperties DEF Cutting
<1>2. /\ fields' \in Seq(FieldSet)
      /\ Len(fields') = Len(fields) + 1
      /\ \A i \in 1..Len(fields) : fields'[i] = fields[i]
      /\ fields'[Len(fields) + 1] = f
  BY <1>1, AppendProperties
<1>3. \A i \in 1..Len(fields') : FieldOK(fields[i])'
  <2> SUFFICES ASSUME NEW i \in 1..Len(fields') PROVE FieldOK(fields[i])'
    OBVIOUS
  <2>1. \E g : fields'[i] = g /\ FieldOK(g)
    BY <1>1, <1>2 DEF Cutting
  <2>2. PICK g : fields'[i] = g /\ FieldOK(g)
    BY <2>1
  <2> QED  BY <2>2 DEF FieldOK, Cut, EndOf, FirstEnder, Enders
<1>4. \A i \in 1..Len(fields') :
         fields'[i].from = IF i = 1 THEN 1 ELSE fields'[i - 1].to
  <2> SUFFICES ASSUME NEW i \in 1..Len(fields')
               PROVE  fields'[i].from = IF i = 1 THEN 1 ELSE fields'[i - 1].to
    OBVIOUS
  <2>1. CASE i = Len(fields) + 1
    <3>1. CASE Len(fields) = 0
      <4>1. fields = << >>
        BY <1>1, <3>1, EmptySeq
      <4> QED  BY <1>2, <2>1, <3>1, <4>1 DEF Cutting
    <3>2. CASE Len(fields) # 0
      <4>1. fields # << >>
        BY <3>2, EmptySeq
      <4>2. Len(fields) \in 1..Len(fields) /\ i - 1 = Len(fields) /\ i # 1
        BY <1>1, <2>1, <3>2
      <4> QED  BY <1>2, <2>1, <4>1, <4>2 DEF Cutting
    <3> QED  BY <3>1, <3>2
  <2>2. CASE i # Len(fields) + 1
    <3>1. i \in 1..Len(fields) /\ (i # 1 => i - 1 \in 1..Len(fields))
      BY <1>1, <1>2, <2>2
    <3> QED  BY <1>2, <3>1 DEF Cutting
  <2> QED  BY <2>1, <2>2
<1>5. fields' # << >> /\ fields'[Len(fields')].to = pos'
  BY <1>1, <1>2, EmptySeq
<1> QED  BY <1>2, <1>3, <1>4, <1>5 DEF Cutting

-----------------------------------------------------------------------------
(***************************************************************************)
(* The invariant, action by action                                         *)
(***************************************************************************)
LEMMA InitLebInv == Init => LebInv
<1> SUFFICES ASSUME Init PROVE LebInv
  OBVIOUS
<1>1. /\ mem \in Seq(SUBSET Bits)
      /\ last \in 1..(Len(mem) + 1)
  BY BuffersAssumption DEF Init
<1>2. TypeOK
  BY <1>1, IdleType DEF Init, TypeOK
<1>3. Reading
  BY <1>1 DEF Init, Reading
<1>4. << >> \in Seq(FieldSet) /\ Len(<< >>) = 0
  BY EmptySeq
<1>5. Cutting
  BY <1>4 DEF Init, Cutting
<1> QED  BY <1>2, <1>3, <1>5 DEF LebInv

\* A step that leaves the string, the cursor and the fields alone.
LEMMA CuttingStays ==
    ASSUME Cutting, UNCHANGED <<mem, last, pos, fields>>
    PROVE  Cutting'
BY DEF Cutting, FieldOK, Cut, EndOf, FirstEnder, Enders

\* fw_str_get8, _get32 and _pass: the bytes are there, or nothing moves.
LEMMA TakeStep ==
    ASSUME LebInv, NEW op \in {"get8", "get32", "pass"}, NEW size \in Nat,
           NEW val \in SUBSET (0..63), state = "reading", call = "none",
           Take(op, size, val)
    PROVE  LebInv'
<1>1. /\ TypeOK /\ Reading /\ Cutting
      /\ pos \in Nat \ {0} /\ round = 0
  BY DEF LebInv, TypeOK, Reading
<1>2. UNCHANGED <<mem, last, call, round, shift, res>>
  BY DEF Take, Unread
<1>3. CASE pos + size > last
  <2>1. state' = "str_err" /\ UNCHANGED <<pos, fields>>
    BY <1>3 DEF Take, StrErr
  <2>2. TypeOK' /\ Reading'
    BY <1>1, <1>2, <2>1 DEF TypeOK, Reading
  <2>3. Cutting'
    BY <1>1, <1>2, <2>1, CuttingStays
  <2> QED  BY <2>2, <2>3 DEF LebInv
<1>4. CASE ~(pos + size > last)
  <2> DEFINE f == Field(op, pos, pos + size, val)
  <2>1. pos' = pos + size /\ fields' = Append(fields, f) /\ state' = state
    BY <1>4 DEF Take
  <2>2. TypeOK' /\ Reading'
    BY <1>1, <1>2, <2>1 DEF TypeOK, Reading
  <2>3. f \in FieldSet /\ f.op = op /\ f.from = pos /\ f.to = pos + size
    BY <1>1 DEF Field, FieldSet
  <2>4. FieldOK(f)
    <3>1. op \notin Readers
      BY DEF Readers, Signed, Unsigned
    <3> QED  BY <1>1, <1>4, <2>3, <3>1 DEF FieldOK, Reading
  <2>5. Cutting'
    <3> HIDE DEF f
    <3> QED  BY <1>1, <1>2, <2>1, <2>3, <2>4, OneMore
  <2> QED  BY <2>2, <2>5 DEF LebInv
<1> QED  BY <1>3, <1>4

LEMMA CallStep ==
    ASSUME LebInv, NEW r \in Readers, Call(r)
    PROVE  LebInv'
<1>1. TypeOK' /\ Reading'
  BY IdleType DEF LebInv, TypeOK, Reading, Call, Idle, Readers, Signed, Unsigned
<1>2. Cutting'
  BY CuttingStays DEF LebInv, Call
<1> QED  BY <1>1, <1>2 DEF LebInv

\* The byte without More is the first one from the cursor on.
LEMMA FirstWithoutMore ==
    ASSUME TypeOK, Reading, pos + round <= Len(mem), More \notin mem[pos + round]
    PROVE  FirstEnder(pos + round, pos)
<1>1. pos \in Nat \ {0} /\ round \in Nat /\ Len(mem) \in Nat
  BY LenProperties DEF TypeOK
<1>2. pos + round \in Enders(pos)
  BY <1>1 DEF Enders
<1>3. ASSUME NEW j \in Enders(pos), j < pos + round PROVE FALSE
  <2>1. j \in pos..(pos + round - 1) /\ More \notin mem[j]
    BY <1>1, <1>3 DEF Enders
  <2> QED  BY <2>1 DEF Reading
<1>4. \A j \in Enders(pos) : j \in Int
  BY <1>1 DEF Enders
<1> QED  BY <1>1, <1>2, <1>3, <1>4 DEF FirstEnder

\* The loop goes on: one byte more is behind the cursor.
LEMMA MoreStep ==
    ASSUME LebInv, ReadByte, More \in mem[pos + round]
    PROVE  LebInv'
<1>1. /\ state = "reading" /\ call # "none"
      /\ pos < last /\ pos + round <= Len(mem)
      /\ round' = Wraps(round + 1)
      /\ shift' = Wraps(shift + 7)
      /\ res' = res \cup Stored(Shift(Payload(mem[pos + round]), shift), Width[call])
      /\ UNCHANGED <<mem, last, pos, call, state, fields>>
  BY DEF ReadByte, InBounds
<1>2. /\ call \in Readers /\ round \in 0..255 /\ shift \in 0..255
      /\ res \subseteq 0..(Width[call] - 1) /\ pos \in Nat \ {0}
      /\ shift = Wraps(7 * round)
  BY <1>1, ReaderType DEF LebInv, TypeOK
<1>3. /\ round' \in 0..255 /\ shift' = Wraps(7 * round')
      /\ round' = (IF round = 255 THEN 0 ELSE round + 1)
  <2>1. Wraps(round + 1) \in 0..255
    <3>1. round + 1 \in Nat
      BY <1>2
    <3> QED  BY <3>1, WrapsRange
  <2>2. Wraps(round + 1) = (IF round = 255 THEN 0 ELSE round + 1)
    BY <1>2, WrapsType
  <2>3. round' = Wraps(round + 1) /\ shift' = Wraps(shift + 7)
    BY <1>1
  <2>4. Wraps(shift + 7) = Wraps(7 * Wraps(round + 1))
    BY <1>2, ShiftFollows
  <2> QED  BY <2>1, <2>2, <2>3, <2>4
<1>4. TypeOK'
  <2>1. res' \subseteq 0..(Width[call] - 1)
    BY <1>1, <1>2, StoredType
  <2> QED  BY <1>1, <1>3, <2>1 DEF LebInv, TypeOK
<1>5. Reading'
  <2>1. \A j \in pos..(pos + round' - 1) : j <= Len(mem) /\ More \in mem[j]
    <3>1. \A j \in pos..(pos + round' - 1) : j \in pos..(pos + round - 1) \/ j = pos + round
      BY <1>2, <1>3
    <3> QED  BY <1>1, <3>1 DEF LebInv, Reading
  <2> QED  BY <1>1, <1>2, <1>3, <2>1 DEF LebInv, Reading
<1>6. Cutting'
  BY <1>1, CuttingStays DEF LebInv
<1> QED  BY <1>4, <1>5, <1>6 DEF LebInv

\* The loop is left: the field ends with the byte, or it is too long.
LEMMA LastByteStep ==
    ASSUME LebInv, ReadByte, More \notin mem[pos + round]
    PROVE  LebInv'
<1> DEFINE n  == Wraps(round + 1)
           sh == Wraps(shift + 7)
           byte == mem[pos + round]
           val == res \cup Stored(Shift(Payload(byte), shift), Width[call])
           v  == SignExtended(call, byte, val, sh)
           f  == Field(call, pos, pos + n, v)
<1>1. /\ state = "reading" /\ call # "none"
      /\ pos < last /\ pos + round <= Len(mem)
      /\ Ends(byte, val, n, sh)
      /\ call' = "none" /\ round' = 0 /\ shift' = 0 /\ res' = {}
      /\ UNCHANGED <<mem, last>>
  BY DEF ReadByte, InBounds, Returns
<1>2. /\ call \in Readers /\ round \in 0..255 /\ shift \in 0..255
      /\ res \subseteq 0..63 /\ pos \in Nat \ {0} /\ Len(mem) \in Nat
      /\ last \in 1..(Len(mem) + 1)
      /\ TypeOK /\ Reading /\ Cutting
  BY <1>1, ReaderType, LenProperties DEF LebInv, TypeOK, Reading
<1>3. n \in 0..255 /\ n = (IF round = 255 THEN 0 ELSE round + 1)
  <2>1. round + 1 \in Nat
    <3>1. round \in 0..255
      BY <1>2
    <3> HIDE DEF n, sh, byte, val, v, f
    <3> QED  BY <3>1
  <2>2. n \in 0..255
    BY <2>1, WrapsRange
  <2>3. n = (IF round = 255 THEN 0 ELSE round + 1)
    BY <1>2, WrapsType
  <2> QED  BY <2>2, <2>3
<1>4. v \in SUBSET (0..63)
  <2>1. val \in SUBSET (0..63)
    BY <1>2, StoredType, WidthRange
  <2> HIDE DEF val, byte, sh
  <2> QED  BY <1>2, <2>1, SignExtendedType
<1> HIDE DEF n, v, sh
<1>5. CASE TooLong(call, n)
  <2>1. state' = "str_err" /\ UNCHANGED <<pos, fields>>
    BY <1>1, <1>5 DEF Ends, StrErr
  <2>2. TypeOK' /\ Reading'
    BY <1>1, <1>2, <2>1, IdleType DEF TypeOK, Reading
  <2>3. Cutting'
    BY <1>1, <1>2, <2>1, CuttingStays
  <2> QED  BY <2>2, <2>3 DEF LebInv
<1>6. CASE ~TooLong(call, n)
  <2>1. pos' = pos + n /\ fields' = Append(fields, f) /\ state' = state
    BY <1>1, <1>6 DEF Ends, v
  <2>2. TypeOK' /\ Reading'
    BY <1>1, <1>2, <1>3, <2>1, IdleType DEF TypeOK, Reading
  <2>3. f \in FieldSet /\ f.op = call /\ f.from = pos /\ f.to = pos + n
    BY <1>2, <1>3, <1>4 DEF Field, FieldSet
  <2>4. FieldOK(f)
    <3>1. EndOf(f) = pos + round
      BY <1>2, <1>3, <2>3 DEF EndOf
    <3>2. FirstEnder(pos + round, pos)
      BY <1>1, <1>2, FirstWithoutMore
    <3>3. f.to - f.from <= MaxRound(f.op)
      BY <1>2, <1>3, <1>6, <2>3, WidthType DEF TooLong
    <3>4. f.to > last => Cut(pos)
      <4> SUFFICES ASSUME pos + n > last PROVE Cut(pos)
        BY <2>3
      <4>1. \A j \in pos..(last - 1) : j \in pos..(pos + round - 1)
        BY <1>2, <1>3
      <4> QED  BY <1>1, <1>2, <4>1 DEF Cut, Reading
    <3> QED  BY <1>2, <1>3, <2>3, <3>1, <3>2, <3>3, <3>4 DEF FieldOK
  <2>5. Cutting'
    <3> HIDE DEF f
    <3> QED  BY <1>1, <1>2, <2>1, <2>3, <2>4, OneMore
  <2> QED  BY <2>2, <2>5 DEF LebInv
<1> QED  BY <1>5, <1>6

LEMMA StepLebInv == LebInv /\ [Next]_lebVars => LebInv'
<1> SUFFICES ASSUME LebInv, [Next]_lebVars PROVE LebInv'
  OBVIOUS
<1>1. CASE Get8
  <2> DEFINE val == IF pos < last THEN mem[pos] ELSE {}
  <2>1. val \in SUBSET (0..63)
    <3>1. pos < last => pos \in 1..Len(mem) /\ mem[pos] \in SUBSET Bits
      BY LenProperties, ElementOfSeq DEF LebInv, TypeOK, Reading
    <3> QED  BY <3>1 DEF Bits
  <2>2. Idle /\ Take("get8", 1, val)
    BY <1>1 DEF Get8
  <2> HIDE DEF val
  <2> QED  BY <2>1, <2>2, TakeStep DEF Idle
<1>2. CASE Get32
  <2> DEFINE val == IF pos + 4 > last THEN {}
                    ELSE {b \in 0..31 : b % 8 \in mem[pos + (b \div 8)]}
  <2>1. val \in SUBSET (0..63)
    OBVIOUS
  <2>2. Idle /\ Take("get32", 4, val)
    BY <1>2 DEF Get32
  <2> HIDE DEF val
  <2> QED  BY <2>1, <2>2, TakeStep DEF Idle
<1>3. CASE Pass
  <2>1. PICK n \in Skips : Idle /\ Take("pass", n, {})
    BY <1>3 DEF Pass
  <2>2. n \in Nat
    BY SkipsAssumption
  <2> QED  BY <2>1, <2>2, TakeStep DEF Idle
<1>4. CASE \E r \in Readers : Call(r)
  BY <1>4, CallStep
<1>5. CASE ReadByte
  BY <1>5, MoreStep, LastByteStep
<1>6. CASE NoByte
  <2>1. TypeOK' /\ Reading'
    BY <1>6, IdleType DEF LebInv, TypeOK, Reading, NoByte, StrErr, Returns
  <2>2. Cutting'
    BY <1>6, CuttingStays DEF LebInv, NoByte, StrErr
  <2> QED  BY <2>1, <2>2 DEF LebInv
<1>7. CASE Overread
  <2>1. TypeOK' /\ Reading'
    BY <1>7 DEF LebInv, TypeOK, Reading, Overread, InBounds
  <2>2. Cutting'
    BY <1>7, CuttingStays DEF LebInv, Overread
  <2> QED  BY <2>1, <2>2 DEF LebInv
<1>8. CASE UNCHANGED lebVars
  <2>1. TypeOK' /\ Reading'
    BY <1>8 DEF LebInv, TypeOK, Reading, lebVars
  <2>2. Cutting'
    BY <1>8, CuttingStays DEF LebInv, lebVars
  <2> QED  BY <2>1, <2>2 DEF LebInv
<1> QED  BY <1>1, <1>2, <1>3, <1>4, <1>5, <1>6, <1>7, <1>8 DEF Next, Turn

LEMMA AlwaysLebInv == Spec => []LebInv
BY InitLebInv, StepLebInv, PTL DEF Spec

-----------------------------------------------------------------------------
(***************************************************************************)
(* The theorems on fields and bytes                                        *)
(***************************************************************************)
(* A reader's counters stay in step while both wrap, and its value has the *)
(* width of the reader.                                                    *)
THEOREM TypeCorrect == Spec => []TypeOK
<1>1. LebInv => TypeOK
  BY DEF LebInv
<1> QED  BY <1>1, AlwaysLebInv, PTL

LEMMA TileFromInv == LebInv => FieldsTile
<1> SUFFICES ASSUME LebInv PROVE FieldsTile
  OBVIOUS
<1>1. /\ fields \in Seq(FieldSet) /\ DOMAIN fields = 1..Len(fields)
      /\ \A i \in DOMAIN fields : fields[i] \in FieldSet /\ FieldOK(fields[i])
  BY LenProperties, ElementOfSeq DEF LebInv, Cutting
<1>2. /\ \A i \in DOMAIN fields :
            fields[i].from = IF i = 1 THEN 1 ELSE fields[i - 1].to
      /\ (fields # << >>) => pos = fields[Len(fields)].to
  BY <1>1 DEF LebInv, Cutting
<1>3. ASSUME NEW i \in LebFields
      PROVE  /\ fields[i].from \in Nat /\ fields[i].to \in Nat
             /\ fields[i].from <= fields[i].to
             /\ FirstEnder(EndOf(fields[i]), fields[i].from)
             /\ fields[i].to - fields[i].from <= MaxRound(fields[i].op)
  BY <1>1 DEF LebFields, FieldSet, FieldOK
<1>4. ASSUME NEW i \in Lebs
      PROVE  /\ fields[i].to - 1 \in Enders(fields[i].from)
             /\ \A j \in Enders(fields[i].from) : fields[i].to - 1 <= j
             /\ Size(fields[i]) <= MaxRound(fields[i].op)
  <2>1. i \in LebFields /\ Size(fields[i]) > 0
    BY DEF Lebs
  <2>2. EndOf(fields[i]) = fields[i].to - 1
    BY <1>3, <2>1 DEF EndOf, Size
  <2> QED  BY <1>3, <2>1, <2>2 DEF FirstEnder, Size
<1>5. ASSUME NEW i \in LebFields \ Lebs
      PROVE  /\ fields[i].from + 255 \in Enders(fields[i].from)
             /\ \A j \in Enders(fields[i].from) : fields[i].from + 255 <= j
  <2>1. ~(Size(fields[i]) > 0)
    BY DEF Lebs
  <2>2. EndOf(fields[i]) = fields[i].from + 255
    BY <1>3, <2>1 DEF EndOf, Size
  <2> QED  BY <1>3, <2>2 DEF FirstEnder
<1> QED  BY <1>2, <1>4, <1>5 DEF FieldsTile

(* The fields of a string lie one behind the other, and each LEB128 field  *)
(* is one whole encoding of at most ceil(N/7) bytes, or one of 256.        *)
THEOREM Tiling == Spec => []FieldsTile
BY TileFromInv, AlwaysLebInv, PTL

LEMMA OverreadFromInv == LebInv => OverreadsTruncatedOnly
<1> SUFFICES ASSUME LebInv PROVE OverreadsTruncatedOnly
  OBVIOUS
<1>1. /\ pos \in Nat \ {0} /\ round \in Nat /\ Len(mem) \in Nat
      /\ last \in 1..(Len(mem) + 1)
  BY LenProperties DEF LebInv, TypeOK, Reading
<1>2. ASSUME pos < last, pos + round >= last PROVE Cut(pos)
  <2>1. \A j \in pos..(last - 1) : j \in pos..(pos + round - 1)
    BY <1>1, <1>2
  <2> QED  BY <1>2, <2>1 DEF Cut, LebInv, Reading
<1>3. (round > 0 /\ pos + round > last) => Cut(pos)
  BY <1>1, <1>2 DEF LebInv, Reading
<1>4. state = "overread" => Cut(pos)
  BY <1>1, <1>2 DEF LebInv, Reading
<1>5. \A i \in DOMAIN fields : fields[i].to > last => Cut(fields[i].from)
  <2>1. DOMAIN fields = 1..Len(fields)
    BY LenProperties DEF LebInv, Cutting
  <2> QED  BY <2>1 DEF LebInv, Cutting, FieldOK
<1> QED  BY <1>3, <1>4, <1>5 DEF OverreadsTruncatedOnly, Cut

(* A reader touches bytes beyond the string only where the string ends     *)
(* within an encoding.                                                     *)
THEOREM Overreads == Spec => []OverreadsTruncatedOnly
BY OverreadFromInv, AlwaysLebInv, PTL

-----------------------------------------------------------------------------
(***************************************************************************)
(* The values                                                              *)
(*                                                                         *)
(* Of an encoding that ends within 256 bytes _round and _shift count true  *)
(* as long as it matters, and _res holds the bits read so far.             *)
(***************************************************************************)
Raised(bits, n) == {b + n : b \in bits}

\* The bits that the byte at i adds to an encoding from p.
BitsAt(i, p) == Raised(mem[i] \ {More}, 7 * (i - p))

Ending == \E i \in Enders(pos) : i < pos + 256

Counting ==
    (call # "none" /\ Ending) =>
        /\ round <= 9 => shift = 7 * round
        /\ round <= 4 => res = Unsigned128(pos, pos + round) \cap 0..(Width[call] - 1)
        /\ (round <= 9 /\ Unsigned128(pos, pos + round) \subseteq 0..30)
              => res = Unsigned128(pos, pos + round) \cap 0..(Width[call] - 1)

Decoded(f) ==
    (f.op \in Readers /\ f.from < f.to) =>
        /\ f.op \in {"u8", "u32", "const"} =>
              f.val = Unsigned128(f.from, f.to) \cap 0..(Width[f.op] - 1)
        /\ (f.op = "u64" /\ Unsigned128(f.from, f.to) \subseteq 0..30) =>
              f.val = Unsigned128(f.from, f.to)
        /\ (f.op \in Signed /\ (\/ f.to - f.from <= 4
                                \/ f.op = "s32" /\ Sign \notin mem[f.to - 1])) =>
              f.val = Signed128(f.from, f.to, 64) \cap 0..(Width[f.op] - 1)

Values == Counting /\ \A i \in 1..Len(fields) : Decoded(fields[i])

\* One byte more: its seven bits are added above those before it.
LEMMA OneByteMore ==
    ASSUME NEW p \in Nat, NEW q \in Nat, p <= q
    PROVE  Unsigned128(p, q + 1) = Unsigned128(p, q) \cup BitsAt(q, p)
<1>1. p..((q + 1) - 1) = (p..(q - 1)) \cup {q}
  OBVIOUS
<1>2. ASSUME NEW x PROVE x \in Unsigned128(p, q + 1) <=>
                            \E i \in p..((q + 1) - 1) : x \in BitsAt(i, p)
  BY DEF Unsigned128, BitsAt, Raised
<1>3. ASSUME NEW x PROVE x \in Unsigned128(p, q) <=>
                            \E i \in p..(q - 1) : x \in BitsAt(i, p)
  BY DEF Unsigned128, BitsAt, Raised
<1> QED  BY <1>1, <1>2, <1>3

LEMMA NoBytes ==
    ASSUME NEW p \in Nat PROVE Unsigned128(p, p) = {}
<1>1. p..(p - 1) = {}
  OBVIOUS
<1> QED  BY <1>1 DEF Unsigned128

\* The bits of a byte have the indices of its place.
LEMMA BitsRange ==
    ASSUME mem \in Seq(SUBSET Bits), NEW p \in Nat \ {0}, NEW i \in p..Len(mem)
    PROVE  /\ mem[i] \ {More} \subseteq 0..6
           /\ BitsAt(i, p) \subseteq (7 * (i - p))..(7 * (i - p) + 6)
<1>1. Len(mem) \in Nat
  BY LenProperties
<1>2. i \in 1..Len(mem) /\ i \in Nat
  BY <1>1
<1>3. mem[i] \subseteq 0..7
  BY <1>2, ElementOfSeq DEF Bits
<1> QED  BY <1>1, <1>2, <1>3 DEF BitsAt, Raised, More

LEMMA EncodingRange ==
    ASSUME mem \in Seq(SUBSET Bits), NEW p \in Nat \ {0}, NEW q \in Nat,
           p <= q, q <= Len(mem) + 1
    PROVE  Unsigned128(p, q) \subseteq 0..(7 * (q - p) - 1)
<1> SUFFICES ASSUME NEW x \in Unsigned128(p, q) PROVE x \in 0..(7 * (q - p) - 1)
  OBVIOUS
<1>1. Len(mem) \in Nat
  BY LenProperties
<1>2. PICK i \in p..(q - 1) : x \in BitsAt(i, p)
  BY DEF Unsigned128, BitsAt, Raised
<1>3. i \in p..Len(mem) /\ i \in Nat
  BY <1>1, <1>2
<1>4. x \in (7 * (i - p))..(7 * (i - p) + 6)
  BY <1>2, <1>3, BitsRange
<1> QED  BY <1>2, <1>3, <1>4

\* The shifts that keep the bits of a byte within an int, its sign bit unused
\* if the variable is wider.
Fits(P, n, w) ==
    /\ P \in SUBSET (0..6) /\ w \in {8, 32, 64}
    /\ n \in {0, 7, 14, 21, 28} /\ (w = 64 => n <= 21)

LowBits(P, n, w) ==
    /\ P \in SUBSET (0..6) /\ w \in {8, 32, 64}
    /\ n \in 0..63 /\ Raised(P, n) \subseteq 0..30

\* A byte that lies within the word is stored where it belongs.
LEMMA ByteStored ==
    \A P, n, w : Fits(P, n, w) => Stored(Shift(P, n), w) = Raised(P, n) \cap 0..(w - 1)
<1> SUFFICES ASSUME NEW P \in SUBSET (0..6), NEW n \in {0, 7, 14, 21, 28},
                    NEW w \in {8, 32, 64}, w = 64 => n <= 21
             PROVE  Stored(Shift(P, n), w) = Raised(P, n) \cap 0..(w - 1)
  BY DEF Fits
<1>1. Shift(P, n) = Raised(P, n) \cap 0..31
  BY DEF Shift, ShiftedBy, Raised
<1>2. CASE w = 64
  <2>1. Raised(P, n) \subseteq 0..27
    BY <1>2 DEF Raised
  <2> QED  BY <1>1, <1>2, <2>1 DEF Stored, Raised
<1>3. CASE w # 64
  <2>1. w \in {8, 32}
    BY <1>3
  <2> QED  BY <1>1, <2>1 DEF Stored, Raised
<1> QED  BY <1>2, <1>3

\* So is one whose bits lie below bit 31, whatever the shift.
LEMMA LowByteStored ==
    \A P, n, w : LowBits(P, n, w) => Stored(Shift(P, n), w) = Raised(P, n) \cap 0..(w - 1)
<1> SUFFICES ASSUME NEW P, NEW n, NEW w, LowBits(P, n, w)
             PROVE  Stored(Shift(P, n), w) = Raised(P, n) \cap 0..(w - 1)
  OBVIOUS
<1>0. /\ P \in SUBSET (0..6) /\ n \in 0..63 /\ w \in {8, 32, 64}
      /\ Raised(P, n) \subseteq 0..30
  BY DEF LowBits
<1>1. CASE n < 32
  <2>1. Shift(P, n) = Raised(P, n)
    BY <1>0, <1>1 DEF Shift, ShiftedBy, Raised
  <2>2. \A b \in Raised(P, n) : b \in 0..30
    BY <1>0
  <2>3. 31 \notin Raised(P, n)
    BY <2>2
  <2> QED  BY <1>0, <2>1, <2>2, <2>3 DEF Stored
<1>2. CASE n >= 32
  <2>1. P = {}
    <3> SUFFICES ASSUME NEW p \in P PROVE FALSE
      OBVIOUS
    <3>1. p + n \in Raised(P, n)
      BY DEF Raised
    <3>2. p \in 0..6 /\ p + n \in 0..30
      BY <1>0, <3>1
    <3> QED  BY <1>0, <1>2, <3>2
  <2>2. Shift(P, n) = {} /\ Raised(P, n) = {}
    BY <1>0, <1>2, <2>1 DEF Shift, ShiftedBy, Raised
  <2> QED  BY <2>2 DEF Stored
<1>3. n \in 0..63
  BY <1>0
<1> QED  BY <1>1, <1>2, <1>3

\* The bits beyond the last byte of a negative number.
LEMMA SignStored ==
    ASSUME NEW n \in {7, 14, 21, 28}, NEW w \in {32, 64}
    PROVE  Stored(Negated(Shift({0}, n)), w) = n..(w - 1)
<1>1. Shift({0}, n) = {n}
  BY DEF Shift, ShiftedBy
<1>2. Negated({n}) = n..31
  BY DEF Negated
<1>3. \A b \in 0..(w - 1) : (b \in n..31 \/ (31 \in n..31 /\ b > 31)) <=> b \in n..(w - 1)
  OBVIOUS
<1>4. Stored(n..31, w) = {b \in 0..(w - 1) : b \in n..(w - 1)}
  BY <1>3 DEF Stored
<1>5. {b \in 0..(w - 1) : b \in n..(w - 1)} = n..(w - 1)
  OBVIOUS
<1>6. Stored(n..31, w) = n..(w - 1)
  BY <1>4, <1>5
<1> QED  BY <1>1, <1>2, <1>6

\* What one turn of the loop makes of the value, whether it is the last or not.
LEMMA ByteRead ==
    ASSUME LebInv, Counting, Ending, call # "none", pos + round <= Len(mem),
           NEW val, val = res \cup Stored(Shift(Payload(mem[pos + round]), shift), Width[call]),
           round <= 9
    PROVE  LET v == Unsigned128(pos, pos + round + 1) IN
           /\ shift = 7 * round
           /\ (round <= 3 \/ (round = 4 /\ Width[call] <= 32)) =>
                 val = v \cap 0..(Width[call] - 1)
           /\ v \subseteq 0..30 => val = v \cap 0..(Width[call] - 1)
<1> DEFINE P == Payload(mem[pos + round])
           w == Width[call]
           u == Unsigned128(pos, pos + round)
           v == Unsigned128(pos, pos + round + 1)
<1>1. /\ pos \in Nat \ {0} /\ round \in 0..9 /\ Len(mem) \in Nat
      /\ call \in Readers /\ mem \in Seq(SUBSET Bits)
  BY LenProperties DEF LebInv, TypeOK
<1>2. w \in {8, 32, 64}
  BY <1>1, WidthType
<1>3. /\ shift = 7 * round
      /\ round <= 4 => res = u \cap 0..(w - 1)
      /\ u \subseteq 0..30 => res = u \cap 0..(w - 1)
  BY <1>1 DEF Counting
<1>4. v = u \cup BitsAt(pos + round, pos)
  <2>1. pos + round \in Nat /\ pos <= pos + round
    BY <1>1
  <2> QED  BY <1>1, <2>1, OneByteMore
<1>5. /\ P \in SUBSET (0..6)
      /\ BitsAt(pos + round, pos) = Raised(P, 7 * round)
  <2>1. pos + round \in pos..Len(mem) /\ (pos + round) - pos = round
    BY <1>1
  <2>2. mem[pos + round] \ {More} \subseteq 0..6
    BY <1>1, <2>1, BitsRange
  <2> QED  BY <2>1, <2>2 DEF Payload, BitsAt
<1> HIDE DEF P, w, u, v
<1>6. ASSUME round <= 3 \/ (round = 4 /\ w <= 32)
      PROVE  val = v \cap 0..(w - 1)
  <2>1. 7 * round \in {0, 7, 14, 21, 28} /\ (w = 64 => 7 * round <= 21)
    BY <1>1, <1>2, <1>6
  <2>2. Stored(Shift(P, 7 * round), w) = Raised(P, 7 * round) \cap 0..(w - 1)
    <3>1. Fits(P, 7 * round, w)
      BY <1>2, <1>5, <2>1 DEF Fits
    <3> QED  BY <3>1, ByteStored
  <2>3. val = res \cup Stored(Shift(P, 7 * round), w)
    BY <1>3 DEF P, w
  <2>4. round <= 4
    BY <1>1, <1>6
  <2>5. res = u \cap 0..(w - 1)
    BY <1>3, <2>4
  <2> QED  BY <1>4, <1>5, <2>2, <2>3, <2>5
<1>7. ASSUME v \subseteq 0..30
      PROVE  val = v \cap 0..(w - 1)
  <2>1. u \subseteq 0..30 /\ Raised(P, 7 * round) \subseteq 0..30
    BY <1>4, <1>5, <1>7
  <2>2. 7 * round \in 0..63
    BY <1>1
  <2>3. Stored(Shift(P, 7 * round), w) = Raised(P, 7 * round) \cap 0..(w - 1)
    <3>1. LowBits(P, 7 * round, w)
      BY <1>2, <1>5, <2>1, <2>2 DEF LowBits
    <3> QED  BY <3>1, LowByteStored
  <2>4. val = res \cup Stored(Shift(P, 7 * round), w)
    BY <1>3 DEF P, w
  <2> QED  BY <1>3, <1>4, <1>5, <2>1, <2>3, <2>4
<1> QED  BY <1>3, <1>6, <1>7 DEF v, w

\* The loop goes on.  If it wraps, the encoding does not end in 256 bytes.
LEMMA MoreCounts ==
    ASSUME LebInv, Counting, ReadByte, More \in mem[pos + round]
    PROVE  Counting'
<1> DEFINE val == res \cup Stored(Shift(Payload(mem[pos + round]), shift), Width[call])
<1>1. /\ call # "none"
      /\ pos + round <= Len(mem)
      /\ round' = Wraps(round + 1)
      /\ shift' = Wraps(shift + 7)
      /\ res' = val
      /\ UNCHANGED <<mem, pos, call>>
  BY DEF ReadByte
<1> HIDE DEF val
<1>2. /\ round \in 0..255 /\ pos \in Nat \ {0} /\ Len(mem) \in Nat
      /\ call \in Readers /\ mem \in Seq(SUBSET Bits)
  BY <1>1, LenProperties DEF LebInv, TypeOK
<1>3. Ending' <=> Ending
  BY <1>1 DEF Ending, Enders
<1>4. Unsigned128(pos, pos + round)' = Unsigned128(pos, pos + round')
  BY <1>1 DEF Unsigned128
<1>5. ASSUME Ending PROVE round # 255
  <2> SUFFICES ASSUME round = 255 PROVE FALSE
    OBVIOUS
  <2>1. PICK i \in Enders(pos) : i < pos + 256
    BY <1>5 DEF Ending
  <2>2. i \in pos..(pos + round - 1) \/ i = pos + round
    BY <1>2, <2>1 DEF Enders
  <2>3. More \notin mem[i]
    BY DEF Enders
  <2> QED  BY <2>2, <2>3 DEF LebInv, Reading
<1>6. ASSUME Ending PROVE round' = round + 1
  BY <1>1, <1>2, <1>5, <1>6, WrapsType
<1>7. CASE Ending /\ round' <= 9
  <2>1. /\ round \in 0..8 /\ pos + round' = pos + round + 1
        /\ round' <= 4 => round <= 3
    <3>1. round \in Nat /\ pos \in Nat /\ round' = round + 1 /\ round' <= 9
      BY <1>2, <1>6, <1>7
    <3> QED  BY <3>1
  <2>2. LET v == Unsigned128(pos, pos + round + 1) IN
        /\ shift = 7 * round
        /\ round <= 3 => val = v \cap 0..(Width[call] - 1)
        /\ v \subseteq 0..30 => val = v \cap 0..(Width[call] - 1)
    BY <1>1, <1>7, <2>1, ByteRead DEF val
  <2>3. \A r \in 0..8 : Wraps(7 * r + 7) = 7 * (r + 1)
    BY DEF Wraps
  <2>4. shift' = 7 * round'
    BY <1>1, <1>6, <1>7, <2>1, <2>2, <2>3
  <2> QED  BY <1>1, <1>4, <2>1, <2>2, <2>4 DEF Counting
<1>8. CASE Ending /\ ~(round' <= 9)
  <2>1. ~(round' <= 4)
    <3>1. round \in Nat /\ round' = round + 1 /\ ~(round' <= 9)
      BY <1>2, <1>6, <1>8
    <3> QED  BY <3>1
  <2> QED  BY <1>8, <2>1 DEF Counting
<1> QED  BY <1>3, <1>7, <1>8 DEF Counting

\* The value of the field that the last byte ends.
LEMMA LastByteDecoded ==
    ASSUME LebInv, Counting, call # "none", pos + round <= Len(mem),
           More \notin mem[pos + round], NEW n, n = Wraps(round + 1), ~TooLong(call, n),
           NEW val, val = res \cup Stored(Shift(Payload(mem[pos + round]), shift), Width[call]),
           NEW f, f = Field(call, pos, pos + n,
                            SignExtended(call, mem[pos + round], val, Wraps(shift + 7)))
    PROVE  Decoded(f)
<1> DEFINE byte == mem[pos + round]
           w == Width[call]
           u == Unsigned128(pos, pos + round + 1)
<1>1. /\ pos \in Nat \ {0} /\ round \in 0..255 /\ Len(mem) \in Nat
      /\ call \in Readers /\ mem \in Seq(SUBSET Bits)
      /\ TypeOK /\ Reading
  BY LenProperties DEF LebInv, TypeOK
<1>2. n = (IF round = 255 THEN 0 ELSE round + 1)
  BY <1>1, WrapsType
<1>3. f.op = call /\ f.from = pos /\ f.to = pos + n
      /\ f.val = SignExtended(call, byte, val, Wraps(shift + 7))
  BY DEF Field
<1>4. CASE n = 0
  <2>1. ~(f.from < f.to)
    BY <1>1, <1>3, <1>4
  <2> QED  BY <2>1 DEF Decoded
<1>5. CASE n # 0
  <2>1. n = round + 1 /\ n \in Nat /\ pos + n = pos + round + 1 /\ f.to - 1 = pos + round
        /\ f.to - f.from = n
    <3>1. n = round + 1
      BY <1>2, <1>5
    <3>2. pos \in Nat /\ round \in Nat
      BY <1>1
    <3> QED  BY <1>3, <3>1, <3>2
  <2>2. n <= MaxRound(call)
    BY <1>1, <2>1, WidthType DEF TooLong
  <2>3. MaxRound(call) = IF call = "u8" THEN 2
                         ELSE IF call \in {"u32", "const", "s32"} THEN 5 ELSE 10
    BY <1>1 DEF MaxRound, Width, Readers, Signed, Unsigned
  <2>4. w = IF call = "u8" THEN 8 ELSE IF call \in {"u32", "const", "s32"} THEN 32 ELSE 64
    BY <1>1 DEF Width, Readers, Signed, Unsigned
  <2> HIDE DEF w, u
  <2>5. round \in 0..9 /\ (w <= 32 => round <= 4)
    <3>1. round \in Nat
      BY <1>1
    <3>2. MaxRound(call) \in {2, 5, 10}
      BY <2>3
    <3>3. w <= 32 => MaxRound(call) \in {2, 5}
      BY <2>3, <2>4
    <3>4. round + 1 <= MaxRound(call)
      BY <2>1, <2>2
    <3> QED  BY <3>1, <3>2, <3>3, <3>4
  <2>6. Ending
    <3>1. pos + round \in Enders(pos) /\ pos + round < pos + 256
      BY <1>1 DEF Enders
    <3> QED  BY <3>1 DEF Ending
  <2>7. /\ (round <= 3 \/ (round = 4 /\ w <= 32)) => val = u \cap 0..(w - 1)
        /\ u \subseteq 0..30 => val = u \cap 0..(w - 1)
    BY <2>5, <2>6, ByteRead DEF u, w
  <2>8. Wraps(shift + 7) = 7 * n
    <3>1. \A r \in 0..9 : Wraps(7 * r + 7) = 7 * (r + 1)
      BY DEF Wraps
    <3>2. shift = 7 * round
      BY <2>5, <2>6 DEF Counting
    <3> QED  BY <2>1, <2>5, <3>1, <3>2
  <2>9. Unsigned128(f.from, f.to) = u
    BY <1>3, <2>1 DEF u
  <2>10. ASSUME call \in {"u8", "u32", "const"} PROVE f.val = u \cap 0..(w - 1)
    <3>1. f.val = val
      BY <1>3, <2>10 DEF SignExtended, Signed
    <3>2. round <= 3 \/ (round = 4 /\ w <= 32)
      BY <1>1, <2>4, <2>5, <2>10
    <3> QED  BY <2>7, <3>1, <3>2
  <2>11. ASSUME call = "u64", u \subseteq 0..30 PROVE f.val = u
    <3>1. f.val = val /\ w = 64
      BY <1>3, <2>4, <2>11 DEF SignExtended, Signed
    <3>2. u \cap 0..(w - 1) = u
      <4>1. \A b \in u : b \in 0..63
        BY <2>11
      <4>2. w - 1 = 63
        BY <3>1
      <4> QED  BY <4>1, <4>2
    <3> QED  BY <2>7, <2>11, <3>1, <3>2
  <2>12. ASSUME call \in Signed, n <= 4 \/ (call = "s32" /\ Sign \notin byte)
         PROVE  f.val = Signed128(pos, pos + n, 64) \cap 0..(w - 1)
    <3>1. w \in {32, 64}
      BY <2>4, <2>12 DEF Signed
    <3>2. val = u \cap 0..(w - 1)
      <4>1. round <= 3 \/ (round = 4 /\ w <= 32)
        BY <1>1, <2>1, <2>4, <2>5, <2>12
      <4> QED  BY <2>7, <4>1
    <3>3. Signed128(pos, pos + n, 64)
            = u \cup (IF Sign \in byte THEN (7 * n)..63 ELSE {})
      <4>1. (pos + n) - 1 = pos + round /\ (pos + n) - pos = n
        BY <1>1, <2>1
      <4> QED  BY <1>3, <2>9, <4>1 DEF Signed128
    <3>4. CASE Sign \notin byte
      BY <1>3, <3>2, <3>3, <3>4 DEF SignExtended
    <3>5. CASE Sign \in byte
      <4>1. n \in 1..4
        BY <2>1, <2>12, <1>1, <3>5
      <4>2. 7 * n \in {7, 14, 21, 28}
        BY <4>1
      <4>3. f.val = val \cup Stored(Negated(Shift({0}, 7 * n)), w)
        BY <1>3, <2>8, <2>12, <3>5 DEF SignExtended, w
      <4>4. Stored(Negated(Shift({0}, 7 * n)), w) = (7 * n)..(w - 1)
        BY <3>1, <4>2, SignStored
      <4>5. ((7 * n)..63) \cap (0..(w - 1)) = (7 * n)..(w - 1)
        BY <3>1, <4>1
      <4>6. Signed128(pos, pos + n, 64) = u \cup ((7 * n)..63)
        BY <3>3, <3>5
      <4> QED  BY <3>2, <4>3, <4>4, <4>5, <4>6
    <3> QED  BY <3>4, <3>5
  <2>13. ASSUME call \in Signed, n <= 4 \/ (call = "s32" /\ Sign \notin mem[f.to - 1])
         PROVE  f.val = Signed128(f.from, f.to, 64) \cap 0..(w - 1)
    BY <1>3, <2>1, <2>12, <2>13
  <2>14. f.op \in {"u8", "u32", "const"} =>
            f.val = Unsigned128(f.from, f.to) \cap 0..(Width[f.op] - 1)
    BY <1>3, <2>9, <2>10 DEF w
  <2>15. (f.op = "u64" /\ Unsigned128(f.from, f.to) \subseteq 0..30) =>
            f.val = Unsigned128(f.from, f.to)
    BY <1>3, <2>9, <2>11
  <2>16. (f.op \in Signed /\ (\/ f.to - f.from <= 4
                              \/ f.op = "s32" /\ Sign \notin mem[f.to - 1])) =>
            f.val = Signed128(f.from, f.to, 64) \cap 0..(Width[f.op] - 1)
    BY <1>3, <2>1, <2>13 DEF w
  <2> QED  BY <2>14, <2>15, <2>16 DEF Decoded
<1> QED  BY <1>4, <1>5

\* A field is decoded as it was, in the same buffer.
LEMMA SameField ==
    ASSUME mem' = mem, NEW i, NEW g, fields'[i] = g, Decoded(g)
    PROVE  Decoded(fields[i])'
<1>1. Unsigned128(fields[i].from, fields[i].to)' = Unsigned128(g.from, g.to)
  BY DEF Unsigned128
<1>2. Signed128(fields[i].from, fields[i].to, 64)' = Signed128(g.from, g.to, 64)
  BY <1>1 DEF Signed128
<1> QED  BY <1>1, <1>2 DEF Decoded

LEMMA ValuesStay ==
    ASSUME Values, UNCHANGED <<mem, fields>>
    PROVE  \A i \in 1..Len(fields') : Decoded(fields[i])'
BY SameField DEF Values

LEMMA OneMoreValue ==
    ASSUME Cutting, Values, mem' = mem, NEW f \in FieldSet, Decoded(f),
           fields' = Append(fields, f)
    PROVE  \A i \in 1..Len(fields') : Decoded(fields[i])'
<1>1. /\ Len(fields) \in Nat /\ Len(fields') = Len(fields) + 1
      /\ \A i \in 1..Len(fields) : fields'[i] = fields[i]
      /\ fields'[Len(fields) + 1] = f
  BY LenProperties, AppendProperties DEF Cutting
<1> SUFFICES ASSUME NEW i \in 1..Len(fields') PROVE Decoded(fields[i])'
  OBVIOUS
<1>2. \E g : fields'[i] = g /\ Decoded(g)
  BY <1>1 DEF Values
<1> QED  BY <1>2, SameField

\* The values follow the invariant, action by action.
LEMMA StepValues == LebInv /\ Values /\ [Next]_lebVars => Values'
<1> SUFFICES ASSUME LebInv, Values, [Next]_lebVars PROVE Values'
  OBVIOUS
<1>1. ASSUME NEW op \in {"get8", "get32", "pass"}, NEW size \in Nat,
             NEW val \in SUBSET (0..63), call = "none", Take(op, size, val)
      PROVE  Values'
  <2>1. UNCHANGED <<mem, call>>
    BY <1>1 DEF Take, Unread
  <2>2. Counting'
    BY <1>1, <2>1 DEF Counting
  <2>3. CASE UNCHANGED fields
    BY <2>1, <2>2, <2>3, ValuesStay DEF Values
  <2>4. CASE fields' = Append(fields, Field(op, pos, pos + size, val))
    <3> DEFINE f == Field(op, pos, pos + size, val)
    <3>1. f \in FieldSet /\ f.op = op
      BY DEF Field, FieldSet, LebInv, TypeOK
    <3>2. Decoded(f)
      BY <3>1 DEF Decoded, Readers, Signed, Unsigned
    <3> HIDE DEF f
    <3>3. fields' = Append(fields, f)
      BY <2>4 DEF f
    <3> QED  BY <2>1, <2>2, <3>1, <3>2, <3>3, OneMoreValue DEF Values, LebInv
  <2> QED  BY <1>1, <2>3, <2>4 DEF Take, StrErr
<1>2. CASE Get8
  <2> DEFINE val == IF pos < last THEN mem[pos] ELSE {}
  <2>1. val \in SUBSET (0..63)
    <3>1. pos < last => pos \in 1..Len(mem) /\ mem[pos] \in SUBSET Bits
      BY LenProperties, ElementOfSeq DEF LebInv, TypeOK, Reading
    <3> QED  BY <3>1 DEF Bits
  <2>2. Idle /\ Take("get8", 1, val)
    BY <1>2 DEF Get8
  <2> HIDE DEF val
  <2> QED  BY <1>1, <2>1, <2>2 DEF Idle
<1>3. CASE Get32
  <2> DEFINE val == IF pos + 4 > last THEN {}
                    ELSE {b \in 0..31 : b % 8 \in mem[pos + (b \div 8)]}
  <2>1. val \in SUBSET (0..63)
    OBVIOUS
  <2>2. Idle /\ Take("get32", 4, val)
    BY <1>3 DEF Get32
  <2> HIDE DEF val
  <2> QED  BY <1>1, <2>1, <2>2 DEF Idle
<1>4. CASE Pass
  <2>1. PICK n \in Skips : Idle /\ Take("pass", n, {})
    BY <1>4 DEF Pass
  <2>2. n \in Nat
    BY SkipsAssumption
  <2> QED  BY <1>1, <2>1, <2>2 DEF Idle
<1>5. ASSUME NEW r \in Readers, Call(r) PROVE Values'
  <2>1. /\ UNCHANGED <<mem, pos, fields>>
        /\ round' = 0 /\ shift' = 0 /\ res' = {} /\ pos \in Nat
    BY <1>5 DEF Call, LebInv, TypeOK
  <2>2. Unsigned128(pos, pos + round)' = {}
    <3>1. Unsigned128(pos, pos + round)' = Unsigned128(pos, pos)
      BY <2>1 DEF Unsigned128
    <3> QED  BY <2>1, <3>1, NoBytes
  <2>3. Counting'
    BY <2>1, <2>2 DEF Counting
  <2> QED  BY <2>1, <2>3, ValuesStay DEF Values
<1>6. CASE ReadByte
  <2>1. CASE More \in mem[pos + round]
    <3>1. Counting'
      BY <1>6, <2>1, MoreCounts DEF Values
    <3> QED  BY <1>6, <2>1, <3>1, ValuesStay DEF Values, ReadByte
  <2>2. CASE More \notin mem[pos + round]
    <3> DEFINE n == Wraps(round + 1)
               val == res \cup Stored(Shift(Payload(mem[pos + round]), shift), Width[call])
               x == SignExtended(call, mem[pos + round], val, Wraps(shift + 7))
               f == Field(call, pos, pos + n, x)
    <3>1. /\ call # "none" /\ pos + round <= Len(mem) /\ call' = "none" /\ mem' = mem
          /\ Ends(mem[pos + round], val, n, Wraps(shift + 7))
      BY <1>6, <2>2 DEF ReadByte, Returns
    <3>2. Counting'
      BY <3>1 DEF Counting
    <3>3. CASE TooLong(call, n)
      <4>1. UNCHANGED fields
        BY <3>1, <3>3 DEF Ends, StrErr
      <4> QED  BY <3>1, <3>2, <4>1, ValuesStay DEF Values
    <3>4. CASE ~TooLong(call, n)
      <4>1. fields' = Append(fields, f)
        BY <3>1, <3>4 DEF Ends
      <4>2. f \in FieldSet
        <5>1. /\ call \in Readers /\ pos \in Nat \ {0}
              /\ res \subseteq 0..63 /\ round \in 0..255
          BY <3>1, ReaderType DEF LebInv
        <5>2. n \in 0..255
          <6>1. round + 1 \in Nat
            BY <5>1
          <6> QED  BY <6>1, WrapsRange
        <5>3. val \in SUBSET (0..63)
          BY <5>1, StoredType, WidthRange
        <5> HIDE DEF val, n
        <5>4. x \in SUBSET (0..63)
          BY <5>1, <5>3, SignExtendedType
        <5> HIDE DEF x
        <5> QED  BY <5>1, <5>2, <5>4 DEF Field, FieldSet
      <4>3. Decoded(f)
        BY <2>2, <3>1, <3>4, LastByteDecoded DEF Values
      <4> HIDE DEF f
      <4> QED  BY <3>1, <3>2, <4>1, <4>2, <4>3, OneMoreValue DEF Values, LebInv
    <3> QED  BY <3>3, <3>4
  <2> QED  BY <2>1, <2>2
<1>7. CASE NoByte
  BY <1>7, ValuesStay DEF NoByte, StrErr, Returns, Values, Counting
<1>8. CASE Overread \/ UNCHANGED lebVars
  <2>1. UNCHANGED <<mem, pos, call, round, shift, res, fields>>
    BY <1>8 DEF Overread, lebVars
  <2>2. Unsigned128(pos, pos + round)' = Unsigned128(pos, pos + round)
    BY <2>1 DEF Unsigned128
  <2>3. Ending' <=> Ending
    BY <2>1 DEF Ending, Enders
  <2>4. Counting'
    BY <2>1, <2>2, <2>3 DEF Values, Counting
  <2> QED  BY <2>1, <2>4, ValuesStay DEF Values
<1> QED  BY <1>2, <1>3, <1>4, <1>5, <1>6, <1>7, <1>8 DEF Next, Turn

LEMMA AlwaysValues == Spec => [](LebInv /\ Values)
<1>1. Init => LebInv /\ Values
  <2>1. Init => Values
    BY EmptySeq DEF Init, Values, Counting
  <2> QED  BY <2>1, InitLebInv
<1>2. LebInv /\ Values /\ [Next]_lebVars => (LebInv /\ Values)'
  BY StepLebInv, StepValues
<1> QED  BY <1>1, <1>2, PTL DEF Spec

-----------------------------------------------------------------------------
(***************************************************************************)
(* The theorems on values                                                  *)
(***************************************************************************)
LEMMA EachDecoded ==
    ASSUME LebInv, Values, NEW i \in Lebs
    PROVE  /\ Decoded(fields[i]) /\ FieldOK(fields[i])
           /\ fields[i].op \in Readers
           /\ fields[i].from < fields[i].to
           /\ fields[i].from \in Nat \ {0} /\ fields[i].to \in Nat
<1>1. /\ DOMAIN fields = 1..Len(fields)
      /\ \A k \in 1..Len(fields) : fields[k] \in FieldSet
  BY LenProperties, ElementOfSeq DEF LebInv, Cutting
<1>2. i \in 1..Len(fields) /\ fields[i].op \in Readers /\ fields[i].to - fields[i].from > 0
  BY <1>1 DEF Lebs, LebFields, Size
<1>3. fields[i].from \in Nat \ {0} /\ fields[i].to \in Nat
  BY <1>1, <1>2 DEF FieldSet
<1>4. FieldOK(fields[i]) /\ Decoded(fields[i])
  BY <1>2 DEF LebInv, Cutting, Values
<1> QED  BY <1>2, <1>3, <1>4

LEMMA UnsignedFromInv == LebInv /\ Values => UnsignedRight
<1> SUFFICES ASSUME LebInv, Values, NEW i \in Lebs
             PROVE  LET f == fields[i]
                        v == Unsigned128(f.from, f.to)
                    IN /\ f.op \in {"u8", "u32"} => f.val = v \cap 0..(Width[f.op] - 1)
                       /\ (f.op = "u64" /\ v \subseteq 0..30) => f.val = v
  BY DEF UnsignedRight
<1> QED  BY EachDecoded DEF Decoded

(* An unsigned number is decoded as it is encoded, of 64 bits below 2^31.  *)
THEOREM UnsignedDecoded == Spec => []UnsignedRight
BY UnsignedFromInv, AlwaysValues, PTL

LEMMA SignedFromInv == LebInv /\ Values => SignedRight
<1> SUFFICES ASSUME LebInv, Values, NEW i \in Lebs
             PROVE  LET f == fields[i]
                        v == Signed128(f.from, f.to, 64) \cap 0..(Width[f.op] - 1)
                    IN f.op \in Signed
                          /\ (Size(f) <= 4 \/ (f.op = "s32" /\ Sign \notin mem[f.to - 1]))
                       => f.val = v
  BY DEF SignedRight
<1> QED  BY EachDecoded DEF Decoded, Size

(* A signed number of up to four bytes is decoded as it is encoded, and    *)
(* one of 32 bits that is not negative.                                    *)
THEOREM SignedDecoded == Spec => []SignedRight
BY SignedFromInv, AlwaysValues, PTL

=============================================================================

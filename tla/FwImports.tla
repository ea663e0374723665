------------------------------ MODULE FwImports -----------------------------
(***************************************************************************)
(* The import registry of fw_compile.c: fw_imports_wrap_new, add_func,     *)
(* add_global, find and fw_imports_wrap_free.                              *)
(*                                                                         *)
(* Host functions are kept in lists, one for each value of a hash of the   *)
(* two names.  Globals are kept in one list that nobody searches; the      *)
(* lists of tables and memories have no operation that fills them.         *)
(***************************************************************************)
EXTENDS FwHeap

CONSTANTS
    Names,             \* the pairs <<mname, nsname>> somebody registers, each
                       \* name a sequence of bytes
    Hosts, NoHost

ASSUME NamesAssumption == Names \subseteq Seq(Nat) \X Seq(Nat)

ASSUME NoHostAssumption == NoHost \notin Hosts

VARIABLES
    buckets,           \* imports->funcs.funcs, head first
    glbs,              \* imports->glbs.glbs[0]
    answer             \* what find answered last

importsVars == <<buckets, glbs, answer>>

BucketCount == 8       \* FW_MAX_IMPORT_HASH

Wrap == Obj("imports", 0, 0)

ImportsInit ==
    /\ buckets = [b \in 0..(BucketCount - 1) |-> << >>]
    /\ glbs = << >>
    /\ answer = << >>

\* A name ends with a zero, which is the first byte of an empty one.
FirstByte(name) == IF name = << >> THEN 0 ELSE name[1]

\* Variant: insert hashes the first name only.
InsertHashOne(mname, nsname) == FirstByte(mname) % BucketCount

\* The bucket of fw_import_func_wrap_insert, and of _find.
InsertHash(mname, nsname) == (FirstByte(nsname) + FirstByte(mname)) % BucketCount
FindHash(mname, nsname)   == (FirstByte(nsname) + FirstByte(mname)) % BucketCount

\* fw_imports_wrap_new; the caller does not test what it answers.
NewWrap(next) ==
    \E w \in Answer(Wrap) :
        /\ Mallocs(<<w>>)
        /\ pc' = IF w = Null THEN "crash" ELSE next
        /\ UNCHANGED importsVars

\* What an entry is made of: the record and the two names.
EntryObjs(i) == <<Obj("host", i, 0), Obj("hostmname", i, 0), Obj("hostnsname", i, 0)>>

Entry(i, r, m, n) == [id |-> i, mname |-> r.mname, nsname |-> r.nsname,
                      host |-> r.host, m |-> m, n |-> n]

(* add_func.  Without memory for the record nothing is registered, and     *)
(* the caller does not see it; without memory for a name, insert hashes a  *)
(* NULL string.                                                            *)
AddFunc(i, r) ==
    \/ /\ Mallocs(<<Null>>)
       /\ UNCHANGED <<pc, importsVars>>
    \/ \E m \in Answer(EntryObjs(i)[2]), n \in Answer(EntryObjs(i)[3]) :
          /\ Mallocs(<<EntryObjs(i)[1], m, n>>)
          /\ IF Null \in {m, n}
             THEN pc' = "crash" /\ UNCHANGED importsVars
             ELSE /\ buckets' = [buckets EXCEPT ![InsertHash(r.mname, r.nsname)] =
                                    <<Entry(i, r, m, n)>> \o @]
                  /\ UNCHANGED <<pc, glbs, answer>>

\* add_global: the names are stored, and may be NULL.
AddGlobal(i, r) ==
    /\ UNCHANGED <<pc, buckets, answer>>
    /\ \/ Mallocs(<<Null>>) /\ UNCHANGED glbs
       \/ \E m \in Answer(EntryObjs(i)[2]), n \in Answer(EntryObjs(i)[3]) :
             /\ Mallocs(<<EntryObjs(i)[1], m, n>>)
             /\ glbs' = <<Entry(i, r, m, n)>> \o glbs

\* The list that find searches.
Searched(mname, nsname) ==
    IF FindHash(mname, nsname) \in DOMAIN buckets
    THEN buckets[FindHash(mname, nsname)] ELSE << >>

\* The places of the entries with both names in it.
Places(mname, nsname) ==
    LET bucket == Searched(mname, nsname)
    IN {i \in DOMAIN bucket : bucket[i].mname = mname /\ bucket[i].nsname = nsname}

\* The first of them, as find meets them.
Found(mname, nsname) ==
    LET hits == Places(mname, nsname)
    IN IF hits = {} THEN NoHost
       ELSE Searched(mname, nsname)[CHOOSE i \in hits : \A j \in hits : i <= j].host

Entries == UNION {Range(buckets[b]) : b \in DOMAIN buckets} \cup Range(glbs)

\* fw_imports_wrap_free: every entry, but not the registry itself.
FreeWrap ==
    /\ live' = live \ UNION {{EntryObjs(e.id)[1], e.m, e.n} : e \in Entries}
    /\ buckets' = [b \in DOMAIN buckets |-> << >>]
    /\ glbs' = << >>
    /\ UNCHANGED <<fails, answer>>

-----------------------------------------------------------------------------
(***************************************************************************)
(* The map the lists stand for: of all entries with the names, whatever    *)
(* list they are in, the one registered last.                              *)
(***************************************************************************)
Registered(n) ==
    {e \in UNION {Range(buckets[b]) : b \in DOMAIN buckets} :
        <<e.mname, e.nsname>> = n}

MapOf == [n \in Names |->
    IF Registered(n) = {} THEN NoHost
    ELSE (CHOOSE e \in Registered(n) : \A d \in Registered(n) : d.id <= e.id).host]

Registry == INSTANCE FwRegistry WITH map <- MapOf

=============================================================================

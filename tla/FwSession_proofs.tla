-------------------------- MODULE FwSession_proofs --------------------------
(***************************************************************************)
(* The import registry of the session, lists found by a hash, implements   *)
(* the map of FwRegistry, whatever is registered and whatever is looked up.*)
(*                                                                         *)
(* It does because an entry is in the list of the hash of its names, and   *)
(* because the entries of a list are ordered: the newer, the nearer to its *)
(* head.  The first entry find meets is then the newest of all.            *)
(***************************************************************************)
EXTENDS FwSession, FwLemmas

Buckets == 0..(BucketCount - 1)

EntrySet == [id : Nat, mname : Seq(Nat), nsname : Seq(Nat), host : Hosts,
             m : {"NULL", "hostmname"} \X Nat \X {0},
             n : {"NULL", "hostnsname"} \X Nat \X {0}]

NameOf(e) == <<e.mname, e.nsname>>

\* An entry of a list: in its place by its hash, older than those before it.
InPlace(b, i) ==
    LET e == buckets[b][i]
    IN /\ NameOf(e) \in Names
       /\ InsertHash(e.mname, e.nsname) = b
       /\ e.id < reg
       /\ \A j \in 1..(i - 1) : e.id < buckets[b][j].id

RegistryInv ==
    /\ given \in Cases
    /\ reg \in Nat \ {0}
    /\ buckets \in [Buckets -> Seq(EntrySet)]
    /\ \A b \in Buckets : \A i \in 1..Len(buckets[b]) : InPlace(b, i)

-----------------------------------------------------------------------------
(***************************************************************************)
(* The lists and the map                                                   *)
(***************************************************************************)
\* insert and find hash alike, and within the lists.
LEMMA Hashes ==
    \A mname, nsname \in Seq(Nat) :
        /\ InsertHash(mname, nsname) \in Buckets
        /\ FindHash(mname, nsname) = InsertHash(mname, nsname)
<1> SUFFICES ASSUME NEW mname \in Seq(Nat), NEW nsname \in Seq(Nat)
             PROVE  /\ InsertHash(mname, nsname) \in Buckets
                    /\ FindHash(mname, nsname) = InsertHash(mname, nsname)
  OBVIOUS
<1>1. \A name \in Seq(Nat) : FirstByte(name) \in Nat
  <2> SUFFICES ASSUME NEW name \in Seq(Nat), name # << >> PROVE name[1] \in Nat
    BY DEF FirstByte
  <2>1. 1 \in 1..Len(name)
    BY EmptySeq
  <2> QED  BY <2>1, ElementOfSeq
<1>2. FirstByte(nsname) \in Nat /\ FirstByte(mname) \in Nat
  BY <1>1
<1>3. FirstByte(nsname) + FirstByte(mname) \in Nat
  BY <1>2
<1>4. \A n \in Nat : n % 8 \in 0..(8 - 1)
  OBVIOUS
<1> QED  BY <1>3, <1>4 DEF InsertHash, FindHash, Buckets, BucketCount

\* The entries of the lists, one by one.
LEMMA EachEntry ==
    ASSUME RegistryInv
    PROVE  /\ DOMAIN buckets = Buckets
           /\ \A b \in Buckets : /\ Len(buckets[b]) \in Nat
                                 /\ DOMAIN buckets[b] = 1..Len(buckets[b])
                                 /\ \A i \in 1..Len(buckets[b]) : buckets[b][i] \in EntrySet
           /\ \A n : \A e : e \in Registered(n) <=>
                 \E b \in Buckets : \E i \in 1..Len(buckets[b]) :
                    e = buckets[b][i] /\ NameOf(e) = n
<1>1. DOMAIN buckets = Buckets
  BY DEF RegistryInv
<1>2. \A b \in Buckets : /\ Len(buckets[b]) \in Nat
                         /\ DOMAIN buckets[b] = 1..Len(buckets[b])
                         /\ \A i \in 1..Len(buckets[b]) : buckets[b][i] \in EntrySet
  <2> SUFFICES ASSUME NEW b \in Buckets
               PROVE  /\ Len(buckets[b]) \in Nat
                      /\ DOMAIN buckets[b] = 1..Len(buckets[b])
                      /\ \A i \in 1..Len(buckets[b]) : buckets[b][i] \in EntrySet
    OBVIOUS
  <2>1. buckets[b] \in Seq(EntrySet)
    BY DEF RegistryInv
  <2> QED  BY <2>1, LenProperties, ElementOfSeq
<1>3. ASSUME NEW n, NEW e
      PROVE  e \in Registered(n) <=>
                 \E b \in Buckets : \E i \in 1..Len(buckets[b]) :
                    e = buckets[b][i] /\ NameOf(e) = n
  BY <1>1, <1>2 DEF Registered, Range, NameOf
<1> QED  BY <1>1, <1>2, <1>3

\* The host that find answers is the newest of all with the names.
LEMMA FindsNewest ==
    ASSUME RegistryInv, NEW mname, NEW nsname
    PROVE  Found(mname, nsname)
             = IF <<mname, nsname>> \in Names THEN MapOf[<<mname, nsname>>] ELSE NoHost
<1> DEFINE name   == <<mname, nsname>>
           bucket == Searched(mname, nsname)
           hits   == Places(mname, nsname)
<1>1. CASE name \notin Names
  <2>1. hits = {}
    <3> SUFFICES ASSUME NEW i \in hits PROVE FALSE
      OBVIOUS
    <3>1. i \in DOMAIN bucket /\ NameOf(bucket[i]) = name
      BY DEF Places, NameOf
    <3>2. CASE FindHash(mname, nsname) \in DOMAIN buckets
      <4>1. bucket = buckets[FindHash(mname, nsname)] /\ FindHash(mname, nsname) \in Buckets
        BY <3>2, EachEntry DEF Searched
      <4>2. InPlace(FindHash(mname, nsname), i)
        BY <3>1, <4>1, EachEntry DEF RegistryInv
      <4> QED  BY <1>1, <3>1, <4>1, <4>2 DEF InPlace
    <3>3. CASE FindHash(mname, nsname) \notin DOMAIN buckets
      <4>1. bucket = << >>
        BY <3>3 DEF Searched
      <4> QED  BY <3>1, <4>1
    <3> QED  BY <3>2, <3>3
  <2> QED  BY <1>1, <2>1 DEF Found
<1>2. CASE name \in Names
  <2> DEFINE b == FindHash(mname, nsname)
  <2>1. mname \in Seq(Nat) /\ nsname \in Seq(Nat)
    BY <1>2, NamesAssumption
  <2>2. b \in Buckets /\ b = InsertHash(mname, nsname)
    BY <2>1, Hashes
  <2>3. /\ bucket = buckets[b] /\ Len(bucket) \in Nat
        /\ DOMAIN bucket = 1..Len(bucket)
        /\ \A i \in 1..Len(bucket) : bucket[i] \in EntrySet
    BY <2>2, EachEntry DEF Searched
  <2> HIDE DEF b
  <2>4. \A i \in 1..Len(bucket) :
           i \in hits <=> NameOf(bucket[i]) = name
    BY <2>3 DEF Places, NameOf
  <2>5. hits \subseteq 1..Len(bucket)
    BY <2>3 DEF Places
  <2>6. \A e : e \in Registered(name) <=> \E i \in hits : e = bucket[i]
    <3>1. ASSUME NEW i \in hits PROVE bucket[i] \in Registered(name)
      BY <2>2, <2>3, <2>4, <2>5, EachEntry
    <3>2. ASSUME NEW e \in Registered(name) PROVE \E i \in hits : e = bucket[i]
      <4>1. PICK c \in Buckets : \E i \in 1..Len(buckets[c]) :
                    e = buckets[c][i] /\ NameOf(e) = name
        BY EachEntry
      <4>2. PICK i \in 1..Len(buckets[c]) : e = buckets[c][i] /\ NameOf(e) = name
        BY <4>1
      <4>3. InsertHash(e.mname, e.nsname) = c
        BY <4>2 DEF RegistryInv, InPlace
      <4>4. e.mname = mname /\ e.nsname = nsname
        BY <4>2 DEF NameOf
      <4>5. c = b
        BY <2>2, <4>3, <4>4
      <4> QED  BY <2>3, <2>4, <4>2, <4>5
    <3> QED  BY <3>1, <3>2
  <2>7. ASSUME NEW i \in hits, NEW k \in hits, k < i PROVE bucket[i].id < bucket[k].id
    <3>1. i \in 1..Len(bucket) /\ k \in 1..(i - 1)
      BY <2>3, <2>5, <2>7
    <3>2. InPlace(b, i)
      BY <2>2, <2>3, <3>1 DEF RegistryInv
    <3> QED  BY <2>3, <3>1, <3>2 DEF InPlace
  <2>8. \A i \in hits : bucket[i].id \in Nat
    BY <2>3, <2>5 DEF EntrySet
  <2>9. CASE hits = {}
    <3>1. Registered(name) = {}
      BY <2>6, <2>9
    <3> QED  BY <1>2, <2>9, <3>1 DEF Found, MapOf
  <2>10. CASE hits # {}
    <3> DEFINE first == CHOOSE i \in hits : \A j \in hits : i <= j
    <3>1. first \in hits /\ \A j \in hits : first <= j
      <4>1. hits \in SUBSET Nat
        BY <2>3, <2>5
      <4>2. \E i \in hits : \A j \in hits : i <= j
        BY <2>10, <4>1, Least
      <4> QED  BY <4>2
    <3> HIDE DEF first
    <3>2. \A i \in hits : i = first \/ first < i
      BY <2>3, <2>5, <3>1
    <3>3. \A i \in hits : bucket[i].id <= bucket[first].id
      BY <2>7, <2>8, <3>1, <3>2
    <3>4. ASSUME NEW e \in Registered(name), \A d \in Registered(name) : d.id <= e.id
          PROVE  e = bucket[first]
      <4>1. PICK i \in hits : e = bucket[i]
        BY <2>6
      <4>2. bucket[first] \in Registered(name)
        BY <2>6, <3>1
      <4>3. CASE first < i
        <5>1. bucket[i].id < bucket[first].id /\ bucket[first].id <= bucket[i].id
          BY <2>7, <3>1, <3>4, <4>1, <4>2, <4>3
        <5> QED  BY <2>8, <3>1, <5>1
      <4> QED  BY <3>2, <4>1, <4>3
    <3>5. bucket[first] \in Registered(name)
          /\ \A d \in Registered(name) : d.id <= bucket[first].id
      BY <2>6, <3>1, <3>3
    <3>6. (CHOOSE e \in Registered(name) : \A d \in Registered(name) : d.id <= e.id)
            = bucket[first]
      BY <3>4, <3>5
    <3>7. Found(mname, nsname) = bucket[first].host
      BY <2>10 DEF Found, first
    <3>8. MapOf[name] = bucket[first].host
      BY <1>2, <3>5, <3>6 DEF MapOf
    <3> QED  BY <1>2, <3>7, <3>8
  <2> QED  BY <2>9, <2>10
<1> QED  BY <1>1, <1>2

-----------------------------------------------------------------------------
(***************************************************************************)
(* Steps                                                                   *)
(***************************************************************************)
\* list_add: the new entry is the first.
LEMMA AddedFirst ==
    ASSUME NEW S, NEW s \in Seq(S), NEW e \in S
    PROVE  /\ <<e>> \o s \in Seq(S)
           /\ Len(<<e>> \o s) = Len(s) + 1
           /\ (<<e>> \o s)[1] = e
           /\ \A i \in 1..Len(s) : (<<e>> \o s)[i + 1] = s[i]
<1>1. /\ <<e>> \in Seq(S) /\ Len(<<e>>) = 1 /\ <<e>>[1] = e
  OBVIOUS
<1>2. Len(s) \in Nat
  BY LenProperties
<1>3. /\ <<e>> \o s \in Seq(S)
      /\ Len(<<e>> \o s) = Len(<<e>>) + Len(s)
      /\ \A i \in 1..(Len(<<e>>) + Len(s)) : (<<e>> \o s)[i] =
            IF i <= Len(<<e>>) THEN <<e>>[i] ELSE s[i - Len(<<e>>)]
  BY <1>1, ConcatProperties
<1> QED  BY <1>1, <1>2, <1>3

\* What the driver registers.
LEMMA Registering ==
    ASSUME RegistryInv, reg <= Len(given.regs)
    PROVE  /\ given.regs[reg] \in Registrations
           /\ <<given.regs[reg].mname, given.regs[reg].nsname>> \in Names
<1>1. given.regs \in Seq(Registrations)
  BY CasesAssumption DEF RegistryInv
<1>2. Len(given.regs) \in Nat /\ DOMAIN given.regs = 1..Len(given.regs)
  BY <1>1, LenProperties
<1>3. reg \in 1..Len(given.regs)
  BY <1>2 DEF RegistryInv
<1> QED  BY <1>1, <1>2, <1>3, ElementOfSeq, CasesAssumption DEF RegistryInv

\* A function is registered: the entry is the newest, in the list of its hash.
LEMMA EntryAdded ==
    ASSUME RegistryInv, NEW r \in Registrations, <<r.mname, r.nsname>> \in Names,
           NEW m \in Answer(EntryObjs(reg)[2]), NEW n \in Answer(EntryObjs(reg)[3]),
           buckets' = [buckets EXCEPT ![InsertHash(r.mname, r.nsname)] =
                                <<Entry(reg, r, m, n)>> \o @],
           given' = given, reg' = reg + 1
    PROVE  /\ RegistryInv'
           /\ MapOf' = [MapOf EXCEPT ![<<r.mname, r.nsname>>] = r.host]
<1> DEFINE h == InsertHash(r.mname, r.nsname)
           e == Entry(reg, r, m, n)
           name == <<r.mname, r.nsname>>
<1>1. h \in Buckets
  BY Hashes DEF Registrations
<1>2. /\ e \in EntrySet /\ NameOf(e) = name /\ e.id = reg /\ e.host = r.host
      /\ InsertHash(e.mname, e.nsname) = h
  <2>1. /\ m \in {"NULL", "hostmname"} \X Nat \X {0}
        /\ n \in {"NULL", "hostnsname"} \X Nat \X {0}
    BY DEF Answer, EntryObjs, Obj, Null, RegistryInv
  <2> QED  BY <2>1 DEF Entry, EntrySet, NameOf, Registrations, RegistryInv
<1> HIDE DEF h, e
<1>3. /\ buckets' = [buckets EXCEPT ![h] = <<e>> \o @]
      /\ buckets \in [Buckets -> Seq(EntrySet)]
      /\ \A b \in Buckets : Len(buckets[b]) \in Nat
  BY EachEntry DEF h, e, RegistryInv
<1>4. /\ buckets' \in [Buckets -> Seq(EntrySet)]
      /\ \A b \in Buckets \ {h} : buckets'[b] = buckets[b]
      /\ Len(buckets'[h]) = Len(buckets[h]) + 1
      /\ buckets'[h][1] = e
      /\ \A i \in 1..Len(buckets[h]) : buckets'[h][i + 1] = buckets[h][i]
  <2>1. buckets'[h] = <<e>> \o buckets[h]
    BY <1>1, <1>3
  <2>2. buckets[h] \in Seq(EntrySet)
    BY <1>1, <1>3
  <2>3. <<e>> \o buckets[h] \in Seq(EntrySet)
    BY <1>2, <2>2, AddedFirst
  <2>4. buckets' \in [Buckets -> Seq(EntrySet)]
        /\ \A b \in Buckets \ {h} : buckets'[b] = buckets[b]
    BY <1>1, <1>3, <2>3
  <2> QED  BY <1>2, <2>1, <2>2, <2>4, AddedFirst
<1>5. ASSUME NEW b \in Buckets, NEW i \in 1..Len(buckets'[b])
      PROVE  InPlace(b, i)'
  <2> USE DEF RegistryInv
  <2>1. CASE b # h
    <3>1. buckets'[b] = buckets[b]
      BY <1>4, <2>1
    <3>2. i \in 1..Len(buckets[b])
      BY <1>5, <3>1
    <3>3. InPlace(b, i)
      BY <3>2
    <3>4. buckets[b][i] \in EntrySet /\ reg \in Nat
      BY <3>2, EachEntry
    <3>5. buckets[b][i].id \in Nat
      BY <3>4 DEF EntrySet
    <3>6. buckets[b][i].id < reg'
      BY <1>1, <3>3, <3>4, <3>5 DEF InPlace
    <3> QED  BY <3>1, <3>3, <3>6 DEF InPlace, InsertHash
  <2>2. CASE b = h /\ i = 1
    <3>1. buckets'[b][i] = e
      BY <1>4, <2>2
    <3>2. \A j \in 1..(i - 1) : FALSE
      BY <2>2
    <3>3. NameOf(e) \in Names /\ InsertHash(e.mname, e.nsname) = b /\ e.id < reg'
      BY <1>2, <2>2
    <3> QED  BY <3>1, <3>2, <3>3 DEF InPlace, InsertHash
  <2>3. CASE b = h /\ i # 1
    <3> DEFINE k == i - 1
    <3>1. k \in 1..Len(buckets[h]) /\ i = k + 1
      BY <1>1, <1>3, <1>4, <1>5, <2>3
    <3>2. InPlace(h, k) /\ buckets'[h][i] = buckets[h][k]
      BY <1>1, <1>4, <3>1
    <3>3. buckets[h][k].id \in Nat
      BY <1>1, <3>1, EachEntry DEF EntrySet
    <3>4. ASSUME NEW j \in 1..(i - 1) PROVE buckets[h][k].id < buckets'[h][j].id
      <4>1. CASE j = 1
        BY <1>2, <1>4, <3>2, <4>1 DEF InPlace
      <4>2. CASE j # 1
        <5>1. j - 1 \in 1..(k - 1) /\ j - 1 \in 1..Len(buckets[h])
          BY <1>1, <1>3, <3>1, <3>4, <4>2
        <5>2. buckets'[h][(j - 1) + 1] = buckets[h][j - 1]
          BY <1>4, <5>1
        <5>3. (j - 1) + 1 = j
          BY <3>4
        <5> QED  BY <3>2, <5>1, <5>2, <5>3 DEF InPlace
      <4> QED  BY <4>1, <4>2
    <3>5. /\ NameOf(buckets'[b][i]) \in Names
          /\ buckets'[b][i].id = buckets[h][k].id
          /\ InsertHash(buckets'[b][i].mname, buckets'[b][i].nsname) = b
      BY <2>3, <3>2 DEF InPlace
    <3>6. buckets'[b][i].id < reg'
      <4>1. buckets[h][k].id < reg /\ reg \in Nat
        BY <3>2 DEF InPlace
      <4> HIDE DEF RegistryInv, k
      <4> QED  BY <3>3, <3>5, <4>1
    <3>7. \A j \in 1..(i - 1) : buckets'[b][i].id < buckets'[b][j].id
      BY <2>3, <3>4, <3>5
    <3> HIDE DEF k
    <3> QED  BY <3>5, <3>6, <3>7 DEF InPlace, InsertHash
  <2> QED  BY <2>1, <2>2, <2>3
<1>6. RegistryInv'
  BY <1>4, <1>5 DEF RegistryInv
<1>7. ASSUME NEW p, NEW d
      PROVE  d \in Registered(p)' <=> d \in Registered(p) \/ (d = e /\ p = name)
  <2>1. d \in Registered(p)' <=> \E b \in Buckets : \E i \in 1..Len(buckets'[b]) :
                                    d = buckets'[b][i] /\ NameOf(d) = p
    <3>1. DOMAIN buckets' = Buckets
      BY <1>4
    <3>2. \A b \in Buckets : DOMAIN buckets'[b] = 1..Len(buckets'[b])
      BY <1>4, LenProperties
    <3> QED  BY <3>1, <3>2 DEF Registered, Range, NameOf
  <2>2. d \in Registered(p) <=> \E b \in Buckets : \E i \in 1..Len(buckets[b]) :
                                    d = buckets[b][i] /\ NameOf(d) = p
    BY EachEntry
  <2>3. ASSUME d \in Registered(p)' PROVE d \in Registered(p) \/ (d = e /\ p = name)
    <3>1. PICK b, i : /\ b \in Buckets /\ i \in 1..Len(buckets'[b])
                     /\ d = buckets'[b][i] /\ NameOf(d) = p
      BY <2>1, <2>3
    <3>2. CASE b # h
      BY <1>4, <2>2, <3>1, <3>2
    <3>3. CASE b = h /\ i = 1
      BY <1>2, <1>4, <3>1, <3>3
    <3>4. CASE b = h /\ i # 1
      <4>1. i - 1 \in 1..Len(buckets[h]) /\ (i - 1) + 1 = i
        BY <1>1, <1>3, <1>4, <3>1, <3>4
      <4>2. buckets'[h][(i - 1) + 1] = buckets[h][i - 1]
        BY <1>4, <4>1
      <4> QED  BY <1>1, <2>2, <3>1, <3>4, <4>1, <4>2
    <3> QED  BY <3>2, <3>3, <3>4
  <2>4. ASSUME d = e, p = name PROVE d \in Registered(p)'
    <3>1. 1 \in 1..Len(buckets'[h])
      BY <1>1, <1>3, <1>4
    <3> QED  BY <1>1, <1>2, <1>4, <2>1, <2>4, <3>1
  <2>5. ASSUME d \in Registered(p) PROVE d \in Registered(p)'
    <3>1. PICK b, i : /\ b \in Buckets /\ i \in 1..Len(buckets[b])
                     /\ d = buckets[b][i] /\ NameOf(d) = p
      BY <2>2, <2>5
    <3>2. CASE b # h
      BY <1>4, <2>1, <3>1, <3>2
    <3>3. CASE b = h
      <4>1. i + 1 \in 1..Len(buckets'[h]) /\ buckets'[h][i + 1] = buckets[h][i]
        BY <1>1, <1>3, <1>4, <3>1, <3>3
      <4> QED  BY <1>1, <2>1, <3>1, <3>3, <4>1
    <3> QED  BY <3>2, <3>3
  <2> QED  BY <2>3, <2>4, <2>5
<1>8. ASSUME NEW p, p # name PROVE Registered(p)' = Registered(p)
  <2>1. \A d : d \in Registered(p)' <=> d \in Registered(p)
    BY <1>7, <1>8
  <2> QED  BY <2>1
<1>9. \A d \in Registered(name) : d.id \in Nat /\ d.id < reg
  <2> SUFFICES ASSUME NEW d \in Registered(name) PROVE d.id \in Nat /\ d.id < reg
    OBVIOUS
  <2>1. PICK b, i : /\ b \in Buckets /\ i \in 1..Len(buckets[b])
                     /\ d = buckets[b][i]
    BY EachEntry
  <2> QED  BY <2>1, EachEntry DEF RegistryInv, InPlace, EntrySet
<1>10. (CHOOSE d \in Registered(name)' : \A c \in Registered(name)' : c.id <= d.id) = e
  <2>1. reg \in Nat
    BY DEF RegistryInv
  <2>2. e \in Registered(name)' /\ \A c \in Registered(name)' : c.id <= e.id
    BY <1>2, <1>7, <1>9, <2>1
  <2>3. ASSUME NEW d \in Registered(name)', \A c \in Registered(name)' : c.id <= d.id
        PROVE  d = e
    <3>1. e.id <= d.id
      BY <2>2, <2>3
    <3> QED  BY <1>2, <1>7, <1>9, <2>1, <3>1
  <2> QED  BY <2>2, <2>3
<1>11. MapOf' = [MapOf EXCEPT ![name] = r.host]
  <2>1. \A p \in Names : MapOf'[p] = IF p = name THEN r.host ELSE MapOf[p]
    <3> SUFFICES ASSUME NEW p \in Names
                 PROVE  MapOf'[p] = IF p = name THEN r.host ELSE MapOf[p]
      OBVIOUS
    <3>1. CASE p = name
      <4>1. Registered(name)' # {}
        BY <1>7
      <4> QED  BY <1>2, <1>10, <3>1, <4>1 DEF MapOf
    <3>2. CASE p # name
      <4>1. Registered(p)' = Registered(p)
        BY <1>8, <3>2
      <4> QED  BY <3>2, <4>1 DEF MapOf
    <3> QED  BY <3>1, <3>2
  <2>2. /\ MapOf = [p \in Names |-> MapOf[p]]
        /\ MapOf' = [p \in Names |-> MapOf'[p]]
    BY DEF MapOf
  <2> HIDE DEF name
  <2> QED  BY <2>1, <2>2
<1> QED  BY <1>6, <1>11

LEMMA InitRegistry == Init => RegistryInv /\ Registry!Init
<1> SUFFICES ASSUME Init PROVE RegistryInv /\ Registry!Init
  OBVIOUS
<1>1. /\ buckets = [b \in Buckets |-> << >>] /\ answer = << >>
      /\ given \in Cases /\ reg = 1
  BY DEF Init, ImportsInit, Buckets
<1>2. << >> \in Seq(EntrySet) /\ Len(<< >>) = 0
  BY EmptySeq
<1>3. RegistryInv
  BY <1>1, <1>2 DEF RegistryInv
<1>4. \A n : Registered(n) = {}
  <2> SUFFICES ASSUME NEW n, NEW e \in Registered(n) PROVE FALSE
    OBVIOUS
  <2>1. \E b \in Buckets : \E i \in 1..Len(buckets[b]) : e = buckets[b][i]
    BY <1>3, EachEntry
  <2> QED  BY <1>1, <1>2, <2>1
<1>5. MapOf = [n \in Names |-> NoHost]
  BY <1>4 DEF MapOf
<1> QED  BY <1>1, <1>3, <1>5 DEF Registry!Init, Registry!Nothing

\* A step that leaves the lists alone.
LEMMA ListsStay ==
    ASSUME RegistryInv, UNCHANGED <<buckets, given>>, reg' \in {reg, reg + 1}
    PROVE  RegistryInv' /\ MapOf' = MapOf
<1>1. ASSUME NEW b \in Buckets, NEW i \in 1..Len(buckets[b])
      PROVE  InPlace(b, i)'
  <2>1. InPlace(b, i) /\ buckets[b][i].id \in Nat /\ reg \in Nat
    BY EachEntry DEF RegistryInv, EntrySet
  <2> QED  BY <2>1 DEF InPlace, InsertHash
<1>2. RegistryInv'
  BY <1>1 DEF RegistryInv
<1>3. ASSUME NEW p PROVE Registered(p)' = Registered(p)
  BY DEF Registered
<1>4. ASSUME NEW p \in Names PROVE MapOf'[p] = MapOf[p]
  <2>1. Registered(p)' = Registered(p)
    BY <1>3
  <2> QED  BY <2>1 DEF MapOf
<1>5. MapOf = [p \in Names |-> MapOf[p]] /\ MapOf' = [p \in Names |-> MapOf'[p]]
  BY DEF MapOf
<1>6. MapOf' = MapOf
  BY <1>4, <1>5
<1> QED  BY <1>2, <1>6

\* A registration is a Register of the map, or nothing, for want of memory.
LEMMA RegisterStep ==
    ASSUME RegistryInv, RegisterNext
    PROVE  RegistryInv' /\ [Registry!Next]_<<MapOf, answer>>
<1> DEFINE r == given.regs[reg]
<1>1. reg <= Len(given.regs) /\ reg' = reg + 1 /\ UNCHANGED given
  BY DEF RegisterNext
<1>2. r \in Registrations /\ <<r.mname, r.nsname>> \in Names /\ r.host \in Hosts
  BY <1>1, Registering DEF Registrations
<1>3. CASE UNCHANGED <<buckets, answer>>
  BY <1>1, <1>3, ListsStay
<1>4. CASE /\ \E m \in Answer(EntryObjs(reg)[2]), n \in Answer(EntryObjs(reg)[3]) :
                 buckets' = [buckets EXCEPT ![InsertHash(r.mname, r.nsname)] =
                                <<Entry(reg, r, m, n)>> \o @]
           /\ UNCHANGED answer
  <2>1. PICK m \in Answer(EntryObjs(reg)[2]), n \in Answer(EntryObjs(reg)[3]) :
                 buckets' = [buckets EXCEPT ![InsertHash(r.mname, r.nsname)] =
                                <<Entry(reg, r, m, n)>> \o @]
    BY <1>4
  <2>2. RegistryInv' /\ MapOf' = [MapOf EXCEPT ![<<r.mname, r.nsname>>] = r.host]
    BY <1>1, <1>2, <2>1, EntryAdded
  <2>3. Registry!Register(<<r.mname, r.nsname>>, r.host)
    BY <1>4, <2>2 DEF Registry!Register
  <2> QED  BY <1>2, <2>2, <2>3 DEF Registry!Next
<1>5. CASE r.global
  <2>1. AddGlobal(reg, r)
    BY <1>5 DEF RegisterNext
  <2> QED  BY <1>3, <2>1 DEF AddGlobal
<1>6. CASE ~r.global
  <2>1. AddFunc(reg, r)
    BY <1>6 DEF RegisterNext
  <2> QED  BY <1>3, <1>4, <2>1 DEF AddFunc, importsVars
<1> QED  BY <1>5, <1>6

\* A lookup is a Resolve, whatever the names in the file.
LEMMA ResolveStep ==
    ASSUME RegistryInv, ResolveImport, UNCHANGED <<given, reg>>
    PROVE  RegistryInv' /\ [Registry!Next]_<<MapOf, answer>>
<1>1. UNCHANGED buckets
  BY DEF ResolveImport
<1>2. RegistryInv' /\ MapOf' = MapOf
  BY <1>1, ListsStay
<1>3. CASE UNCHANGED answer
  BY <1>2, <1>3
<1>4. CASE answer' # answer
  <2>1. PICK mname, nsname : answer' = <<<<mname, nsname>>, Found(mname, nsname)>>
    BY <1>4 DEF ResolveImport
  <2>2. Found(mname, nsname) = Registry!Lookup(<<mname, nsname>>)
    BY FindsNewest DEF Registry!Lookup
  <2>3. Registry!Resolve
    BY <1>2, <2>1, <2>2 DEF Registry!Resolve, Registry!Lookup
  <2> QED  BY <1>2, <2>3 DEF Registry!Next
<1> QED  BY <1>3, <1>4

\* fw_imports_wrap_free clears the map.
LEMMA FreeStep ==
    ASSUME RegistryInv, Succeeds
    PROVE  RegistryInv' /\ [Registry!Next]_<<MapOf, answer>>
<1>1. /\ buckets' = [b \in Buckets |-> << >>]
      /\ UNCHANGED <<answer, given, reg>>
  BY EachEntry DEF Succeeds, FreeWrap
<1>2. << >> \in Seq(EntrySet) /\ Len(<< >>) = 0
  BY EmptySeq
<1>3. RegistryInv'
  BY <1>1, <1>2 DEF RegistryInv
<1>4. \A n : Registered(n)' = {}
  BY <1>1 DEF Registered, Range
<1>5. MapOf' = [n \in Names |-> NoHost]
  BY <1>4 DEF MapOf
<1>6. Registry!Clear
  BY <1>1, <1>5 DEF Registry!Clear, Registry!Nothing
<1> QED  BY <1>3, <1>6 DEF Registry!Next

LEMMA StepRegistry ==
    RegistryInv /\ [Next]_vars => RegistryInv' /\ [Registry!Next]_<<MapOf, answer>>
<1> SUFFICES ASSUME RegistryInv, [Next]_vars
             PROVE  RegistryInv' /\ [Registry!Next]_<<MapOf, answer>>
  OBVIOUS
<1>1. CASE UNCHANGED <<buckets, answer, given, reg>>
  BY <1>1, ListsStay
<1>2. CASE LoaderStep
  BY <1>1, <1>2 DEF LoaderStep, importsVars
<1>3. CASE InstanceStep
  <2>1. CASE CompileNext
    <3>1. CASE ResolveImport
      BY <1>3, <3>1, ResolveStep DEF InstanceStep
    <3>2. CASE CompileBegins \/ TableOwn \/ BindExport \/ CompileEnds
      BY <1>1, <1>3, <3>2
      DEF InstanceStep, CompileBegins, TableOwn, BindExport, CompileEnds, importsVars
    <3> QED  BY <2>1, <3>1, <3>2 DEF CompileNext
  <2>2. CASE Run(Main)
    BY <1>1, <1>3, <2>2 DEF InstanceStep, Run, importsVars
  <2> QED  BY <1>3, <2>1, <2>2 DEF InstanceStep
<1>4. CASE LoadedNothing \/ RegisteredAll \/ Compiled \/ GivesUp
  BY <1>1, <1>4 DEF LoadedNothing, RegisteredAll, Compiled, GivesUp, importsVars
<1>5. CASE LoadedModule
  BY <1>1, <1>5 DEF LoadedModule, NewWrap, importsVars
<1>6. CASE RegisterNext
  BY <1>6, RegisterStep
<1>7. CASE Succeeds
  BY <1>7, FreeStep
<1>8. CASE UNCHANGED vars
  BY <1>1, <1>8 DEF vars, importsVars
<1> QED  BY <1>2, <1>3, <1>4, <1>5, <1>6, <1>7, <1>8 DEF Next

(* The import registry of the session implements the map of FwRegistry:    *)
(* find answers the host that was registered last for both names, for any  *)
(* names of a file and any registrations of the driver.                    *)
THEOREM RegistryRefines == Spec => RegistryImplements
<1>1. Init => RegistryInv /\ Registry!Init
  BY InitRegistry
<1>2. RegistryInv /\ [Next]_vars => RegistryInv' /\ [Registry!Next]_<<MapOf, answer>>
  BY StepRegistry
<1> QED  BY <1>1, <1>2, PTL DEF Spec, RegistryImplements, Registry!Spec, Registry!registryVars

=============================================================================

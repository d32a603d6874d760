----------------------------- MODULE Records_proofs -----------------------------
(***************************************************************************)
(* What the backend keeps: the log of what left, for any call sites,       *)
(* retention periods, clocks and tampering.                                *)
(***************************************************************************)
EXTENDS EgressLog, MemorySpine, Knowledge, TLAPS, FiniteSetTheorems, SequenceTheorems, WellFoundedInduction

(* Any numbers have a least among them: induction, without an operator.     *)
LEMMA LeastNatural ==
  ASSUME NEW T, T \subseteq Nat, T # {}
  PROVE  \E x \in T : \A y \in T : x <= y
<1>1. PICK x \in T : \A y \in T : ~ (<<y, x>> \in OpToRel(<, Nat))
  BY NatLessThanWellFounded, WFMin
<1>2. \A y \in T : ~(y < x)
  BY <1>1 DEF OpToRel
<1> QED BY <1>2

LEMMA SameCount ==
  ASSUME NEW S, NEW T, IsFiniteSet(S), NEW f \in [S -> T],
         \A x, y \in S : f[x] = f[y] => x = y, \A t \in T : \E s \in S : f[s] = t
  PROVE  IsFiniteSet(T) /\ Cardinality(T) = Cardinality(S)
<1>1. f \in Bijection(S, T)
  BY DEF Bijection, Injection, Surjection, IsInjective
<1> QED BY <1>1, FS_Bijection DEF ExistsBijection

-----------------------------------------------------------------------------
(* Places in a table, in order. *)

Increasing(at, n) == \A l, m \in 1..n : l < m => at[l] < at[m]

LEMMA AddedLast ==
  ASSUME NEW S, NEW s \in Seq(S), NEW e \in S, NEW t, t = Append(s, e)
  PROVE  /\ t \in Seq(S) /\ Len(t) = Len(s) + 1 /\ t[Len(s) + 1] = e
         /\ \A i \in 1..Len(s) : t[i] = s[i]
BY AppendProperties

LEMMA LastPlace ==
  ASSUME NEW k \in Nat, NEW S \in SUBSET (1..k), S # {}
  PROVE  \E x \in S : \A y \in S : y <= x
<1> DEFINE T == {k - x : x \in S}
<1>1. T \subseteq Nat /\ T # {}
  <2>1. \A x \in S : k - x \in Nat
    OBVIOUS
  <2> QED BY <2>1
<1>2. PICK t \in T : \A u \in T : t <= u
  <2> HIDE DEF T
  <2> QED BY <1>1, LeastNatural
<1>3. PICK x \in S : t = k - x
  BY <1>2
<1>4. \A y \in S : k - x <= k - y
  BY <1>2, <1>3
<1> QED BY <1>4

LEMMA PlacesHaveAnOrder ==
  ASSUME NEW k \in Nat, NEW S \in SUBSET (1..k)
  PROVE  /\ IsFiniteSet(S) /\ Cardinality(S) \in Nat
         /\ \E at \in [1..Cardinality(S) -> S] : Increasing(at, Cardinality(S))
<1> DEFINE Ordered(U) == \E at \in [1..Cardinality(U) -> U] : Increasing(at, Cardinality(U))
           Bad == {U \in SUBSET (1..k) : ~Ordered(U)}
           T == {Cardinality(U) : U \in Bad}
<1>1. \A U \in SUBSET (1..k) : IsFiniteSet(U) /\ Cardinality(U) \in Nat
  <2>1. IsFiniteSet(1..k)
    BY FS_Interval
  <2> QED BY <2>1, FS_Subset, FS_CardinalityType
<1>2. ASSUME Bad # {} PROVE FALSE
  <2>0. T \subseteq Nat /\ T # {}
    BY <1>1, <1>2
  <2>1. PICK n \in T : \A m \in T : n <= m
    <3> HIDE DEF T
    <3> QED BY <2>0, LeastNatural
  <2>2. PICK U \in Bad : n = Cardinality(U)
    BY <2>1
  <2>3. n \in Nat /\ IsFiniteSet(U) /\ U \in SUBSET (1..k) /\ ~Ordered(U)
    BY <1>1, <2>2
  <2>4. CASE U = {}
    <3>1. Cardinality(U) = 0 /\ (1..0) = {}
      BY <2>4, FS_EmptySet
    <3>2. [i \in 1..Cardinality(U) |-> 0] \in [1..Cardinality(U) -> U]
      BY <2>4, <3>1
    <3>3. Increasing([i \in 1..Cardinality(U) |-> 0], Cardinality(U))
      BY <3>1 DEF Increasing
    <3> QED BY <2>3, <3>2, <3>3
  <2>5. CASE U # {}
    <3>1. PICK x \in U : \A y \in U : y <= x
      BY <2>3, <2>5, LastPlace
    <3> DEFINE V == U \ {x}
    <3>2. V \in SUBSET (1..k) /\ Cardinality(V) = n - 1 /\ n >= 1
      <4>1. Cardinality(V) = n - 1
        BY <2>2, <2>3, <3>1, FS_RemoveElement
      <4>2. V \in SUBSET (1..k)
        BY <2>3
      <4>3. Cardinality(V) \in Nat
        BY <1>1, <4>2
      <4> QED BY <2>3, <4>1, <4>2, <4>3
    <3>3. Ordered(V)
      <4>1. V \in Bad => Cardinality(V) \in T
        OBVIOUS
      <4>2. V \notin Bad
        <5> HIDE DEF T, Bad
        <5> QED BY <2>1, <2>3, <3>2, <4>1
      <4> QED BY <3>2, <4>2
    <3>4. PICK at \in [1..(n - 1) -> V] : Increasing(at, n - 1)
      BY <3>2, <3>3
    <3> DEFINE new == [i \in 1..n |-> IF i = n THEN x ELSE at[i]]
    <3>5. new \in [1..n -> U]
      BY <2>3, <3>2, <3>4
    <3>6. Increasing(new, n)
      <4> SUFFICES ASSUME NEW l \in 1..n, NEW m \in 1..n, l < m PROVE new[l] < new[m]
        BY DEF Increasing
      <4>1. l \in 1..(n - 1) /\ at[l] \in V
        BY <2>3, <3>4
      <4>2. CASE m = n
        <5>1. at[l] <= x /\ at[l] # x
          BY <3>1, <4>1
        <5>2. at[l] \in 1..k /\ x \in 1..k
          BY <2>3, <4>1
        <5> QED BY <2>3, <4>1, <4>2, <5>1, <5>2
      <4>3. CASE m # n
        BY <2>3, <3>4, <4>1, <4>3 DEF Increasing
      <4> QED BY <4>2, <4>3
    <3> QED BY <2>2, <2>3, <3>5, <3>6
  <2> QED BY <2>4, <2>5
<1> QED BY <1>1, <1>2

-----------------------------------------------------------------------------
(* The egress log. *)

Places(days) == {i \in DOMAIN rows : ~Doomed(rows[i], days)}

(* k rows are left of a prune, those at these places in this order.         *)
LeftBy(days, k, at) ==
  /\ IsFiniteSet(Places(days)) /\ k \in Nat /\ k <= Len(rows)
  /\ Places(days) \subseteq 1..Len(rows)
  /\ at \in [1..k -> Places(days)] /\ Increasing(at, k)
  /\ \A m, n \in 1..k : at[m] = at[n] => m = n
  /\ \A i \in Places(days) : \E n \in 1..k : at[n] = i
  /\ Survivors(days) = [n \in 1..k |-> rows[at[n]]]
  /\ Survivors(days) \in Seq(Row) /\ Len(Survivors(days)) = k

LEMMA Survive ==
  ASSUME rows \in Seq(Row), NEW days \in Nat
  PROVE  LeftBy(days, Cardinality(Places(days)), InOrder(Places(days)))
<1> SUFFICES ASSUME NEW k, k = Cardinality(Places(days)), NEW at, at = InOrder(Places(days))
             PROVE  LeftBy(days, k, at)
  OBVIOUS
<1> DEFINE P == Places(days)
<1>1. Len(rows) \in Nat /\ P \in SUBSET (1..Len(rows)) /\ Places(days) = P
  BY DEF Places
<1>2. Survivors(days) = [n \in 1..k |-> rows[at[n]]]
  BY DEF Survivors, Places
<1>3. at = CHOOSE new \in [1..k -> P] : \A m, n \in 1..k : m < n => new[m] < new[n]
  BY DEF InOrder
<1> HIDE DEF P
<1>4. IsFiniteSet(P) /\ k \in Nat /\ \E new \in [1..k -> P] : Increasing(new, k)
  BY <1>1, PlacesHaveAnOrder
<1>5. at \in [1..k -> P] /\ Increasing(at, k)
  BY <1>3, <1>4 DEF Increasing
<1>6. k <= Len(rows)
  <2>1. \A l \in Nat : IsFiniteSet(1..l) /\ Cardinality(1..l) = l
    BY FS_Interval
  <2>2. IsFiniteSet(1..Len(rows)) /\ Cardinality(1..Len(rows)) = Len(rows)
    BY <1>1, <2>1
  <2>3. Cardinality(P) <= Cardinality(1..Len(rows))
    BY <1>1, <2>2, FS_Subset
  <2> QED BY <1>1, <2>2, <2>3
<1>7. \A m, n \in 1..k : at[m] = at[n] => m = n
  <2> SUFFICES ASSUME NEW m \in 1..k, NEW n \in 1..k, m < n PROVE at[m] # at[n]
    BY <1>4
  <2>1. at[m] < at[n] /\ at[m] \in 1..Len(rows) /\ at[n] \in 1..Len(rows)
    BY <1>1, <1>5 DEF Increasing
  <2> QED BY <1>1, <2>1
<1>8. at \in Surjection(1..k, P)
  <2>1. at \in Injection(1..k, P)
    BY <1>5, <1>7 DEF Injection, IsInjective
  <2>2. Cardinality(1..k) = k
    BY <1>4, FS_Interval
  <2> QED BY <1>1, <1>4, <2>1, <2>2, FS_Injection
<1>9. Survivors(days) \in Seq(Row) /\ Len(Survivors(days)) = k
  <2>1. \A i \in 1..Len(rows) : rows[i] \in Row
    BY ElementOfSeq
  <2>2. \A n \in 1..k : at[n] \in 1..Len(rows)
    BY <1>1, <1>5
  <2>3. [n \in 1..k |-> rows[at[n]]] \in Seq(Row)
    BY <1>4, <2>1, <2>2, IsASeq
  <2> QED BY <1>2, <1>4, <2>3
<1> QED BY <1>1, <1>2, <1>4, <1>5, <1>6, <1>7, <1>8, <1>9 DEF Surjection, LeftBy

(* The table as a prune leaves it: the marker, and after it what is left.   *)
OnTop(new, marker, table) ==
  /\ new \in Seq(Row) /\ Len(new) = Len(table) + 1
  /\ new[1].of = marker
  /\ \A n \in 1..Len(table) : new[n + 1].of = table[n].of
  /\ \A i \in 1..Len(new) :
       /\ new[i].hash = Hash(new[i].prev, new[i].of)
       /\ new[i].prev = IF i = 1 THEN GENESIS_HASH ELSE new[i - 1].hash

LEMMA Relinks ==
  ASSUME NEW marker \in Payload, NEW table \in Seq(Row)
  PROVE  OnTop(Relink(marker, table), marker, table)
<1> SUFFICES ASSUME NEW new, new = Relink(marker, table) PROVE OnTop(new, marker, table)
  OBVIOUS
<1> DEFINE rest == [i \in 1..Len(table) |-> table[i].of]
           c == <<marker>> \o rest
<1>1. Len(table) \in Nat /\ DOMAIN table = 1..Len(table)
      /\ \A i \in 1..Len(table) : table[i].of \in Payload
  <2>1. Len(table) \in Nat /\ DOMAIN table = 1..Len(table)
    OBVIOUS
  <2>2. \A i \in 1..Len(table) : table[i] \in Row
    BY ElementOfSeq
  <2> QED BY <2>1, <2>2 DEF Row
<1>2. rest \in Seq(Payload) /\ Len(rest) = Len(table)
      /\ \A i \in 1..Len(table) : rest[i] = table[i].of
  BY <1>1, IsASeq
<1>3. /\ c \in Seq(Payload) /\ Len(c) = Len(table) + 1 /\ c[1] = marker
      /\ \A n \in 1..Len(table) : c[n + 1] = table[n].of
      /\ DOMAIN c = 1..Len(c)
  <2> HIDE DEF rest
  <2> QED BY <1>1, <1>2
<1>9. new = [i \in 1..Len(c) |-> [of |-> c[i], prev |-> SubSeq(c, 1, i - 1), hash |-> SubSeq(c, 1, i)]]
  BY <1>1, <1>3 DEF Relink
<1> HIDE DEF c
<1>4. \A i \in 1..Len(c) : /\ SubSeq(c, 1, i - 1) \in Seq(Payload) /\ SubSeq(c, 1, i) \in Seq(Payload)
                           /\ c[i] \in Payload
                           /\ SubSeq(c, 1, i) = Append(SubSeq(c, 1, i - 1), c[i])
  BY <1>3
<1>5. SubSeq(c, 1, 0) = <<>>
  BY <1>3
<1> DEFINE row(i) == [of |-> c[i], prev |-> SubSeq(c, 1, i - 1), hash |-> SubSeq(c, 1, i)]
<1>6. \A i \in 1..Len(c) : row(i) \in Row
  BY <1>4 DEF Row
<1>7. \A i \in 1..Len(c) : /\ row(i).of = c[i] /\ row(i).prev = SubSeq(c, 1, i - 1)
                           /\ row(i).hash = SubSeq(c, 1, i)
  OBVIOUS
<1>8. new = [i \in 1..Len(c) |-> row(i)]
  BY <1>9
<1> HIDE DEF row
<1>10. new \in Seq(Row) /\ Len(new) = Len(c) /\ \A i \in 1..Len(c) : new[i] = row(i)
  BY <1>1, <1>3, <1>6, <1>8, IsASeq
<1>11. ASSUME NEW i \in 1..Len(new)
       PROVE  /\ new[i].hash = Hash(new[i].prev, new[i].of)
              /\ new[i].prev = IF i = 1 THEN GENESIS_HASH ELSE new[i - 1].hash
  <2>1. i \in 1..Len(c) /\ (i # 1 => i - 1 \in 1..Len(c))
    BY <1>1, <1>3, <1>10
  <2>2. new[i].hash = Hash(new[i].prev, new[i].of)
    <3>1. new[i].hash = SubSeq(c, 1, i) /\ new[i].prev = SubSeq(c, 1, i - 1) /\ new[i].of = c[i]
      BY <1>7, <1>10, <2>1
    <3>2. SubSeq(c, 1, i) = Append(SubSeq(c, 1, i - 1), c[i])
      BY <1>4, <2>1
    <3> QED BY <3>1, <3>2 DEF Hash
  <2>3. CASE i = 1
    <3>1. new[1].prev = SubSeq(c, 1, 1 - 1) /\ 1 - 1 = 0
      BY <1>7, <1>10, <2>1, <2>3
    <3> QED BY <1>5, <2>2, <2>3, <3>1 DEF GENESIS_HASH
  <2>4. CASE i # 1
    <3> DEFINE j == i - 1
    <3>1. new[i].prev = SubSeq(c, 1, j) /\ new[j] = row(j) /\ row(j).hash = SubSeq(c, 1, j)
      BY <1>7, <1>10, <2>1, <2>4
    <3> HIDE DEF j
    <3>2. new[i].prev = new[j].hash
      BY <3>1
    <3> QED BY <2>2, <2>4, <3>2 DEF j
  <2> QED BY <2>3, <2>4
<1>12. new[1].of = marker /\ \A n \in 1..Len(table) : new[n + 1].of = table[n].of
  <2>1. 1 \in 1..Len(c) /\ \A n \in 1..Len(table) : n + 1 \in 1..Len(c)
    BY <1>1, <1>3
  <2> QED BY <1>3, <1>7, <1>10, <2>1
<1> QED BY <1>3, <1>10, <1>11, <1>12 DEF OnTop

-----------------------------------------------------------------------------
(* What is true of a log nobody touched: each row is on the one before it,  *)
(* markers too; its contents are those of the write its number is of; the   *)
(* numbers rise; and what was pruned is what the markers count.             *)

Linked ==
  \A i \in 1..Len(rows) :
    /\ rows[i].hash = Hash(rows[i].prev, rows[i].of)
    /\ rows[i].prev = IF i = 1 THEN GENESIS_HASH ELSE rows[i - 1].hash

AsWritten ==
  \A i \in 1..Len(rows) :
    /\ rows[i].of.id \in 1..Len(written) /\ rows[i].of = written[rows[i].of.id]
    /\ IsRequest(rows[i].of) => rows[i].of.removed = 0

Rising ==
  \A i, j \in 1..Len(rows) :
    i < j /\ rows[i].of.by # RetentionPass /\ rows[j].of.by # RetentionPass
      => rows[i].of.id < rows[j].of.id

AddsUp ==
  Cardinality(RequestsInTable) + Cardinality(RequestsCounted) = Cardinality(RequestsWritten)

AsSent(p) == p.text = "as sent"
Numbered ==
  \A n \in 1..Len(written) : written[n].id = n /\ AsSent(written[n])

Untouched == Linked /\ AsWritten /\ Rising /\ AddsUp

LogInv == TypeOK /\ Numbered /\ (tampered = "none" => Untouched) /\ TamperIsSeen

LEMMA TableTypes ==
  ASSUME TypeOK
  PROVE  /\ Len(rows) \in Nat /\ DOMAIN rows = 1..Len(rows)
         /\ \A i \in 1..Len(rows) : rows[i] \in Row /\ rows[i].of \in Payload
                                      /\ rows[i].prev \in Seq(Payload)
                                      /\ rows[i].of.removed \in Nat /\ rows[i].of.id \in Nat
         /\ Len(written) \in Nat /\ DOMAIN written = 1..Len(written)
         /\ \A n \in 1..Len(written) : written[n] \in Payload
<1>1. Len(rows) \in Nat /\ DOMAIN rows = 1..Len(rows)
  BY DEF TypeOK
<1>2. \A i \in 1..Len(rows) : rows[i] \in Row
  BY ElementOfSeq DEF TypeOK
<1>3. \A row \in Row : /\ row.of \in Payload /\ row.prev \in Seq(Payload)
                       /\ row.of.removed \in Nat /\ row.of.id \in Nat
  BY DEF Row, Payload
<1>4. Len(written) \in Nat /\ DOMAIN written = 1..Len(written)
  BY DEF TypeOK
<1>5. \A n \in 1..Len(written) : written[n] \in Payload
  BY ElementOfSeq DEF TypeOK
<1> QED BY <1>1, <1>2, <1>3, <1>4, <1>5

LEMMA EntryType ==
  ASSUME TypeOK, NEW site \in CallSites \cup {RetentionPass}, NEW removed \in Nat
  PROVE  /\ Entry(site, removed) \in Payload /\ AsSent(Entry(site, removed))
         /\ Entry(site, removed).by = site /\ Entry(site, removed).id = Len(written) + 1
         /\ Entry(site, removed).removed = removed
<1>1. Len(written) + 1 \in Nat /\ clock \in Int
  BY TableTypes DEF TypeOK
<1> QED BY <1>1 DEF Entry, Payload, AsSent

(* Written down as one more. *)
LEMMA NumberedStays ==
  ASSUME TypeOK, Numbered, NEW p \in Payload, p.id = Len(written) + 1, AsSent(p),
         written' = Append(written, p)
  PROVE  /\ written' \in Seq(Payload) /\ Numbered'
         /\ Len(written') = Len(written) + 1 /\ written'[Len(written) + 1] = p
         /\ \A n \in 1..Len(written) : written'[n] = written[n]
<1>1. /\ Len(written') = Len(written) + 1 /\ written'[Len(written) + 1] = p
      /\ \A n \in 1..Len(written) : written'[n] = written[n]
      /\ written' \in Seq(Payload)
  <2>1. written \in Seq(Payload)
    BY DEF TypeOK
  <2> QED BY <2>1, AddedLast
<1>2. \A l \in Nat : \A n \in 1..(l + 1) : n \in 1..l \/ n = l + 1
  OBVIOUS
<1>4. Len(written) \in Nat
  BY TableTypes
<1>3. Numbered'
  BY <1>1, <1>2, <1>4 DEF Numbered
<1> QED BY <1>1, <1>3

LEMMA CountedIs ==
  ASSUME TypeOK
  PROVE  /\ \A i, m : <<i, m>> \in RequestsCounted
                        <=> i \in 1..Len(rows) /\ m \in 1..rows[i].of.removed
         /\ \A p \in RequestsCounted : \E i \in 1..Len(rows) :
              \E m \in 1..rows[i].of.removed : p = <<i, m>>
BY TableTypes DEF RequestsCounted

LEMMA CountsAreFinite ==
  ASSUME TypeOK
  PROVE  /\ IsFiniteSet(RequestsInTable) /\ Cardinality(RequestsInTable) \in Nat
         /\ IsFiniteSet(RequestsWritten) /\ Cardinality(RequestsWritten) \in Nat
         /\ IsFiniteSet(RequestsCounted) /\ Cardinality(RequestsCounted) \in Nat
<1>1. \A n \in Nat : IsFiniteSet(1..n)
  BY FS_Interval
<1>2. IsFiniteSet(RequestsInTable) /\ IsFiniteSet(RequestsWritten)
  BY <1>1, TableTypes, FS_Subset DEF RequestsInTable, RequestsWritten
<1>3. IsFiniteSet(RequestsCounted)
  <2> DEFINE Of(i) == {i} \X (1..rows[i].of.removed)
             Parts == {Of(i) : i \in 1..Len(rows)}
  <2>1. \A i \in 1..Len(rows) : IsFiniteSet(Of(i))
    BY <1>1, TableTypes, FS_Singleton, FS_Product
  <2>2. IsFiniteSet(Parts)
    <3>1. IsFiniteSet(1..Len(rows))
      BY <1>1, TableTypes
    <3> DEFINE f == [i \in 1..Len(rows) |-> Of(i)]
    <3>2. f \in Surjection(1..Len(rows), Parts)
      BY DEF Surjection
    <3> QED BY <3>1, <3>2, FS_Surjection
  <2>3. RequestsCounted = UNION Parts
    BY TableTypes DEF RequestsCounted
  <2>4. \A T \in Parts : IsFiniteSet(T)
    BY <2>1
  <2> HIDE DEF Parts
  <2> QED BY <2>2, <2>3, <2>4, FS_UNION
<1> QED BY <1>2, <1>3, FS_CardinalityType

(* The same of the next state. *)
Countable ==
  /\ \A i, m : <<i, m>> \in RequestsCounted <=> i \in 1..Len(rows) /\ m \in 1..rows[i].of.removed
  /\ \A p \in RequestsCounted : \E i \in 1..Len(rows) :
       \E m \in 1..rows[i].of.removed : p = <<i, m>>
  /\ IsFiniteSet(RequestsInTable) /\ Cardinality(RequestsInTable) \in Nat
  /\ IsFiniteSet(RequestsCounted) /\ Cardinality(RequestsCounted) \in Nat

LEMMA CountsNext == TypeOK' => Countable'
<1>1. TypeOK => Countable
  BY CountedIs, CountsAreFinite DEF Countable
<1> QED BY <1>1, PTL

-----------------------------------------------------------------------------
(* append *)

LEMMA WriteIs ==
  ASSUME LogInv, NEW site \in Sites, Write(site)
  PROVE  /\ TypeOK' /\ Numbered' /\ tampered' = tampered /\ relinked' = relinked /\ blind' = blind
         /\ Len(rows') = Len(rows) + 1 /\ Len(written') = Len(written) + 1
         /\ \A i \in 1..Len(rows) : rows'[i] = rows[i]
         /\ \A n \in 1..Len(written) : written'[n] = written[n]
         /\ LET new == rows'[Len(rows) + 1] IN
            /\ new.of = written'[Len(written) + 1] /\ new.of.id = Len(written) + 1
            /\ new.of.removed = 0 /\ new.of.by = site
            /\ new.hash = Hash(new.prev, new.of)
            /\ new.prev = IF Len(rows) = 0 THEN GENESIS_HASH ELSE rows[Len(rows)].hash
<1> DEFINE p == Entry(site, 0)
           new == [of |-> p, prev |-> LastHash, hash |-> Hash(LastHash, p)]
<1>1. TypeOK /\ Numbered /\ site \in CallSites
  BY LogAssumption DEF LogInv
<1>2. /\ p \in Payload /\ AsSent(p) /\ p.by = site /\ p.id = Len(written) + 1 /\ p.removed = 0
  BY <1>1, EntryType
<1>3. /\ rows' = Append(rows, new) /\ written' = Append(written, p)
      /\ UNCHANGED <<clock, tampered, blind, relinked>>
  BY DEF Write
<1> HIDE DEF p
<1>4. LastHash = IF Len(rows) = 0 THEN GENESIS_HASH ELSE rows[Len(rows)].hash
  BY <1>1 DEF LastHash, TypeOK
<1>5. LastHash \in Seq(Payload)
  <2>1. CASE Len(rows) = 0
    BY <1>4, <2>1 DEF GENESIS_HASH
  <2>2. CASE Len(rows) # 0
    <3>1. Len(rows) \in 1..Len(rows) /\ rows[Len(rows)] \in Row
      BY <1>1, <2>2, TableTypes
    <3>2. rows[Len(rows)].hash \in Seq(Payload)
      BY <3>1 DEF Row
    <3> QED BY <1>4, <2>2, <3>2
  <2> QED BY <2>1, <2>2
<1>6. Hash(LastHash, p) \in Seq(Payload)
  BY <1>2, <1>5 DEF Hash
<1>7. new \in Row /\ new.of = p /\ new.prev = LastHash /\ new.hash = Hash(new.prev, new.of)
  BY <1>2, <1>5, <1>6 DEF Row
<1> HIDE DEF new
<1>8. /\ rows' \in Seq(Row) /\ Len(rows') = Len(rows) + 1 /\ rows'[Len(rows) + 1] = new
      /\ \A i \in 1..Len(rows) : rows'[i] = rows[i]
  <2>1. rows \in Seq(Row)
    BY <1>1 DEF TypeOK
  <2> QED BY <1>3, <1>7, <2>1, AddedLast
<1>9. /\ written' \in Seq(Payload) /\ Numbered' /\ Len(written') = Len(written) + 1
      /\ written'[Len(written) + 1] = p /\ \A n \in 1..Len(written) : written'[n] = written[n]
  BY <1>1, <1>2, <1>3, NumberedStays
<1>10. TypeOK'
  BY <1>1, <1>3, <1>8, <1>9 DEF TypeOK
<1> QED BY <1>2, <1>3, <1>4, <1>7, <1>8, <1>9, <1>10

LEMMA WriteKeeps ==
  ASSUME LogInv, NEW site \in Sites, Write(site)
  PROVE  LogInv'
<1> DEFINE l == Len(rows)
           w == Len(written)
<1>1. TypeOK /\ Numbered
  BY DEF LogInv
<1>2. l \in Nat /\ w \in Nat /\ Len(rows') = l + 1 /\ Len(written') = w + 1
  BY <1>1, WriteIs, TableTypes
<1>3. /\ \A i \in 1..l : rows'[i] = rows[i]
      /\ \A n \in 1..w : written'[n] = written[n]
  BY WriteIs
<1> DEFINE new == rows'[l + 1]
<1>4. /\ new.of = written'[w + 1] /\ new.of.id = w + 1 /\ new.of.removed = 0
      /\ new.of.by = site /\ new.hash = Hash(new.prev, new.of)
      /\ new.prev = IF l = 0 THEN GENESIS_HASH ELSE rows[l].hash
  BY WriteIs
<1>5. TypeOK' /\ Numbered' /\ tampered' = tampered /\ relinked' = relinked /\ blind' = blind
  BY WriteIs
<1>6. \A i \in 1..Len(rows') : i \in 1..l \/ i = l + 1
  BY <1>2
<1> HIDE DEF l, w, new
<1>7. ASSUME tampered' = "none" PROVE Untouched'
  <2>1. Untouched
    BY <1>5, <1>7 DEF LogInv
  <2>2. Linked'
    <3> SUFFICES ASSUME NEW i \in 1..Len(rows')
                 PROVE  /\ rows'[i].hash = Hash(rows'[i].prev, rows'[i].of)
                        /\ rows'[i].prev = IF i = 1 THEN GENESIS_HASH ELSE rows'[i - 1].hash
      BY DEF Linked
    <3>1. CASE i \in 1..l
      BY <1>2, <1>3, <2>1, <3>1 DEF Untouched, Linked, l
    <3>2. CASE i = l + 1
      <4>1. CASE l = 0
        BY <1>4, <3>2, <4>1 DEF new
      <4>2. CASE l # 0
        <5>1. i # 1 /\ i - 1 = l /\ l \in 1..l
          BY <1>2, <3>2, <4>2
        <5>2. rows'[i - 1].hash = rows[l].hash
          BY <1>3, <5>1
        <5> QED BY <1>4, <3>2, <4>2, <5>1, <5>2 DEF new
      <4> QED BY <4>1, <4>2
    <3> QED BY <1>6, <3>1, <3>2
  <2>3. AsWritten'
    <3> SUFFICES ASSUME NEW i \in 1..Len(rows')
                 PROVE  /\ rows'[i].of.id \in 1..Len(written')
                        /\ rows'[i].of = written'[rows'[i].of.id]
                        /\ IsRequest(rows'[i].of) => rows'[i].of.removed = 0
      BY DEF AsWritten
    <3>1. CASE i \in 1..l
      BY <1>2, <1>3, <2>1, <3>1 DEF Untouched, AsWritten, l, w
    <3>2. CASE i = l + 1
      BY <1>2, <1>4, <3>2 DEF new
    <3> QED BY <1>6, <3>1, <3>2
  <2>4. Rising'
    <3> SUFFICES ASSUME NEW i \in 1..Len(rows'), NEW j \in 1..Len(rows'), i < j,
                        rows'[i].of.by # RetentionPass, rows'[j].of.by # RetentionPass
                 PROVE  rows'[i].of.id < rows'[j].of.id
      BY DEF Rising
    <3>1. i \in 1..l
      BY <1>2
    <3>2. rows'[i].of.id \in 1..w
      BY <1>3, <2>1, <3>1 DEF Untouched, AsWritten, l, w
    <3>3. CASE j \in 1..l
      BY <1>3, <2>1, <3>1, <3>3 DEF Untouched, Rising, l
    <3>4. CASE j = l + 1
      BY <1>2, <1>4, <3>2, <3>4 DEF new
    <3> QED BY <1>6, <3>3, <3>4
  <2>5. AddsUp'
    <3>1. RequestsCounted' = RequestsCounted
      <4>1. Countable'
        BY <1>5, CountsNext
      <4>2. \A i, m : i \in 1..Len(rows') /\ m \in 1..rows'[i].of.removed
                      <=> i \in 1..l /\ m \in 1..rows[i].of.removed
        <5>1. \A i \in 1..l : i \in 1..Len(rows')
          BY <1>2
        <5>2. ASSUME NEW i, i = l + 1, NEW m \in 1..rows'[i].of.removed PROVE FALSE
          BY <1>4, <5>2 DEF new
        <5> QED BY <1>3, <1>6, <5>1, <5>2
      <4>3. \A i, m : <<i, m>> \in RequestsCounted' <=> <<i, m>> \in RequestsCounted
        BY <1>1, <4>1, <4>2, CountedIs DEF Countable, l
      <4>4. /\ \A p \in RequestsCounted : \E i, m : p = <<i, m>>
            /\ \A p \in RequestsCounted' : \E i, m : p = <<i, m>>
        BY <1>1, <4>1, CountedIs DEF Countable
      <4> QED BY <4>3, <4>4
    <3>2. /\ IsFiniteSet(RequestsInTable) /\ IsFiniteSet(RequestsWritten)
          /\ Cardinality(RequestsInTable) \in Nat /\ Cardinality(RequestsWritten) \in Nat
          /\ Cardinality(RequestsCounted) \in Nat
      BY <1>1, CountsAreFinite
    <3>3. /\ RequestsInTable = {i \in 1..l : IsRequest(rows[i].of)}
          /\ RequestsWritten = {n \in 1..w : IsRequest(written[n])}
          /\ RequestsInTable' = {i \in 1..(l + 1) : IsRequest(rows'[i].of)}
          /\ RequestsWritten' = {n \in 1..(w + 1) : IsRequest(written'[n])}
      BY <1>1, <1>2, <1>5, TableTypes DEF RequestsInTable, RequestsWritten, l, w, TypeOK
    <3>4. CASE IsRequest(new.of)
      <4>1. /\ RequestsInTable' = RequestsInTable \cup {l + 1} /\ l + 1 \notin RequestsInTable
            /\ RequestsWritten' = RequestsWritten \cup {w + 1} /\ w + 1 \notin RequestsWritten
        BY <1>2, <1>3, <1>4, <3>3, <3>4 DEF new
      <4>2. /\ Cardinality(RequestsInTable') = Cardinality(RequestsInTable) + 1
            /\ Cardinality(RequestsWritten') = Cardinality(RequestsWritten) + 1
        BY <3>2, <4>1, FS_AddElement
      <4> QED BY <2>1, <3>1, <3>2, <4>2 DEF Untouched, AddsUp
    <3>5. CASE ~IsRequest(new.of)
      <4>1. RequestsInTable' = RequestsInTable /\ RequestsWritten' = RequestsWritten
        BY <1>2, <1>3, <1>4, <3>3, <3>5 DEF new
      <4> QED BY <2>1, <3>1, <4>1 DEF Untouched, AddsUp
    <3> QED BY <3>4, <3>5
  <2> QED BY <2>2, <2>3, <2>4, <2>5 DEF Untouched
<1>8. TamperIsSeen'
  <2> SUFFICES ASSUME tampered # "none", ~blind, ~relinked PROVE ~verify'
    BY <1>5 DEF TamperIsSeen
  <2>1. PICK i \in 1..l : ~Fits(rows, i)
    BY <1>1, TableTypes DEF LogInv, TamperIsSeen, verify, l
  <2>2. i \in 1..Len(rows') /\ rows'[i] = rows[i] /\ (i # 1 => rows'[i - 1] = rows[i - 1])
    BY <1>2, <1>3
  <2>3. ~Fits(rows', i)
    BY <2>1, <2>2 DEF Fits, IsMarker
  <2>4. i \in DOMAIN rows'
    BY <1>5, <2>2 DEF TypeOK
  <2> QED BY <2>3, <2>4 DEF verify, Fits, IsMarker
<1> QED BY <1>5, <1>7, <1>8 DEF LogInv

-----------------------------------------------------------------------------
(* apply_retention *)

(* What a prune does, by the places of what it leaves.                      *)
LEMMA PruneIs ==
  ASSUME LogInv, NEW days \in Ages, ApplyRetention(days),
         NEW k, k = Cardinality(Places(days)), NEW at, at = InOrder(Places(days))
  PROVE  /\ k \in Nat /\ k < Len(rows) /\ Places(days) \subseteq 1..Len(rows)
         /\ at \in [1..k -> Places(days)] /\ Increasing(at, k)
         /\ \A m, n \in 1..k : at[m] = at[n] => m = n
         /\ \A i \in Places(days) : \E n \in 1..k : at[n] = i
         /\ TypeOK' /\ Numbered' /\ Len(rows') = k + 1 /\ Len(written') = Len(written) + 1
         /\ \A n \in 1..Len(written) : written'[n] = written[n]
         /\ Linked'
         /\ \A n \in 1..k : rows'[n + 1].of = rows[at[n]].of
         /\ rows'[1].of = written'[Len(written) + 1] /\ rows'[1].of.id = Len(written) + 1
         /\ rows'[1].of.by = RetentionPass /\ rows'[1].of.removed = Len(rows) - k
         /\ tampered' = tampered /\ relinked' = (tampered # "none") /\ blind' = blind
<1> DEFINE left == Survivors(days)
           marker == Entry(RetentionPass, Removed(left))
<1>1. TypeOK /\ Numbered /\ days \in Nat /\ rows \in Seq(Row) /\ Len(rows) \in Nat
  BY LogAssumption, TableTypes DEF LogInv, TypeOK
<1>2. /\ k \in Nat /\ Places(days) \subseteq 1..Len(rows)
      /\ at \in [1..k -> Places(days)] /\ Increasing(at, k)
      /\ \A m, n \in 1..k : at[m] = at[n] => m = n
      /\ \A i \in Places(days) : \E n \in 1..k : at[n] = i
      /\ left = [n \in 1..k |-> rows[at[n]]]
      /\ left \in Seq(Row) /\ Len(left) = k
  <2>1. LeftBy(days, k, at)
    BY <1>1, Survive
  <2> QED BY <2>1 DEF LeftBy
<1>3. /\ Len(left) < Len(rows) /\ rows' = Relink(marker, left)
      /\ written' = Append(written, marker)
      /\ relinked' = (tampered # "none") /\ UNCHANGED <<tampered, clock, blind>>
  BY DEF ApplyRetention
<1> HIDE DEF left
<1>4. Removed(left) = Len(rows) - k /\ Removed(left) \in Nat /\ k < Len(rows)
  BY <1>1, <1>2, <1>3 DEF Removed
<1>5. /\ marker \in Payload /\ AsSent(marker) /\ marker.by = RetentionPass
      /\ marker.id = Len(written) + 1 /\ marker.removed = Len(rows) - k
  BY <1>1, <1>4, EntryType
<1> HIDE DEF marker
<1>6. /\ rows' \in Seq(Row) /\ Len(rows') = k + 1 /\ rows'[1].of = marker
      /\ \A n \in 1..k : rows'[n + 1].of = left[n].of
      /\ \A i \in 1..Len(rows') :
           /\ rows'[i].hash = Hash(rows'[i].prev, rows'[i].of)
           /\ rows'[i].prev = IF i = 1 THEN GENESIS_HASH ELSE rows'[i - 1].hash
  <2>1. OnTop(Relink(marker, left), marker, left)
    BY <1>2, <1>5, Relinks
  <2>2. OnTop(rows', marker, left)
    BY <1>3, <2>1
  <2> QED BY <1>2, <2>2 DEF OnTop
<1>7. /\ written' \in Seq(Payload) /\ Numbered' /\ Len(written') = Len(written) + 1
      /\ written'[Len(written) + 1] = marker
      /\ \A n \in 1..Len(written) : written'[n] = written[n]
  BY <1>1, <1>3, <1>5, NumberedStays
<1>8. TypeOK'
  BY <1>1, <1>3, <1>6, <1>7 DEF TypeOK
<1>9. \A n \in 1..k : left[n].of = rows[at[n]].of
  BY <1>2
<1> QED BY <1>1, <1>2, <1>3, <1>4, <1>5, <1>6, <1>7, <1>8, <1>9 DEF Linked

LEMMA PruneKeeps ==
  ASSUME LogInv, NEW days \in Ages, ApplyRetention(days)
  PROVE  LogInv'
<1> DEFINE P  == Places(days)
           k  == Cardinality(P)
           at == InOrder(P)
           l  == Len(rows)
           w  == Len(written)
<1>1. TypeOK /\ l \in Nat /\ w \in Nat
  BY TableTypes DEF LogInv
<1>2. /\ k \in Nat /\ k < l /\ P \subseteq 1..l
      /\ at \in [1..k -> P] /\ Increasing(at, k)
      /\ \A m, n \in 1..k : at[m] = at[n] => m = n
      /\ \A i \in P : \E n \in 1..k : at[n] = i
      /\ TypeOK' /\ Numbered' /\ Len(rows') = k + 1 /\ Len(written') = w + 1
      /\ \A n \in 1..w : written'[n] = written[n]
      /\ Linked'
      /\ \A n \in 1..k : rows'[n + 1].of = rows[at[n]].of
      /\ rows'[1].of = written'[w + 1] /\ rows'[1].of.id = w + 1
      /\ rows'[1].of.by = RetentionPass /\ rows'[1].of.removed = l - k
      /\ tampered' = tampered /\ relinked' = (tampered # "none") /\ blind' = blind
  BY PruneIs
<1>3. P = {i \in 1..l : ~Doomed(rows[i], days)}
  BY <1>1, TableTypes DEF Places
<1> HIDE DEF P, k, at, l, w
<1>4. TamperIsSeen'
  BY <1>2 DEF TamperIsSeen
<1>5. ~IsRequest(rows'[1].of)
  BY <1>2 DEF IsRequest, RetentionPass
<1>6. \A i \in 1..(k + 1) : i = 1 \/ (i - 1 \in 1..k /\ rows'[i].of = rows[at[i - 1]].of)
  <2> SUFFICES ASSUME NEW i \in 1..(k + 1), i # 1
               PROVE  i - 1 \in 1..k /\ rows'[i].of = rows[at[i - 1]].of
    OBVIOUS
  <2>1. i - 1 \in 1..k /\ (i - 1) + 1 = i
    BY <1>2
  <2>2. rows'[(i - 1) + 1].of = rows[at[i - 1]].of
    BY <1>2, <2>1
  <2> QED BY <2>1, <2>2
<1>7. \A n \in 1..k : at[n] \in P /\ at[n] \in 1..l
  BY <1>2
<1>8. ASSUME tampered = "none" PROVE Untouched'
  <2>1. Untouched
    BY <1>8 DEF LogInv
  <2>2. AsWritten'
    <3> SUFFICES ASSUME NEW i \in 1..Len(rows')
                 PROVE  /\ rows'[i].of.id \in 1..Len(written')
                        /\ rows'[i].of = written'[rows'[i].of.id]
                        /\ IsRequest(rows'[i].of) => rows'[i].of.removed = 0
      BY DEF AsWritten
    <3>1. CASE i = 1
      BY <1>1, <1>2, <1>5, <3>1
    <3>2. CASE i # 1
      <4>1. /\ rows'[i].of = rows[at[i - 1]].of /\ at[i - 1] \in 1..l
        BY <1>2, <1>6, <1>7, <3>2
      <4>2. /\ rows'[i].of.id \in 1..w /\ rows'[i].of = written[rows'[i].of.id]
            /\ IsRequest(rows'[i].of) => rows'[i].of.removed = 0
        BY <2>1, <4>1 DEF Untouched, AsWritten, l, w
      <4>3. rows'[i].of.id \in 1..(w + 1) /\ written'[rows'[i].of.id] = written[rows'[i].of.id]
        BY <1>1, <1>2, <4>2
      <4> QED BY <1>2, <4>2, <4>3
    <3> QED BY <3>1, <3>2
  <2>3. Rising'
    <3> SUFFICES ASSUME NEW i \in 1..Len(rows'), NEW j \in 1..Len(rows'), i < j,
                        rows'[i].of.by # RetentionPass, rows'[j].of.by # RetentionPass
                 PROVE  rows'[i].of.id < rows'[j].of.id
      BY DEF Rising
    <3>1. /\ i - 1 \in 1..k /\ rows'[i].of = rows[at[i - 1]].of
          /\ j - 1 \in 1..k /\ rows'[j].of = rows[at[j - 1]].of
      BY <1>2, <1>6
    <3>2. i - 1 < j - 1
      BY <1>2
    <3>3. at[i - 1] < at[j - 1]
      BY <1>2, <3>1, <3>2 DEF Increasing
    <3> QED BY <1>7, <2>1, <3>1, <3>3 DEF Untouched, Rising, l
  <2>4. AddsUp'
    <3> DEFINE gone == (1..l) \ P
               stay == RequestsInTable \cap P
    <3>1. /\ IsFiniteSet(RequestsInTable) /\ Cardinality(RequestsInTable) \in Nat
          /\ Cardinality(RequestsWritten) \in Nat
          /\ IsFiniteSet(RequestsCounted) /\ Cardinality(RequestsCounted) \in Nat
      BY <1>1, CountsAreFinite
    <3>2. /\ RequestsInTable = {i \in 1..l : IsRequest(rows[i].of)}
          /\ RequestsWritten = {n \in 1..w : IsRequest(written[n])}
          /\ RequestsInTable' = {i \in 1..(k + 1) : IsRequest(rows'[i].of)}
          /\ RequestsWritten' = {n \in 1..(w + 1) : IsRequest(written'[n])}
      BY <1>1, <1>2, TableTypes DEF RequestsInTable, RequestsWritten, l, w, TypeOK
    <3>3. RequestsWritten' = RequestsWritten
      BY <1>1, <1>2, <1>5, <3>2
    <3>4. IsFiniteSet(gone) /\ Cardinality(gone) = l - k /\ Cardinality(gone) \in Nat
      <4>1. IsFiniteSet(1..l) /\ Cardinality(1..l) = l
        <5>1. \A n \in Nat : IsFiniteSet(1..n) /\ Cardinality(1..n) = n
          BY FS_Interval
        <5> QED BY <1>1, <5>1
      <4>2. (1..l) \cap P = P
        BY <1>2
      <4>3. IsFiniteSet(gone) /\ Cardinality(gone) = l - k
        <5>1. /\ IsFiniteSet((1..l) \ P)
              /\ Cardinality((1..l) \ P) = Cardinality(1..l) - Cardinality((1..l) \cap P)
          BY <4>1, FS_Difference
        <5> QED BY <4>1, <4>2, <5>1 DEF k
      <4> QED BY <1>1, <1>2, <4>3
    <3>5. gone \subseteq RequestsInTable
      BY <1>3, <3>2 DEF Doomed, IsRequest
    <3>6. IsFiniteSet(stay) /\ Cardinality(stay) = Cardinality(RequestsInTable) - (l - k)
      <4>1. stay = RequestsInTable \ gone /\ RequestsInTable \cap gone = gone
        BY <1>2, <3>2, <3>5
      <4> HIDE DEF stay, gone
      <4>2. /\ IsFiniteSet(RequestsInTable \ gone)
            /\ Cardinality(RequestsInTable \ gone)
                 = Cardinality(RequestsInTable) - Cardinality(RequestsInTable \cap gone)
        BY <3>1, FS_Difference
      <4> QED BY <3>4, <4>1, <4>2
    <3>7. Cardinality(RequestsInTable') = Cardinality(stay)
      <4> DEFINE f == [i \in RequestsInTable' |-> at[i - 1]]
      <4>1. \A i \in RequestsInTable' :
              /\ i \in Int /\ i - 1 \in 1..k /\ at[i - 1] \in stay
        <5> SUFFICES ASSUME NEW i \in RequestsInTable'
                     PROVE  i \in Int /\ i - 1 \in 1..k /\ at[i - 1] \in stay
          OBVIOUS
        <5>1. i \in 1..(k + 1) /\ IsRequest(rows'[i].of) /\ i # 1
          BY <1>5, <3>2
        <5>2. i - 1 \in 1..k /\ rows'[i].of = rows[at[i - 1]].of
          BY <1>6, <5>1
        <5>3. at[i - 1] \in P /\ at[i - 1] \in 1..l
          BY <1>7, <5>2
        <5> QED BY <3>2, <5>1, <5>2, <5>3
      <4>2. f \in [RequestsInTable' -> stay] /\ \A i \in RequestsInTable' : f[i] = at[i - 1]
        BY <4>1
      <4>3. \A i \in stay : \E n \in RequestsInTable' : f[n] = i
        <5> SUFFICES ASSUME NEW i \in stay PROVE \E n \in RequestsInTable' : f[n] = i
          OBVIOUS
        <5>1. PICK n \in 1..k : at[n] = i
          BY <1>2
        <5>2. n + 1 \in RequestsInTable' /\ (n + 1) - 1 = n
          BY <1>2, <3>2, <5>1
        <5> QED BY <4>2, <5>1, <5>2
      <4>4. \A i, j \in RequestsInTable' : f[i] = f[j] => i = j
        BY <1>2, <4>1, <4>2
      <4>5. IsFiniteSet(RequestsInTable')
        BY <1>2, CountsNext DEF Countable
      <4> HIDE DEF f, stay
      <4> QED BY <4>2, <4>3, <4>4, <4>5, SameCount
    <3>8. Cardinality(RequestsCounted') = Cardinality(RequestsCounted) + (l - k)
      <4> DEFINE mine == {1} \X (1..(l - k))
                 rest == RequestsCounted' \ mine
      <4>1. /\ \A i, m : <<i, m>> \in RequestsCounted' <=>
                           i \in 1..(k + 1) /\ m \in 1..rows'[i].of.removed
            /\ \A p \in RequestsCounted' : \E i \in 1..(k + 1) :
                 \E m \in 1..rows'[i].of.removed : p = <<i, m>>
        BY <1>2, CountsNext DEF Countable
      <4>2. /\ \A i, m : <<i, m>> \in RequestsCounted <=>
                           i \in 1..l /\ m \in 1..rows[i].of.removed
            /\ \A p \in RequestsCounted : \E i \in 1..l :
                 \E m \in 1..rows[i].of.removed : p = <<i, m>>
        BY <1>1, CountedIs DEF l
      <4>3. IsFiniteSet(RequestsCounted')
        BY <1>2, CountsNext DEF Countable
      <4>4. mine \subseteq RequestsCounted'
        BY <1>2, <4>1
      <4>5. IsFiniteSet(mine) /\ Cardinality(mine) = l - k
        <5>1. \A n \in Nat : IsFiniteSet(1..n) /\ Cardinality(1..n) = n
          BY FS_Interval
        <5>2. l - k \in Nat /\ IsFiniteSet({1}) /\ Cardinality({1}) = 1
          <6>1. IsFiniteSet({1}) /\ Cardinality({1}) = 1
            BY FS_Singleton
          <6> QED BY <1>1, <1>2, <6>1
        <5>3. IsFiniteSet(1..(l - k)) /\ Cardinality(1..(l - k)) = l - k
          BY <5>1, <5>2
        <5>4. /\ IsFiniteSet({1} \X (1..(l - k)))
              /\ Cardinality({1} \X (1..(l - k))) = Cardinality({1}) * Cardinality(1..(l - k))
          BY <5>2, <5>3, FS_Product
        <5> QED BY <5>2, <5>3, <5>4
      <4>6. IsFiniteSet(rest) /\ Cardinality(rest) = Cardinality(RequestsCounted') - (l - k)
        <5>1. RequestsCounted' \cap mine = mine
          BY <4>4
        <5> HIDE DEF mine
        <5> QED BY <4>3, <4>5, <5>1, FS_Difference
      <4>7. \A p \in rest : \E i \in 1..k : \E m \in 1..rows[at[i]].of.removed : p = <<i + 1, m>>
        <5> SUFFICES ASSUME NEW p \in rest
                     PROVE  \E i \in 1..k : \E m \in 1..rows[at[i]].of.removed : p = <<i + 1, m>>
          OBVIOUS
        <5>1. PICK i \in 1..(k + 1) : \E m \in 1..rows'[i].of.removed : p = <<i, m>>
          BY <4>1
        <5>2. PICK m \in 1..rows'[i].of.removed : p = <<i, m>>
          BY <5>1
        <5>3. i # 1
          BY <1>2, <5>2
        <5>4. i - 1 \in 1..k /\ rows'[i].of = rows[at[i - 1]].of /\ (i - 1) + 1 = i
          BY <1>2, <1>6, <5>3
        <5> QED BY <5>2, <5>4
      <4>8. \A i \in 1..k : \A m \in 1..rows[at[i]].of.removed :
              /\ <<i + 1, m>> \in rest /\ <<at[i], m>> \in RequestsCounted
        <5> SUFFICES ASSUME NEW i \in 1..k, NEW m \in 1..rows[at[i]].of.removed
                     PROVE  <<i + 1, m>> \in rest /\ <<at[i], m>> \in RequestsCounted
          OBVIOUS
        <5>1. i + 1 \in 1..(k + 1) /\ i + 1 # 1 /\ m \in 1..rows'[i + 1].of.removed
          BY <1>2
        <5>2. <<i + 1, m>> \in RequestsCounted' /\ <<i + 1, m>> \notin mine
          BY <4>1, <5>1
        <5> QED BY <1>7, <4>2, <5>2
      <4> DEFINE f == [p \in rest |-> <<at[p[1] - 1], p[2]>>]
      <4>9. \A i \in 1..k : \A m \in 1..rows[at[i]].of.removed : f[<<i + 1, m>>] = <<at[i], m>>
        <5> SUFFICES ASSUME NEW i \in 1..k, NEW m \in 1..rows[at[i]].of.removed
                     PROVE  f[<<i + 1, m>>] = <<at[i], m>>
          OBVIOUS
        <5>1. <<i + 1, m>> \in rest
          BY <4>8
        <5>2. (i + 1) - 1 = i
          BY <1>2
        <5> HIDE DEF rest
        <5>3. f[<<i + 1, m>>] = <<at[(i + 1) - 1], m>>
          BY <5>1
        <5> QED BY <5>2, <5>3
      <4>10. f \in [rest -> RequestsCounted]
        BY <4>7, <4>8, <4>9
      <4> HIDE DEF f
      <4>11. \A q \in RequestsCounted : \E p \in rest : f[p] = q
        <5> SUFFICES ASSUME NEW q \in RequestsCounted PROVE \E p \in rest : f[p] = q
          OBVIOUS
        <5>1. PICK i \in 1..l : \E m \in 1..rows[i].of.removed : q = <<i, m>>
          BY <4>2
        <5>2. PICK m \in 1..rows[i].of.removed : q = <<i, m>>
          BY <5>1
        <5>3. i \in P
          <6>1. rows[i].of.removed # 0
            BY <5>2
          <6> QED BY <1>3, <2>1, <6>1 DEF Untouched, AsWritten, Doomed, IsRequest, l
        <5>4. PICK n \in 1..k : at[n] = i
          BY <1>2, <5>3
        <5> QED BY <4>8, <4>9, <5>2, <5>4
      <4>12. \A p, q \in rest : f[p] = f[q] => p = q
        <5> SUFFICES ASSUME NEW p \in rest, NEW q \in rest, f[p] = f[q] PROVE p = q
          OBVIOUS
        <5>1. PICK i \in 1..k : \E m \in 1..rows[at[i]].of.removed : p = <<i + 1, m>>
          BY <4>7
        <5>2. PICK m \in 1..rows[at[i]].of.removed : p = <<i + 1, m>>
          BY <5>1
        <5>3. PICK j \in 1..k : \E n \in 1..rows[at[j]].of.removed : q = <<j + 1, n>>
          BY <4>7
        <5>4. PICK n \in 1..rows[at[j]].of.removed : q = <<j + 1, n>>
          BY <5>3
        <5>5. <<at[i], m>> = <<at[j], n>>
          BY <4>9, <5>2, <5>4
        <5>6. i = j /\ m = n
          BY <1>2, <5>5
        <5> QED BY <5>2, <5>4, <5>6
      <4> HIDE DEF rest
      <4>13. Cardinality(RequestsCounted) = Cardinality(rest)
        BY <4>6, <4>10, <4>11, <4>12, SameCount
      <4>14. Cardinality(RequestsCounted') \in Nat
        BY <1>2, CountsNext DEF Countable
      <4> QED BY <1>1, <1>2, <3>1, <4>6, <4>13, <4>14
    <3>9. Cardinality(RequestsInTable) + Cardinality(RequestsCounted) = Cardinality(RequestsWritten)
      BY <2>1 DEF Untouched, AddsUp
    <3> HIDE DEF stay, gone
    <3> QED BY <1>1, <1>2, <3>1, <3>3, <3>6, <3>7, <3>8, <3>9 DEF AddsUp
  <2> QED BY <1>2, <2>2, <2>3, <2>4 DEF Untouched
<1> QED BY <1>2, <1>4, <1>8 DEF LogInv

-----------------------------------------------------------------------------
(* What is done to the file from outside. *)

(* A hash is of one row on one other, and of neither alone.                 *)
LEMMA HashIsOfOne ==
  ASSUME NEW S, NEW s \in Seq(S), NEW p \in S, NEW q \in S
  PROVE  /\ Append(s, p) # s /\ Append(Append(s, p), q) # s
         /\ Append(s, p) = Append(s, q) => p = q
<1>1. Len(s) \in Nat /\ Append(s, p) \in Seq(S) /\ Len(Append(s, p)) = Len(s) + 1
      /\ Append(s, p)[Len(s) + 1] = p
  BY AddedLast
<1>2. Len(Append(Append(s, p), q)) = Len(s) + 2
  BY <1>1, AddedLast
<1>3. Append(s, q)[Len(s) + 1] = q
  BY AddedLast
<1> QED BY <1>1, <1>2, <1>3

LEMMA RowsAreLinked ==
  ASSUME TypeOK, Linked, NEW i \in 1..Len(rows)
  PROVE  /\ rows[i].hash = Append(rows[i].prev, rows[i].of)
         /\ rows[i].prev \in Seq(Payload) /\ rows[i].of \in Payload
         /\ rows[i].prev = IF i = 1 THEN GENESIS_HASH ELSE rows[i - 1].hash
         /\ rows[i].hash # rows[i].prev
         /\ i + 1 \in 1..Len(rows) =>
              /\ rows[i + 1].prev = rows[i].hash
              /\ rows[i + 1].hash # rows[i].prev
<1>1. \A j \in 1..Len(rows) :
        /\ rows[j].hash = Append(rows[j].prev, rows[j].of)
        /\ rows[j].prev = IF j = 1 THEN GENESIS_HASH ELSE rows[j - 1].hash
        /\ rows[j].prev \in Seq(Payload) /\ rows[j].of \in Payload
  BY TableTypes DEF Linked, Hash
<1>2. rows[i].hash # rows[i].prev
  BY <1>1, HashIsOfOne
<1>3. ASSUME i + 1 \in 1..Len(rows)
      PROVE  rows[i + 1].prev = rows[i].hash /\ rows[i + 1].hash # rows[i].prev
  <2> DEFINE j == i + 1
  <2>1. j \in 1..Len(rows) /\ j # 1 /\ j - 1 = i
    BY <1>3
  <2> HIDE DEF j
  <2>2. rows[j].prev = rows[i].hash /\ rows[j].hash = Append(rows[j].prev, rows[j].of)
        /\ rows[j].of \in Payload
    BY <1>1, <2>1
  <2>3. rows[j].hash = Append(Append(rows[i].prev, rows[i].of), rows[j].of)
    BY <1>1, <2>2
  <2>4. rows[j].hash # rows[i].prev
    BY <1>1, <2>2, <2>3, HashIsOfOne
  <2> QED BY <2>2, <2>4 DEF j
<1> QED BY <1>1, <1>2, <1>3

LEMMA EditShows ==
  ASSUME LogInv, tampered = "none", NEW i \in DOMAIN rows, Edit(i)
  PROVE  rows' \in Seq(Row) /\ ~verify'
<1>1. TypeOK /\ Numbered /\ Linked /\ AsWritten
  BY DEF LogInv, Untouched
<1>2. rows \in Seq(Row) /\ i \in 1..Len(rows) /\ rows[i] \in Row /\ rows[i].of \in Payload
  BY <1>1, TableTypes DEF TypeOK
<1>3. rows' = [rows EXCEPT ![i].of.text = "altered"]
  BY DEF Edit, Tamper
<1> DEFINE p == [rows[i].of EXCEPT !.text = "altered"]
           new == [rows[i] EXCEPT !.of = p]
<1>4. p \in Payload /\ ~AsSent(p)
  BY <1>2 DEF Payload, AsSent
<1>5. AsSent(rows[i].of)
  BY <1>1, <1>2 DEF AsWritten, Numbered
<1>6. p # rows[i].of
  BY <1>4, <1>5
<1> HIDE DEF p
<1>7. new \in Row /\ new.of = p /\ new.prev = rows[i].prev /\ new.hash = rows[i].hash
  BY <1>2, <1>4 DEF Row
<1>8. rows' = [rows EXCEPT ![i] = new]
  BY <1>2, <1>3 DEF p
<1> HIDE DEF new
<1>9. rows' \in Seq(Row) /\ rows'[i] = new /\ i \in DOMAIN rows'
  BY <1>2, <1>7, <1>8
<1>10. rows[i].hash = Append(rows[i].prev, rows[i].of) /\ rows[i].prev \in Seq(Payload)
  BY <1>1, <1>2, RowsAreLinked
<1>11. rows'[i].hash # Hash(rows'[i].prev, rows'[i].of)
  BY <1>2, <1>4, <1>6, <1>7, <1>9, <1>10, HashIsOfOne DEF Hash
<1> QED BY <1>9, <1>11 DEF verify, Fits

LEMMA LossShows ==
  ASSUME LogInv, tampered = "none", NEW i \in DOMAIN rows, Lose(i)
  PROVE  rows' \in Seq(Row) /\ (~blind' => ~verify')
<1>1. TypeOK /\ Linked
  BY DEF LogInv, Untouched
<1>2. rows \in Seq(Row) /\ i \in 1..Len(rows) /\ Len(rows) \in Nat
  BY <1>1, TableTypes DEF TypeOK
<1>3. /\ rows' = SubSeq(rows, 1, i - 1) \o SubSeq(rows, i + 1, Len(rows))
      /\ blind' = (i = Len(rows) \/ IsMarker(rows[i + 1]))
  BY DEF Lose, Tamper, RemoveAt
<1>4. rows' \in Seq(Row)
  BY <1>2, <1>3
<1>5. ASSUME ~blind' PROVE ~verify'
  <2>0. i # Len(rows) /\ ~IsMarker(rows[i + 1])
    BY <1>3, <1>5, Zenon
  <2>1. i + 1 \in 1..Len(rows) /\ ~IsMarker(rows[i + 1])
    BY <1>2, <2>0
  <2>2. /\ i \in DOMAIN rows' /\ rows'[i] = rows[i + 1]
        /\ i # 1 => rows'[i - 1] = rows[i - 1]
    <3> DEFINE before == SubSeq(rows, 1, i - 1)
               after  == SubSeq(rows, i + 1, Len(rows))
    <3>1. /\ before \in Seq(Row) /\ Len(before) = i - 1
          /\ \A j \in 1..(i - 1) : before[j] = rows[j]
      BY <1>2
    <3>2. after \in Seq(Row) /\ Len(after) = Len(rows) - i /\ after[1] = rows[i + 1]
      BY <1>2, <2>1
    <3>3. rows' = before \o after
      BY <1>3
    <3> HIDE DEF before, after
    <3>4. /\ Len(rows') = Len(rows) - 1 /\ DOMAIN rows' = 1..Len(rows')
          /\ \A j \in 1..(i - 1) : rows'[j] = before[j]
          /\ rows'[i] = after[1]
      <4>1. /\ Len(before) \in Nat /\ Len(after) \in Nat
            /\ Len(before) = i - 1 /\ Len(after) = Len(rows) - i /\ i < Len(rows)
        BY <1>2, <2>1, <3>1, <3>2
      <4>2. /\ Len(rows') = Len(before) + Len(after)
            /\ \A j \in 1..(Len(before) + Len(after)) :
                 rows'[j] = IF j <= Len(before) THEN before[j] ELSE after[j - Len(before)]
        BY <3>1, <3>2, <3>3, ConcatProperties
      <4>3. i \in 1..(Len(before) + Len(after)) /\ i - Len(before) = 1 /\ ~(i <= Len(before))
        BY <1>2, <4>1
      <4>4. rows'[i] = after[1]
        BY <4>2, <4>3
      <4>5. \A j \in 1..(i - 1) : rows'[j] = before[j]
        <5> SUFFICES ASSUME NEW j \in 1..(i - 1) PROVE rows'[j] = before[j]
          OBVIOUS
        <5>1. j \in 1..(Len(before) + Len(after)) /\ j <= Len(before)
          BY <1>2, <4>1
        <5> QED BY <4>2, <5>1
      <4> QED BY <1>2, <1>4, <4>1, <4>2, <4>4, <4>5
    <3> QED BY <1>2, <2>1, <3>1, <3>2, <3>4
  <2>3. /\ rows[i + 1].prev = rows[i].hash /\ rows[i].hash # rows[i].prev
        /\ rows[i].prev = IF i = 1 THEN GENESIS_HASH ELSE rows[i - 1].hash
    BY <1>1, <1>2, <2>1, RowsAreLinked
  <2>4. ~IsMarker(rows'[i])
    BY <2>1, <2>2 DEF IsMarker
  <2>5. rows'[i].prev # IF i = 1 THEN GENESIS_HASH ELSE rows'[i - 1].hash
    BY <2>2, <2>3
  <2> QED BY <2>2, <2>4, <2>5 DEF verify, Fits, IsMarker
<1> QED BY <1>4, <1>5

LEMMA ReorderShows ==
  ASSUME LogInv, tampered = "none", NEW i \in DOMAIN rows, Reorder(i)
  PROVE  rows' \in Seq(Row) /\ (~blind' => ~verify')
<1>1. TypeOK /\ Linked
  BY DEF LogInv, Untouched
<1>2. /\ rows \in Seq(Row) /\ i \in 1..Len(rows) /\ i + 1 \in 1..Len(rows)
      /\ DOMAIN rows = 1..Len(rows) /\ rows[i] \in Row /\ rows[i + 1] \in Row
  BY <1>1, TableTypes DEF TypeOK, Reorder
<1>3. /\ rows' = [rows EXCEPT ![i] = rows[i + 1], ![i + 1] = rows[i]]
      /\ blind' = (IsMarker(rows[i]) /\ IsMarker(rows[i + 1]))
  BY DEF Reorder, Tamper
<1>4. /\ rows' \in Seq(Row) /\ DOMAIN rows' = 1..Len(rows)
      /\ rows'[i] = rows[i + 1] /\ rows'[i + 1] = rows[i]
      /\ \A j \in 1..Len(rows) : j # i /\ j # i + 1 => rows'[j] = rows[j]
  BY <1>2, <1>3
<1>5. /\ rows[i + 1].prev = rows[i].hash /\ rows[i].hash # rows[i].prev
      /\ rows[i + 1].hash # rows[i].prev
      /\ rows[i].prev = IF i = 1 THEN GENESIS_HASH ELSE rows[i - 1].hash
  BY <1>1, <1>2, RowsAreLinked
<1>6. CASE ~IsMarker(rows[i + 1])
  <2>1. ~IsMarker(rows'[i])
    BY <1>4, <1>6 DEF IsMarker
  <2>2. i # 1 => rows'[i - 1] = rows[i - 1]
    BY <1>2, <1>4
  <2>3. rows'[i].prev # IF i = 1 THEN GENESIS_HASH ELSE rows'[i - 1].hash
    BY <1>4, <1>5, <2>2
  <2> QED BY <1>2, <1>4, <2>1, <2>3 DEF verify, Fits, IsMarker
<1>7. CASE ~IsMarker(rows[i])
  <2> DEFINE j == i + 1
  <2>1. j \in 1..Len(rows) /\ j # 1 /\ j - 1 = i /\ rows'[j] = rows[i]
    BY <1>2, <1>4
  <2>2. ~IsMarker(rows'[j])
    BY <1>7, <2>1 DEF IsMarker
  <2>3. rows'[j - 1].hash = rows[i + 1].hash
    BY <1>4, <2>1
  <2> HIDE DEF j
  <2>4. rows'[j].prev # IF j = 1 THEN GENESIS_HASH ELSE rows'[j - 1].hash
    BY <1>5, <2>1, <2>3
  <2> QED BY <1>4, <2>1, <2>2, <2>4 DEF verify, Fits, IsMarker
<1> QED BY <1>3, <1>4, <1>6, <1>7

LEMMA TamperKeeps ==
  ASSUME LogInv, NEW i \in DOMAIN rows, Edit(i) \/ Lose(i) \/ Reorder(i)
  PROVE  LogInv'
<1>1. /\ tampered = "none" /\ tampered' \in Tampering /\ blind' \in BOOLEAN
      /\ UNCHANGED <<clock, written, relinked>>
  BY DEF Edit, Lose, Reorder, Tamper
<1>2. rows' \in Seq(Row) /\ (~blind' => ~verify')
  BY <1>1, EditShows, LossShows, ReorderShows
<1>3. tampered' # "none" /\ tampered' \in {"edit", "lose", "reorder"}
  BY <1>1, LogAssumption
<1>4. TypeOK'
  BY <1>1, <1>2, <1>3 DEF LogInv, TypeOK
<1>5. Numbered'
  BY <1>1 DEF LogInv, Numbered
<1>6. TamperIsSeen'
  BY <1>2 DEF TamperIsSeen
<1> QED BY <1>3, <1>4, <1>5, <1>6 DEF LogInv

LEMMA TableStays ==
  ASSUME LogInv, UNCHANGED <<rows, written, tampered, blind, relinked>>, clock' \in Int
  PROVE  LogInv'
<1>1. TypeOK' /\ Numbered'
  BY DEF LogInv, TypeOK, Numbered
<1>2. TamperIsSeen'
  BY DEF LogInv, TamperIsSeen, verify, Fits, IsMarker
<1>3. Untouched => Untouched'
  BY DEF Untouched, Linked, AsWritten, Rising, AddsUp, RequestsInTable, RequestsCounted,
         RequestsWritten
<1> QED BY <1>1, <1>2, <1>3 DEF LogInv

LEMMA LogHolds == Spec => []LogInv
<1>1. Init => LogInv
  <2> SUFFICES ASSUME Init PROVE LogInv
    OBVIOUS
  <2>1. TypeOK /\ Len(rows) = 0 /\ Len(written) = 0 /\ DOMAIN rows = {} /\ DOMAIN written = {}
    <3>1. <<>> \in Seq(Row) /\ <<>> \in Seq(Payload) /\ Len(<<>>) = 0 /\ DOMAIN <<>> = {}
      OBVIOUS
    <3>2. rows = <<>> /\ written = <<>> /\ clock = 0 /\ blind = FALSE /\ relinked = FALSE
          /\ tampered = "none"
      BY DEF Init
    <3>3. TypeOK
      <4>1. rows \in Seq(Row) /\ written \in Seq(Payload)
        BY <3>1, <3>2
      <4>2. clock \in Int
        BY <3>2
      <4>3. blind \in BOOLEAN /\ relinked \in BOOLEAN
        BY <3>2
      <4>4. tampered \in {"none", "edit", "lose", "reorder"}
        BY <3>2
      <4> QED BY <4>1, <4>2, <4>3, <4>4 DEF TypeOK
    <3> QED BY <3>1, <3>2, <3>3
  <2>2. Linked /\ AsWritten /\ Rising /\ Numbered
    BY <2>1 DEF Linked, AsWritten, Rising, Numbered
  <2>3. RequestsInTable = {} /\ RequestsCounted = {} /\ RequestsWritten = {}
    BY <2>1 DEF RequestsInTable, RequestsCounted, RequestsWritten
  <2>4. AddsUp
    BY <2>3, FS_EmptySet DEF AddsUp
  <2>5. TamperIsSeen
    BY DEF Init, TamperIsSeen
  <2> QED BY <2>1, <2>2, <2>4, <2>5 DEF LogInv, Untouched
<1>2. LogInv /\ [Next]_vars => LogInv'
  <2> SUFFICES ASSUME LogInv, [Next]_vars PROVE LogInv'
    OBVIOUS
  <2>1. ASSUME NEW site \in Sites, Write(site) PROVE LogInv'
    BY <2>1, WriteKeeps
  <2>2. ASSUME NEW days \in Ages, ApplyRetention(days) PROVE LogInv'
    BY <2>2, PruneKeeps
  <2>3. ASSUME NEW t \in 0..MaxTime, SetClock(t) PROVE LogInv'
    <3>1. clock' \in Int
      BY <2>3, LogAssumption DEF SetClock
    <3> QED BY <2>3, <3>1, TableStays DEF SetClock
  <2>4. ASSUME NEW i \in DOMAIN rows, Edit(i) \/ Lose(i) \/ Reorder(i) PROVE LogInv'
    BY <2>4, TamperKeeps
  <2>5. CASE UNCHANGED vars
    BY <2>5, TableStays DEF vars, LogInv, TypeOK
  <2> QED BY <2>1, <2>2, <2>3, <2>4, <2>5 DEF Next
<1> QED BY <1>1, <1>2, PTL DEF Spec

(* Every row of the log is a row with contents, a previous hash and a hash, *)
(* whatever is written, pruned or done to the file.                         *)
THEOREM LogTypes == Spec => []TypeOK
<1>1. LogInv => TypeOK
  BY DEF LogInv
<1> QED BY <1>1, LogHolds, PTL

(* A log nobody touched verifies, through any number of writes and prunes   *)
(* at any times.                                                            *)
THEOREM ChainHolds == Spec => []ChainVerifies
<1>1. LogInv => ChainVerifies
  <2> SUFFICES ASSUME LogInv, tampered = "none", NEW i \in DOMAIN rows PROVE Fits(rows, i)
    BY DEF ChainVerifies, verify
  <2>1. i \in 1..Len(rows) /\ Linked
    BY TableTypes DEF LogInv, Untouched
  <2> QED BY <2>1 DEF Linked, Fits
<1> QED BY <1>1, LogHolds, PTL

(* Pruning loses no request uncounted, alters no row and puts none out of   *)
(* its order.                                                               *)
THEOREM RequestsAccounted == Spec => []EveryRequestAccountedFor
<1>1. LogInv => EveryRequestAccountedFor
  <2> SUFFICES ASSUME LogInv, tampered = "none" PROVE EveryRequestAccountedFor
    BY DEF EveryRequestAccountedFor
  <2>1. DOMAIN rows = 1..Len(rows) /\ DOMAIN written = 1..Len(written) /\ Untouched
    BY TableTypes DEF LogInv
  <2> QED BY <2>1 DEF EveryRequestAccountedFor, Untouched, AsWritten, Rising, AddsUp
<1> QED BY <1>1, LogHolds, PTL

(* An edited, lost or exchanged row is reported until a prune recomputes    *)
(* the hashes, where the chain looks at all.                                *)
THEOREM TamperingShows == Spec => []TamperIsSeen
<1>1. LogInv => TamperIsSeen
  BY DEF LogInv
<1> QED BY <1>1, LogHolds, PTL

-----------------------------------------------------------------------------
(* The facts. *)

Word == [is : {"stands", "corrected", "forgotten"}, scope : Scope, pinned : BOOLEAN]

(* What is said of a fact that stands as this row has it.                   *)
Stance(row) == [is |-> "stands", scope |-> row.scope, pinned |-> row.pinned]

LEMMA RowsMove ==
  ASSUME NEW row \in FactRow
  PROVE  /\ \A s \in Scope :
              LET new == [row EXCEPT !.scope = s] IN
              /\ new \in FactRow /\ new.successor = row.successor /\ new.corrects = row.corrects
              /\ Stance(new) = [Stance(row) EXCEPT !.scope = s]
         /\ \A p \in BOOLEAN :
              LET new == [row EXCEPT !.pinned = p] IN
              /\ new \in FactRow /\ new.successor = row.successor /\ new.corrects = row.corrects
              /\ Stance(new) = [Stance(row) EXCEPT !.pinned = p]
         /\ \A b \in {"this", "other"} :
              LET new == [row EXCEPT !.by = b] IN
              /\ new \in FactRow /\ new.successor = row.successor /\ new.corrects = row.corrects
              /\ Stance(new) = Stance(row)
         /\ \A f \in Fact :
              LET new == [row EXCEPT !.successor = f] IN
              new \in FactRow /\ new.successor = f /\ new.corrects = row.corrects
         /\ \A f \in Fact :
              LET new == [row EXCEPT !.corrects = f, !.by = "this", !.successor = 0] IN
              /\ new \in FactRow /\ new.successor = 0 /\ new.corrects = f
              /\ Stance(new) = Stance(row)
<1>1. \A s \in Scope :
        LET new == [row EXCEPT !.scope = s] IN
        /\ new \in FactRow /\ new.successor = row.successor /\ new.corrects = row.corrects
        /\ Stance(new) = [Stance(row) EXCEPT !.scope = s]
  BY DEF FactRow, Stance
<1>2. \A p \in BOOLEAN :
        LET new == [row EXCEPT !.pinned = p] IN
        /\ new \in FactRow /\ new.successor = row.successor /\ new.corrects = row.corrects
        /\ Stance(new) = [Stance(row) EXCEPT !.pinned = p]
  BY DEF FactRow, Stance
<1>3. \A b \in {"this", "other"} :
        LET new == [row EXCEPT !.by = b] IN
        /\ new \in FactRow /\ new.successor = row.successor /\ new.corrects = row.corrects
        /\ Stance(new) = Stance(row)
  BY DEF FactRow, Stance
<1>4. \A f \in Fact :
        LET new == [row EXCEPT !.successor = f] IN
        new \in FactRow /\ new.successor = f /\ new.corrects = row.corrects
  BY DEF FactRow
<1>5. \A f \in Fact :
        LET new == [row EXCEPT !.corrects = f, !.by = "this", !.successor = 0] IN
        /\ new \in FactRow /\ new.successor = 0 /\ new.corrects = f
        /\ Stance(new) = Stance(row)
  BY DEF FactRow, Stance
<1> QED BY <1>1, <1>2, <1>3, <1>4, <1>5

LEMMA WordsMove ==
  ASSUME NEW word \in Word
  PROVE  /\ \A s \in Scope : LET new == [word EXCEPT !.scope = s] IN
              new \in Word /\ new.is = word.is
         /\ \A p \in BOOLEAN : LET new == [word EXCEPT !.pinned = p] IN
              new \in Word /\ new.is = word.is
         /\ \A is \in {"stands", "corrected", "forgotten"} :
              LET new == [word EXCEPT !.is = is] IN new \in Word /\ new.is = is
BY DEF Word

Rows(table) ==
  \A f \in DOMAIN table :
    /\ f \in 1..(next - 1) /\ table[f] \in FactRow /\ table[f].corrects < f
    /\ table[f].successor # 0 => table[f].successor > f

SpineTypes ==
  /\ next \in 1..(MaxFact + 1) /\ index \subseteq 1..(next - 1)
  /\ Rows(stored)
  /\ Rows(repair) /\ \A f \in DOMAIN repair : repair[f].successor = 0
  /\ DOMAIN told = 1..(next - 1) /\ \A f \in DOMAIN told : told[f] \in Word

(* The correction under way: its original, said to be corrected, and the    *)
(* copy that will strike it through.                                        *)
Mending ==
  ~Idle =>
    /\ fixing.of \in DOMAIN stored /\ told[fixing.of].is = "corrected"
    /\ fixing.copy \in FactRow /\ fixing.copy.corrects < fixing.of
    /\ fixing.copy.successor > fixing.of

OneFact(f) ==
  /\ stored[f].successor = 0 => told[f] = Stance(stored[f])
  /\ stored[f].successor # 0 => told[f].is = "corrected" /\ f \notin index

AsTold == \A f \in DOMAIN stored \ spoiled : f # fixing.of => OneFact(f)

SpineInv == SpineTypes /\ Mending /\ AsTold

LEMMA SpineNumbers ==
  ASSUME SpineTypes
  PROVE  /\ MaxFact \in Nat /\ next \in Nat /\ next >= 1 /\ 0 \notin DOMAIN stored
         /\ \A f \in DOMAIN stored : f \in Nat /\ f < next /\ f # next /\ f \in Fact
         /\ \A f \in DOMAIN repair : f \in Nat /\ f < next /\ f # next /\ f \in Fact
BY SpineAssumption DEF SpineTypes, Rows, Fact

LEMMA NotIdle ==
  ASSUME NEW f, f # 0, NEW copy
  PROVE  [of |-> f, copy |-> copy] # NoFix
<1>1. [of |-> f, copy |-> copy].of = f /\ NoFix.of = 0
  BY DEF NoFix
<1> QED BY <1>1

(* A fact that a step leaves as it was.                                     *)
LEMMA OneStays ==
  ASSUME NEW g, OneFact(g), stored'[g] = stored[g], told'[g] = told[g], g \in index' => g \in index
  PROVE  OneFact(g)'
BY DEF OneFact

LEMMA RememberKeeps ==
  ASSUME SpineInv, NEW scope \in Scope, Remember(scope)
  PROVE  SpineInv'
<1> DEFINE row  == [scope |-> scope, pinned |-> FALSE, by |-> "this", corrects |-> 0, successor |-> 0]
           word == [is |-> "stands", scope |-> scope, pinned |-> FALSE]
<1>1. SpineTypes /\ AsTold /\ Idle /\ MaxFact \in Nat
  BY SpineNumbers DEF SpineInv, Remember
<1>2. row \in FactRow /\ row.corrects = 0 /\ row.successor = 0 /\ word \in Word /\ Stance(row) = word
  BY DEF FactRow, Word, Stance
<1>3. /\ stored' = Put(stored, next, row) /\ told' = Put(told, next, word)
      /\ index' = index \cup {next} /\ next' = next + 1 /\ next <= MaxFact
      /\ UNCHANGED <<fixing, repair, spoiled>>
  BY DEF Remember, Says
<1> HIDE DEF row, word
<1>4. /\ DOMAIN stored' = DOMAIN stored \cup {next} /\ stored'[next] = row
      /\ \A g \in DOMAIN stored : g # next => stored'[g] = stored[g]
      /\ DOMAIN told' = DOMAIN told \cup {next} /\ told'[next] = word
      /\ \A g \in DOMAIN told : g # next => told'[g] = told[g]
  BY <1>3 DEF Put
<1>5. next \in Nat /\ next' - 1 = next /\ 1..next = (1..(next - 1)) \cup {next} /\ next >= 1
  BY <1>1, <1>3 DEF SpineTypes
<1>6. SpineTypes'
  <2>1. next' \in 1..(MaxFact + 1) /\ index' \subseteq 1..(next' - 1)
    BY <1>1, <1>3, <1>5 DEF SpineTypes
  <2>2. Rows(stored)'
    BY <1>1, <1>2, <1>4, <1>5 DEF SpineTypes, Rows
  <2>3. Rows(repair)' /\ \A f \in DOMAIN repair' : repair'[f].successor = 0
    BY <1>1, <1>3, <1>5 DEF SpineTypes, Rows
  <2>4. DOMAIN told' = 1..(next' - 1) /\ \A f \in DOMAIN told' : told'[f] \in Word
    BY <1>1, <1>2, <1>4, <1>5 DEF SpineTypes
  <2> QED BY <2>1, <2>2, <2>3, <2>4 DEF SpineTypes
<1>7. Mending'
  BY <1>1, <1>3 DEF Mending, Idle
<1>8. AsTold'
  <2> SUFFICES ASSUME NEW g \in DOMAIN stored', g \notin spoiled', g # fixing'.of PROVE OneFact(g)'
    BY DEF AsTold
  <2>1. CASE g = next
    BY <1>2, <1>4, <2>1 DEF OneFact
  <2>2. CASE g # next
    <3>1. g \in DOMAIN stored /\ g \in DOMAIN told /\ OneFact(g)
      BY <1>1, <1>3, <1>4, <2>2 DEF AsTold, SpineTypes, Rows
    <3> QED BY <1>3, <1>4, <2>2, <3>1, OneStays
  <2> QED BY <2>1, <2>2
<1> QED BY <1>6, <1>7, <1>8 DEF SpineInv

LEMMA CorrectKeeps ==
  ASSUME SpineInv, NEW f \in DOMAIN stored, Correct(f)
  PROVE  SpineInv'
<1> DEFINE row  == Replacement(f)
           copy == [stored[f] EXCEPT !.successor = next]
           word == [told[f] EXCEPT !.is = "corrected"]
           said == Put(told, f, word)
<1>1. SpineTypes /\ AsTold /\ Idle /\ MaxFact \in Nat /\ stored[f].successor = 0 /\ fixing.of = 0
  BY SpineNumbers DEF SpineInv, Correct, Stands, Idle, NoFix
<1>2. /\ next \in Nat /\ next >= 1 /\ f \in Nat /\ f < next /\ f # 0 /\ f \in DOMAIN told
      /\ stored[f] \in FactRow /\ stored[f].corrects < f /\ told[f] \in Word /\ f \in Fact
      /\ f \in 1..(next - 1)
  BY <1>1, SpineNumbers DEF SpineTypes, Rows
<1>3. /\ stored' = Put(stored, next, row) /\ told' = Put(said, next, told[f])
      /\ index' = index \cup {next} /\ next' = next + 1 /\ next <= MaxFact /\ next \in Fact
      /\ fixing' = [of |-> f, copy |-> copy] /\ repair' = repair
      /\ spoiled' = IF f \in spoiled THEN spoiled \cup {next} ELSE spoiled
  BY <1>1, <1>2 DEF Correct, Fact
<1>4. /\ row \in FactRow /\ row.corrects = f /\ row.successor = 0
      /\ Stance(row) = Stance(stored[f])
  <2>1. row = [stored[f] EXCEPT !.corrects = f, !.by = "this", !.successor = 0]
    BY DEF Replacement
  <2> HIDE DEF row
  <2> QED BY <1>2, <2>1, RowsMove
<1>5. copy \in FactRow /\ copy.successor = next /\ copy.corrects = stored[f].corrects
  BY <1>2, <1>3, RowsMove
<1>6. word \in Word /\ word.is = "corrected"
  BY <1>2, WordsMove
<1> HIDE DEF row, copy, word
<1>7. /\ DOMAIN stored' = DOMAIN stored \cup {next} /\ stored'[next] = row
      /\ \A g \in DOMAIN stored : g # next => stored'[g] = stored[g]
  BY <1>3 DEF Put
<1>8. /\ DOMAIN told' = DOMAIN told \cup {next} /\ told'[next] = told[f]
      /\ told'[f] = word /\ \A g \in DOMAIN told : g # next /\ g # f => told'[g] = told[g]
  <2>1. /\ DOMAIN said = DOMAIN told \cup {f} /\ said[f] = word
        /\ \A g \in DOMAIN told : g # f => said[g] = told[g]
    BY DEF Put
  <2> HIDE DEF said
  <2>2. /\ DOMAIN told' = DOMAIN said \cup {next} /\ told'[next] = told[f]
        /\ \A g \in DOMAIN said : g # next => told'[g] = said[g]
    BY <1>3 DEF Put
  <2> QED BY <1>2, <2>1, <2>2
<1>9. next' - 1 = next /\ 1..next = (1..(next - 1)) \cup {next}
  BY <1>2, <1>3
<1>10. SpineTypes'
  <2>1. next' \in 1..(MaxFact + 1) /\ index' \subseteq 1..(next' - 1)
    BY <1>1, <1>2, <1>3, <1>9 DEF SpineTypes
  <2>2. Rows(stored)'
    BY <1>1, <1>2, <1>4, <1>7, <1>9 DEF SpineTypes, Rows
  <2>3. Rows(repair)' /\ \A g \in DOMAIN repair' : repair'[g].successor = 0
    BY <1>1, <1>3, <1>9 DEF SpineTypes, Rows
  <2>4. DOMAIN told' = 1..(next' - 1) /\ \A g \in DOMAIN told' : told'[g] \in Word
    BY <1>1, <1>2, <1>6, <1>8, <1>9 DEF SpineTypes
  <2> QED BY <2>1, <2>2, <2>3, <2>4 DEF SpineTypes
<1>11. fixing'.of = f /\ fixing'.copy = copy
  BY <1>3
<1>12. Mending'
  BY <1>2, <1>5, <1>6, <1>7, <1>8, <1>11 DEF Mending
<1>13. AsTold'
  <2> SUFFICES ASSUME NEW g \in DOMAIN stored', g \notin spoiled', g # fixing'.of PROVE OneFact(g)'
    BY DEF AsTold
  <2>0. g # f /\ g \notin spoiled
    BY <1>3, <1>11
  <2>1. CASE g = next
    <3>1. f \notin spoiled
      BY <1>3, <2>1
    <3>2. OneFact(f)
      BY <1>1, <1>2, <3>1 DEF AsTold
    <3> QED BY <1>1, <1>4, <1>7, <1>8, <2>1, <3>2 DEF OneFact
  <2>2. CASE g # next
    <3>1. g \in DOMAIN stored /\ g \in DOMAIN told /\ g # fixing.of
      BY <1>1, <1>7, <2>2, SpineNumbers DEF SpineTypes, Rows
    <3>2. OneFact(g)
      BY <1>1, <2>0, <3>1 DEF AsTold
    <3> QED BY <1>3, <1>7, <1>8, <2>0, <2>2, <3>1, <3>2, OneStays
  <2> QED BY <2>1, <2>2
<1> QED BY <1>10, <1>12, <1>13 DEF SpineInv

LEMMA StrikeKeeps ==
  ASSUME SpineInv, StrikeThrough
  PROVE  SpineInv'
<1> DEFINE f == fixing.of
           copy == fixing.copy
<1>1. SpineTypes /\ AsTold /\ f \in DOMAIN stored /\ told[f].is = "corrected"
      /\ copy \in FactRow /\ copy.corrects < f /\ copy.successor > f
  BY DEF SpineInv, Mending, StrikeThrough
<1>2. /\ stored' = Put(stored, f, copy) /\ index' = index \ {f} /\ fixing' = NoFix
      /\ UNCHANGED <<next, repair, told, spoiled>>
  BY DEF StrikeThrough
<1>3. f \in 1..(next - 1) /\ f \in Nat
  BY <1>1 DEF SpineTypes, Rows
<1> HIDE DEF f, copy
<1>4. /\ DOMAIN stored' = DOMAIN stored /\ stored'[f] = copy
      /\ \A g \in DOMAIN stored : g # f => stored'[g] = stored[g]
  BY <1>1, <1>2 DEF Put
<1>5. SpineTypes'
  <2>1. Rows(stored)'
    BY <1>1, <1>2, <1>3, <1>4 DEF SpineTypes, Rows
  <2>2. Rows(repair)'
    BY <1>1, <1>2 DEF SpineTypes, Rows
  <2> QED BY <1>1, <1>2, <2>1, <2>2 DEF SpineTypes
<1>6. Mending'
  BY <1>2 DEF Mending, Idle, NoFix
<1>7. AsTold'
  <2> SUFFICES ASSUME NEW g \in DOMAIN stored', g \notin spoiled' PROVE OneFact(g)'
    BY DEF AsTold
  <2>1. CASE g = f
    <3>1. copy.successor # 0
      BY <1>1, <1>3 DEF FactRow, Fact
    <3> QED BY <1>1, <1>2, <1>4, <2>1, <3>1 DEF OneFact
  <2>2. CASE g # f
    <3>1. OneFact(g)
      BY <1>1, <1>2, <1>4, <2>2 DEF AsTold, f
    <3> QED BY <1>2, <1>4, <2>2, <3>1, OneStays
  <2> QED BY <2>1, <2>2
<1> QED BY <1>5, <1>6, <1>7 DEF SpineInv

LEMMA StrikeFailsKeeps ==
  ASSUME SpineInv, StrikeFails
  PROVE  SpineInv'
<1>1. SpineTypes /\ AsTold
  BY DEF SpineInv
<1>2. /\ fixing' = NoFix /\ spoiled' = spoiled \cup {fixing.of}
      /\ UNCHANGED <<stored, index, next, repair, told>>
  BY DEF StrikeFails
<1>3. SpineTypes'
  BY <1>1, <1>2 DEF SpineTypes, Rows
<1>4. Mending'
  BY <1>2 DEF Mending, Idle, NoFix
<1>5. AsTold'
  BY <1>1, <1>2 DEF AsTold, OneFact
<1> QED BY <1>3, <1>4, <1>5 DEF SpineInv

LEMMA PinKeeps ==
  ASSUME SpineInv, NEW f \in DOMAIN stored, NEW pinned \in BOOLEAN, SetPinned(f, pinned)
  PROVE  SpineInv'
<1> DEFINE row  == [stored[f] EXCEPT !.pinned = pinned]
           word == [told[f] EXCEPT !.pinned = pinned]
<1>1. SpineTypes /\ AsTold /\ Idle /\ fixing.of = 0
  BY DEF SpineInv, SetPinned, Idle, NoFix
<1>2. /\ f \in 1..(next - 1) /\ f \in DOMAIN told /\ stored[f] \in FactRow /\ told[f] \in Word
  BY <1>1 DEF SpineTypes, Rows
<1>3. /\ stored' = [stored EXCEPT ![f] = row] /\ told' = Put(told, f, word)
      /\ UNCHANGED <<index, next, fixing, repair, spoiled>>
  BY DEF SetPinned, Says, Said
<1>4. /\ row \in FactRow /\ row.successor = stored[f].successor
      /\ row.corrects = stored[f].corrects /\ Stance(row) = [Stance(stored[f]) EXCEPT !.pinned = pinned]
  BY <1>2 DEF FactRow, Stance
<1>5. /\ word \in Word /\ word.is = told[f].is
      /\ told[f] = Stance(stored[f]) => word = Stance(row)
  <2>1. word \in Word /\ word.is = told[f].is
    BY <1>2 DEF Word
  <2>2. told[f] = Stance(stored[f]) => word = Stance(row)
    <3> HIDE DEF row
    <3> QED BY <1>4
  <2> QED BY <2>1, <2>2
<1> HIDE DEF row, word
<1>6. /\ DOMAIN stored' = DOMAIN stored /\ stored'[f] = row
      /\ \A g \in DOMAIN stored : g # f => stored'[g] = stored[g]
      /\ DOMAIN told' = DOMAIN told /\ told'[f] = word
      /\ \A g \in DOMAIN told : g # f => told'[g] = told[g]
  BY <1>2, <1>3 DEF Put
<1>7. SpineTypes'
  <2>1. Rows(stored)'
    BY <1>1, <1>2, <1>3, <1>4, <1>6 DEF SpineTypes, Rows
  <2>2. Rows(repair)'
    BY <1>1, <1>3 DEF SpineTypes, Rows
  <2> QED BY <1>1, <1>2, <1>3, <1>5, <1>6, <2>1, <2>2 DEF SpineTypes
<1>8. Mending'
  BY <1>1, <1>3 DEF Mending, Idle
<1>9. AsTold'
  <2> SUFFICES ASSUME NEW g \in DOMAIN stored', g \notin spoiled' PROVE OneFact(g)'
    BY DEF AsTold
  <2>1. g \in DOMAIN stored /\ g \in DOMAIN told /\ OneFact(g)
    BY <1>1, <1>3, <1>6, SpineNumbers DEF AsTold, SpineTypes, Rows
  <2>2. CASE g = f
    BY <1>3, <1>4, <1>5, <1>6, <2>1, <2>2 DEF OneFact
  <2>3. CASE g # f
    BY <1>3, <1>6, <2>1, <2>3, OneStays
  <2> QED BY <2>2, <2>3
<1> QED BY <1>7, <1>8, <1>9 DEF SpineInv

LEMMA ScopeKeeps ==
  ASSUME SpineInv, NEW f \in DOMAIN stored, NEW scope \in Scope, SetScope(f, scope)
  PROVE  SpineInv'
<1> DEFINE row  == [stored[f] EXCEPT !.scope = scope]
           word == [told[f] EXCEPT !.scope = scope]
<1>1. SpineTypes /\ AsTold /\ Idle /\ fixing.of = 0
  BY DEF SpineInv, SetScope, Idle, NoFix
<1>2. /\ f \in 1..(next - 1) /\ f \in DOMAIN told /\ stored[f] \in FactRow /\ told[f] \in Word
  BY <1>1 DEF SpineTypes, Rows
<1>3. /\ stored' = [stored EXCEPT ![f] = row] /\ told' = Put(told, f, word)
      /\ index' = index \cup {f}
      /\ spoiled' = (IF stored[f].successor = 0 THEN spoiled ELSE spoiled \cup {f})
      /\ UNCHANGED <<next, fixing, repair>>
  BY DEF SetScope, Says, Said, Stands
<1>4. /\ row \in FactRow /\ row.successor = stored[f].successor
      /\ row.corrects = stored[f].corrects /\ Stance(row) = [Stance(stored[f]) EXCEPT !.scope = scope]
  BY <1>2, RowsMove
<1>5. /\ word \in Word /\ word.is = told[f].is
      /\ told[f] = Stance(stored[f]) => word = Stance(row)
  <2>1. word \in Word /\ word.is = told[f].is
    BY <1>2 DEF Word
  <2>2. told[f] = Stance(stored[f]) => word = Stance(row)
    <3> HIDE DEF row
    <3> QED BY <1>4
  <2> QED BY <2>1, <2>2
<1> HIDE DEF row, word
<1>6. /\ DOMAIN stored' = DOMAIN stored /\ stored'[f] = row
      /\ \A g \in DOMAIN stored : g # f => stored'[g] = stored[g]
      /\ DOMAIN told' = DOMAIN told /\ told'[f] = word
      /\ \A g \in DOMAIN told : g # f => told'[g] = told[g]
  BY <1>2, <1>3 DEF Put
<1>7. SpineTypes'
  <2>1. Rows(stored)'
    BY <1>1, <1>2, <1>3, <1>4, <1>6 DEF SpineTypes, Rows
  <2>2. Rows(repair)'
    BY <1>1, <1>3 DEF SpineTypes, Rows
  <2> QED BY <1>1, <1>2, <1>3, <1>5, <1>6, <2>1, <2>2 DEF SpineTypes
<1>8. Mending'
  BY <1>1, <1>3 DEF Mending, Idle
<1>9. AsTold'
  <2> SUFFICES ASSUME NEW g \in DOMAIN stored', g \notin spoiled' PROVE OneFact(g)'
    BY DEF AsTold
  <2>1. g \in DOMAIN stored /\ g \in DOMAIN told /\ OneFact(g)
    BY <1>1, <1>3, <1>6, SpineNumbers DEF AsTold, SpineTypes, Rows
  <2>2. CASE g = f
    BY <1>3, <1>4, <1>5, <1>6, <2>1, <2>2 DEF OneFact
  <2>3. CASE g # f
    BY <1>3, <1>6, <2>1, <2>3, OneStays
  <2> QED BY <2>2, <2>3
<1> QED BY <1>7, <1>8, <1>9 DEF SpineInv

LEMMA DropKeeps ==
  ASSUME SpineInv, Idle, NEW fs, Drop(fs), UNCHANGED spoiled
  PROVE  SpineInv'
<1>1. SpineTypes /\ AsTold /\ fixing.of = 0
  BY DEF SpineInv, Idle, NoFix
<1>2. /\ DOMAIN stored' = DOMAIN stored \ fs
      /\ \A g \in DOMAIN stored' : stored'[g] = stored[g]
      /\ index' = index \ fs /\ DOMAIN told' = DOMAIN told
      /\ \A g \in DOMAIN told : told'[g] = IF g \in fs THEN [told[g] EXCEPT !.is = "forgotten"] ELSE told[g]
      /\ UNCHANGED <<next, fixing, repair>>
  BY DEF Drop, Without
<1>3. SpineTypes'
  <2>1. Rows(stored)'
    BY <1>1, <1>2 DEF SpineTypes, Rows
  <2>2. Rows(repair)'
    BY <1>1, <1>2 DEF SpineTypes, Rows
  <2>3. \A g \in DOMAIN told' : told'[g] \in Word
    <3>1. \A word \in Word : [word EXCEPT !.is = "forgotten"] \in Word
      BY WordsMove
    <3> QED BY <1>1, <1>2, <3>1 DEF SpineTypes
  <2> QED BY <1>1, <1>2, <2>1, <2>2, <2>3 DEF SpineTypes
<1>4. Mending'
  BY <1>2 DEF Mending, Idle
<1>5. AsTold'
  <2> SUFFICES ASSUME NEW g \in DOMAIN stored', g \notin spoiled' PROVE OneFact(g)'
    BY DEF AsTold
  <2>1. g \in DOMAIN stored /\ g \in DOMAIN told /\ g \notin fs /\ OneFact(g)
    BY <1>1, <1>2, SpineNumbers DEF AsTold, SpineTypes, Rows
  <2> QED BY <1>2, <2>1, OneStays
<1> QED BY <1>3, <1>4, <1>5 DEF SpineInv

LEMMA RescopeKeeps ==
  ASSUME SpineInv, NEW p \in Projects, RescopeToGlobal(p)
  PROVE  SpineInv'
<1> DEFINE moved == {g \in Standing : stored[g].scope = p}
<1>1. SpineTypes /\ AsTold /\ Idle /\ fixing.of = 0 /\ Global \in Scope
  BY DEF SpineInv, RescopeToGlobal, Idle, NoFix, Scope
<1>2. /\ DOMAIN stored' = DOMAIN stored /\ DOMAIN told' = DOMAIN told
      /\ \A g \in DOMAIN stored :
           stored'[g] = IF g \in moved THEN [stored[g] EXCEPT !.scope = Global] ELSE stored[g]
      /\ \A g \in DOMAIN told :
           told'[g] = IF g \in moved THEN [told[g] EXCEPT !.scope = Global] ELSE told[g]
      /\ UNCHANGED <<index, next, fixing, repair, spoiled>>
  BY DEF RescopeToGlobal
<1> HIDE DEF moved
<1>3. \A g \in DOMAIN stored :
        /\ stored[g] \in FactRow /\ g \in DOMAIN told /\ told[g] \in Word
        /\ stored'[g] \in FactRow /\ stored'[g].successor = stored[g].successor
        /\ stored'[g].corrects = stored[g].corrects /\ told'[g].is = told[g].is
        /\ told[g] = Stance(stored[g]) => told'[g] = Stance(stored'[g])
  <2> SUFFICES ASSUME NEW g \in DOMAIN stored
               PROVE  /\ stored[g] \in FactRow /\ g \in DOMAIN told /\ told[g] \in Word
                      /\ stored'[g] \in FactRow /\ stored'[g].successor = stored[g].successor
                      /\ stored'[g].corrects = stored[g].corrects /\ told'[g].is = told[g].is
                      /\ told[g] = Stance(stored[g]) => told'[g] = Stance(stored'[g])
    OBVIOUS
  <2>1. stored[g] \in FactRow /\ g \in DOMAIN told /\ told[g] \in Word
    BY <1>1 DEF SpineTypes, Rows
  <2>2. CASE g \notin moved
    BY <1>2, <2>1, <2>2
  <2>3. CASE g \in moved
    <3>1. /\ stored'[g] = [stored[g] EXCEPT !.scope = Global]
          /\ told'[g] = [told[g] EXCEPT !.scope = Global]
      BY <1>2, <2>1, <2>3
    <3>2. /\ stored'[g] \in FactRow /\ stored'[g].successor = stored[g].successor
          /\ stored'[g].corrects = stored[g].corrects
          /\ Stance(stored'[g]) = [Stance(stored[g]) EXCEPT !.scope = Global]
      <4> DEFINE row == [stored[g] EXCEPT !.scope = Global]
      <4>1. /\ row \in FactRow /\ row.successor = stored[g].successor
            /\ row.corrects = stored[g].corrects
            /\ Stance(row) = [Stance(stored[g]) EXCEPT !.scope = Global]
        BY <1>1, <2>1, RowsMove
      <4>2. stored'[g] = row
        BY <3>1
      <4> HIDE DEF row
      <4> QED BY <4>1, <4>2
    <3>3. told'[g].is = told[g].is
      BY <1>1, <2>1, <3>1, WordsMove
    <3> QED BY <2>1, <3>1, <3>2, <3>3
  <2> QED BY <2>2, <2>3
<1>4. SpineTypes'
  <2>1. Rows(stored)'
    BY <1>1, <1>2, <1>3 DEF SpineTypes, Rows
  <2>2. Rows(repair)'
    BY <1>1, <1>2 DEF SpineTypes, Rows
  <2>3. \A g \in DOMAIN told' : told'[g] \in Word
    <3>1. \A word \in Word : [word EXCEPT !.scope = Global] \in Word
      BY <1>1, WordsMove
    <3> QED BY <1>1, <1>2, <3>1 DEF SpineTypes
  <2> QED BY <1>1, <1>2, <2>1, <2>2, <2>3 DEF SpineTypes
<1>5. Mending'
  BY <1>1, <1>2 DEF Mending, Idle
<1>6. AsTold'
  <2> SUFFICES ASSUME NEW g \in DOMAIN stored', g \notin spoiled' PROVE OneFact(g)'
    BY DEF AsTold
  <2>1. g \in DOMAIN stored /\ OneFact(g)
    BY <1>1, <1>2, SpineNumbers DEF AsTold
  <2> QED BY <1>2, <1>3, <2>1 DEF OneFact
<1> QED BY <1>4, <1>5, <1>6 DEF SpineInv

LEMMA DecayKeeps ==
  ASSUME SpineInv, NEW faded, Decay(faded)
  PROVE  SpineInv'
<1>1. SpineTypes /\ AsTold /\ Idle /\ fixing.of = 0
  BY DEF SpineInv, Decay, Idle, NoFix
<1>2. /\ DOMAIN stored' = DOMAIN stored \ faded
      /\ \A g \in DOMAIN stored' : stored'[g] = stored[g]
      /\ UNCHANGED <<index, next, fixing, repair, told, spoiled>>
  BY DEF Decay, Without
<1>3. SpineTypes'
  <2>1. Rows(stored)'
    BY <1>1, <1>2 DEF SpineTypes, Rows
  <2>2. Rows(repair)'
    BY <1>1, <1>2 DEF SpineTypes, Rows
  <2> QED BY <1>1, <1>2, <2>1, <2>2 DEF SpineTypes
<1>4. Mending'
  BY <1>1, <1>2 DEF Mending, Idle
<1>5. AsTold'
  <2> SUFFICES ASSUME NEW g \in DOMAIN stored', g \notin spoiled' PROVE OneFact(g)'
    BY DEF AsTold
  <2>1. g \in DOMAIN stored /\ OneFact(g)
    BY <1>1, <1>2, SpineNumbers DEF AsTold
  <2> QED BY <1>2, <2>1, OneStays
<1> QED BY <1>3, <1>4, <1>5 DEF SpineInv

LEMMA RestartKeeps ==
  ASSUME SpineInv, NEW other \in BOOLEAN, Restart(other)
  PROVE  SpineInv'
<1>1. SpineTypes /\ AsTold
  BY DEF SpineInv
<1>2. /\ DOMAIN stored' = DOMAIN stored
      /\ \A g \in DOMAIN stored :
           stored'[g] = IF other THEN [stored[g] EXCEPT !.by = "other"] ELSE stored[g]
      /\ repair' = [f \in {g \in Standing : stored'[g].by = "other"} |-> stored'[f]]
      /\ index' = Standing /\ fixing' = NoFix
      /\ spoiled' = (IF Idle THEN spoiled ELSE spoiled \cup {fixing.of})
      /\ UNCHANGED <<next, told>>
  BY DEF Restart, Rebuilt
<1>3. Standing = {f \in DOMAIN stored : stored[f].successor = 0}
  BY DEF Standing, Stands
<1>4. \A g \in DOMAIN stored :
        /\ stored'[g] \in FactRow /\ stored'[g].successor = stored[g].successor
        /\ stored'[g].corrects = stored[g].corrects /\ Stance(stored'[g]) = Stance(stored[g])
  <2> SUFFICES ASSUME NEW g \in DOMAIN stored
               PROVE  /\ stored'[g] \in FactRow /\ stored'[g].successor = stored[g].successor
                      /\ stored'[g].corrects = stored[g].corrects
                      /\ Stance(stored'[g]) = Stance(stored[g])
    OBVIOUS
  <2>1. stored[g] \in FactRow
    BY <1>1 DEF SpineTypes, Rows
  <2>2. CASE other
    BY <1>2, <2>1, <2>2, RowsMove
  <2>3. CASE ~other
    BY <1>2, <2>1, <2>3
  <2> QED BY <2>2, <2>3
<1>5. SpineTypes'
  <2>1. Rows(stored)'
    BY <1>1, <1>2, <1>4 DEF SpineTypes, Rows
  <2>2. \A f \in DOMAIN repair' : f \in DOMAIN stored' /\ repair'[f] = stored'[f] /\ repair'[f].successor = 0
    BY <1>2, <1>3, <1>4
  <2>3. Rows(repair)'
    BY <2>1, <2>2 DEF Rows
  <2>4. index' \subseteq 1..(next - 1)
    BY <1>1, <1>2, <1>3 DEF SpineTypes, Rows
  <2> QED BY <1>1, <1>2, <2>1, <2>2, <2>3, <2>4 DEF SpineTypes
<1>6. Mending'
  BY <1>2 DEF Mending, Idle
<1>7. AsTold'
  <2> SUFFICES ASSUME NEW g \in DOMAIN stored', g \notin spoiled' PROVE OneFact(g)'
    BY DEF AsTold
  <2>1. g \in DOMAIN stored /\ g \notin spoiled
    BY <1>2
  <2>2. g # fixing.of
    BY <1>2, <2>1, SpineNumbers, <1>1 DEF Idle, NoFix
  <2>3. OneFact(g)
    BY <1>1, <2>1, <2>2 DEF AsTold
  <2> QED BY <1>2, <1>3, <1>4, <2>1, <2>3 DEF OneFact
<1> QED BY <1>5, <1>6, <1>7 DEF SpineInv

LEMMA ReembedKeeps ==
  ASSUME SpineInv, NEW f \in DOMAIN repair, Reembed(f)
  PROVE  SpineInv'
<1> DEFINE row == [repair[f] EXCEPT !.by = "this"]
<1>1. SpineTypes /\ AsTold /\ Idle /\ fixing.of = 0
  BY DEF SpineInv, Reembed, Idle, NoFix
<1>2. /\ f \in 1..(next - 1) /\ repair[f] \in FactRow /\ repair[f].corrects < f
      /\ repair[f].successor = 0
  BY <1>1 DEF SpineTypes, Rows
<1>3. /\ stored' = Put(stored, f, row) /\ index' = index \cup {f}
      /\ DOMAIN repair' = DOMAIN repair \ {f} /\ \A g \in DOMAIN repair' : repair'[g] = repair[g]
      /\ spoiled' = (IF f \in DOMAIN stored /\ stored[f] = repair[f] THEN spoiled ELSE spoiled \cup {f})
      /\ UNCHANGED <<next, fixing, told>>
  BY DEF Reembed, Without
<1>4. /\ row \in FactRow /\ row.successor = 0 /\ row.corrects = repair[f].corrects
      /\ Stance(row) = Stance(repair[f])
  BY <1>2, RowsMove
<1> HIDE DEF row
<1>5. /\ DOMAIN stored' = DOMAIN stored \cup {f} /\ stored'[f] = row
      /\ \A g \in DOMAIN stored : g # f => stored'[g] = stored[g]
  BY <1>3 DEF Put
<1>6. SpineTypes'
  <2>1. Rows(stored)'
    BY <1>1, <1>2, <1>3, <1>4, <1>5 DEF SpineTypes, Rows
  <2>2. Rows(repair)' /\ \A g \in DOMAIN repair' : repair'[g].successor = 0
    BY <1>1, <1>3 DEF SpineTypes, Rows
  <2> QED BY <1>1, <1>2, <1>3, <2>1, <2>2 DEF SpineTypes
<1>7. Mending'
  BY <1>1, <1>3 DEF Mending, Idle
<1>8. AsTold'
  <2> SUFFICES ASSUME NEW g \in DOMAIN stored', g \notin spoiled' PROVE OneFact(g)'
    BY DEF AsTold
  <2>1. CASE g = f
    <3>1. f \in DOMAIN stored /\ stored[f] = repair[f] /\ f \notin spoiled
      BY <1>3, <2>1
    <3>2. OneFact(f)
      BY <1>1, <3>1, SpineNumbers DEF AsTold
    <3> QED BY <1>2, <1>3, <1>4, <1>5, <2>1, <3>1, <3>2 DEF OneFact
  <2>2. CASE g # f
    <3>1. g \in DOMAIN stored /\ OneFact(g)
      BY <1>1, <1>3, <1>5, <2>2, SpineNumbers DEF AsTold
    <3> QED BY <1>3, <1>5, <2>2, <3>1, OneStays
  <2> QED BY <2>1, <2>2
<1> QED BY <1>6, <1>7, <1>8 DEF SpineInv

-----------------------------------------------------------------------------
(* A function over the numbers that is defined by its value before exists.  *)

Upto(n, g, S, first, step) ==
  g \in [0..n -> S] /\ g[0] = first /\ \A i \in 1..n : g[i] = step[g[i - 1]]

LEMMA Iterates ==
  ASSUME NEW S, NEW first \in S, NEW step \in [S -> S]
  PROVE  \E g \in [Nat -> S] : g[0] = first /\ \A n \in Nat \ {0} : g[n] = step[g[n - 1]]
<1> DEFINE Is(n, g) == Upto(n, g, S, first, step)
           Unreached == {n \in Nat : ~\E g : Is(n, g)}
<1>1. \A n \in Nat : \E g : Is(n, g)
  <2> SUFFICES ASSUME Unreached # {} PROVE FALSE
    OBVIOUS
  <2>1. Unreached \subseteq Nat
    OBVIOUS
  <2>2. PICK n \in Unreached : \A m \in Unreached : n <= m
    <3> HIDE DEF Unreached
    <3> QED BY <2>1, LeastNatural
  <2>3. n \in Nat /\ ~\E g : Is(n, g)
    OBVIOUS
  <2>4. CASE n = 0
    <3>1. Is(n, [i \in 0..n |-> first])
      BY <2>4 DEF Upto
    <3> QED BY <2>3, <3>1
  <2>5. CASE n # 0
    <3>1. n - 1 \in Nat /\ n - 1 \notin Unreached
      BY <2>2, <2>3, <2>5
    <3>2. PICK g : Is(n - 1, g)
      BY <3>1
    <3> DEFINE new == [i \in 0..n |-> IF i = n THEN step[g[n - 1]] ELSE g[i]]
    <3>3. Is(n, new)
      <4>1. /\ g \in [0..(n - 1) -> S] /\ g[0] = first
            /\ \A i \in 1..(n - 1) : g[i] = step[g[i - 1]]
        BY <3>2 DEF Upto
      <4>2. new \in [0..n -> S]
        BY <2>3, <3>1, <4>1
      <4>3. new[0] = first
        BY <2>3, <2>5, <4>1
      <4>4. \A i \in 1..n : new[i] = step[new[i - 1]]
        BY <2>3, <4>1
      <4> HIDE DEF new
      <4> QED BY <4>2, <4>3, <4>4 DEF Upto
    <3> QED BY <2>3, <3>3
  <2> QED BY <2>4, <2>5
<1>2. ASSUME NEW n \in Nat, NEW m \in Nat, NEW g, NEW h, Is(n, g), Is(m, h)
      PROVE  \A i \in Nat : i <= n /\ i <= m => g[i] = h[i]
  <2> DEFINE Apart == {i \in Nat : i <= n /\ i <= m /\ g[i] # h[i]}
  <2> SUFFICES ASSUME Apart # {} PROVE FALSE
    OBVIOUS
  <2>1. Apart \subseteq Nat
    OBVIOUS
  <2>2. PICK i \in Apart : \A j \in Apart : i <= j
    <3> HIDE DEF Apart
    <3> QED BY <2>1, LeastNatural
  <2>3. i # 0
    BY <1>2 DEF Upto
  <2>4. i - 1 \in Nat /\ i - 1 \notin Apart /\ i \in 1..n /\ i \in 1..m
    BY <2>2, <2>3
  <2>5. g[i - 1] = h[i - 1]
    BY <2>4
  <2> QED BY <1>2, <2>4, <2>5 DEF Upto
<1> DEFINE pick == [n \in Nat |-> CHOOSE g : Is(n, g)]
           f    == [n \in Nat |-> pick[n][n]]
<1>3. \A n \in Nat : Is(n, pick[n])
  BY <1>1
<1> HIDE DEF pick
<1>4. \A n \in Nat : pick[n] \in [0..n -> S] /\ n \in 0..n
  BY <1>3 DEF Upto
<1>5. f \in [Nat -> S]
  BY <1>4
<1>6. f[0] = first
  BY <1>3 DEF Upto
<1>7. ASSUME NEW n \in Nat \ {0} PROVE f[n] = step[f[n - 1]]
  <2>1. n \in Nat /\ n - 1 \in Nat /\ n \in 1..n
    OBVIOUS
  <2>2. pick[n][n] = step[pick[n][n - 1]]
    BY <1>3, <2>1 DEF Upto
  <2>3. Is(n, pick[n]) /\ Is(n - 1, pick[n - 1])
    BY <1>3, <2>1
  <2> HIDE DEF Is
  <2>4. pick[n][n - 1] = pick[n - 1][n - 1]
    BY <1>2, <2>1, <2>3
  <2> QED BY <2>1, <2>2, <2>4
<1> QED BY <1>5, <1>6, <1>7

(* The earlier wordings of some facts are with the facts, and have theirs.  *)
LEMMA EarlierIsClosed ==
  ASSUME SpineTypes, NEW fs \in SUBSET DOMAIN stored, NEW f \in Earlier(fs)
  PROVE  stored[f].corrects \in DOMAIN stored => stored[f].corrects \in Earlier(fs)
<1> DEFINE D == DOMAIN stored
           S == SUBSET D
           Back(X) == X \cup ({stored[h].corrects : h \in X} \cap D)
           step == [X \in S |-> Back(X)]
<1>1. MaxFact \in Nat /\ \A h \in D : h \in Nat /\ h >= 1 /\ h <= MaxFact /\ stored[h].corrects < h
  BY SpineNumbers DEF SpineTypes, Rows
<1>2. step \in [S -> S] /\ fs \in S
  OBVIOUS
<1>3. PICK g \in [Nat -> S] : g[0] = fs /\ \A n \in Nat \ {0} : g[n] = step[g[n - 1]]
  <2> HIDE DEF step, S
  <2> QED BY <1>2, Iterates
<1>4. \A n \in Nat \ {0} : n - 1 \in Nat /\ g[n - 1] \in S /\ g[n] = Back(g[n - 1])
  <2>1. \A X \in S : step[X] = Back(X)
    OBVIOUS
  <2> HIDE DEF S, step, Back
  <2>2. \A n \in Nat \ {0} : n - 1 \in Nat /\ g[n - 1] \in S /\ g[n] = step[g[n - 1]]
    BY <1>3
  <2> QED BY <2>1, <2>2
<1> DEFINE Is(h) == h = [n \in Nat |-> IF n = 0 THEN fs
                                       ELSE h[n - 1] \cup ({stored[x].corrects : x \in h[n - 1]} \cap DOMAIN stored)]
           back == CHOOSE h : Is(h)
<1>5. Is(g)
  <2>1. g = [n \in Nat |-> IF n = 0 THEN fs ELSE Back(g[n - 1])]
    <3> HIDE DEF Back, S
    <3> QED BY <1>3, <1>4
  <2> QED BY <2>1
<1>6. Is(back)
  <2> HIDE DEF Is
  <2> QED BY <1>5
<1>7. Earlier(fs) = back[MaxFact]
  BY DEF Earlier
<1> HIDE DEF back
<1>8. /\ back[0] = fs
      /\ \A n \in Nat \ {0} : n - 1 \in Nat /\ back[n] = Back(back[n - 1])
  BY <1>6
<1> HIDE DEF Is
<1> DEFINE Late == {n \in Nat : \E h \in back[n] : (n = 0 \/ h \notin back[n - 1]) /\ ~(h \in D /\ h <= MaxFact - n)}
<1>9. Late = {}
  <2> SUFFICES ASSUME Late # {} PROVE FALSE
    OBVIOUS
  <2>1. Late \subseteq Nat
    OBVIOUS
  <2>2. PICK n \in Late : \A m \in Late : n <= m
    <3> HIDE DEF Late
    <3> QED BY <2>1, LeastNatural
  <2>3. PICK h \in back[n] : (n = 0 \/ h \notin back[n - 1]) /\ ~(h \in D /\ h <= MaxFact - n)
    OBVIOUS
  <2>4. n # 0
    BY <1>1, <1>8, <2>3
  <2>5. n \in Nat \ {0} /\ n - 1 \in Nat /\ n - 1 \notin Late /\ h \in Back(back[n - 1]) /\ h \notin back[n - 1]
    BY <1>8, <2>2, <2>3, <2>4
  <2>6. PICK x \in back[n - 1] : h = stored[x].corrects /\ h \in D
    BY <2>5
  <2>7. n - 1 = 0 \/ x \notin back[(n - 1) - 1]
    <3> SUFFICES ASSUME n - 1 # 0, x \in back[(n - 1) - 1] PROVE FALSE
      OBVIOUS
    <3>1. n - 1 \in Nat \ {0} /\ back[n - 1] = Back(back[(n - 1) - 1])
      BY <1>8, <2>5
    <3> QED BY <2>5, <2>6, <3>1
  <2>8. x \in D /\ x <= MaxFact - (n - 1)
    BY <2>5, <2>7
  <2> QED BY <1>1, <2>3, <2>5, <2>6, <2>8
<1>10. f \in D
  <2> DEFINE Out == {n \in Nat : ~(back[n] \subseteq D)}
  <2>1. Out = {}
    <3> SUFFICES ASSUME Out # {} PROVE FALSE
      OBVIOUS
    <3>1. Out \subseteq Nat
      OBVIOUS
    <3>2. PICK n \in Out : \A m \in Out : n <= m
      <4> HIDE DEF Out
      <4> QED BY <3>1, LeastNatural
    <3>3. n # 0
      BY <1>8
    <3>4. n \in Nat \ {0} /\ n - 1 \in Nat /\ n - 1 \notin Out /\ back[n] = Back(back[n - 1])
      BY <1>8, <3>2, <3>3
    <3> QED BY <3>4
  <2> QED BY <1>1, <1>7, <2>1
<1> DEFINE c == stored[f].corrects
<1>11. ASSUME c \in D, c \notin back[MaxFact] PROVE FALSE
  <2>1. MaxFact + 1 \in Nat \ {0} /\ (MaxFact + 1) - 1 = MaxFact
    BY <1>1
  <2>2. back[MaxFact + 1] = Back(back[MaxFact])
    BY <1>8, <2>1
  <2>3. c \in back[MaxFact + 1]
    BY <1>7, <1>11, <2>2
  <2>4. MaxFact + 1 \notin Late
    BY <1>9
  <2>5. c <= MaxFact - (MaxFact + 1)
    <3> HIDE DEF c, D
    <3> QED BY <1>11, <2>1, <2>3, <2>4
  <2> QED BY <1>1, <1>11, <2>5
<1> QED BY <1>7, <1>11

-----------------------------------------------------------------------------

LEMMA SpineStep == SpineInv /\ [SpineNext]_spineVars => SpineInv'
<1> SUFFICES ASSUME SpineInv, [SpineNext]_spineVars PROVE SpineInv'
  OBVIOUS
<1>1. CASE StrikeThrough
  BY <1>1, StrikeKeeps
<1>2. CASE StrikeFails
  BY <1>2, StrikeFailsKeeps
<1>3. ASSUME NEW other \in BOOLEAN, Restart(other) PROVE SpineInv'
  BY <1>3, RestartKeeps
<1>4. ASSUME NEW s \in Scope, Remember(s) PROVE SpineInv'
  BY <1>4, RememberKeeps
<1>5. ASSUME NEW p \in Projects, ForgetScope(p) \/ RescopeToGlobal(p) PROVE SpineInv'
  BY <1>5, DropKeeps, RescopeKeeps DEF ForgetScope
<1>6. ASSUME NEW f \in DOMAIN stored, Correct(f) PROVE SpineInv'
  BY <1>6, CorrectKeeps
<1>7. ASSUME NEW f \in DOMAIN stored, Forget(f) PROVE SpineInv'
  BY <1>7, DropKeeps DEF Forget
<1>8. ASSUME NEW f \in DOMAIN stored, NEW pinned \in BOOLEAN, SetPinned(f, pinned) PROVE SpineInv'
  BY <1>8, PinKeeps
<1>9. ASSUME NEW f \in DOMAIN stored, NEW s \in Scope, SetScope(f, s) PROVE SpineInv'
  BY <1>9, ScopeKeeps
<1>10. ASSUME NEW f \in DOMAIN repair, Reembed(f) PROVE SpineInv'
  BY <1>10, ReembedKeeps
<1>11. CASE PurgeAny
  <2>1. PICK after \in 0..MaxFact, before \in 1..(MaxFact + 1), scopes \in {Scope} \cup {{s} : s \in Scope} :
          Purge(after, before, scopes)
    BY <1>11 DEF PurgeAny
  <2>2. PICK asked : Drop(Purged(asked)) /\ Idle /\ UNCHANGED spoiled
    BY <2>1 DEF Purge
  <2> QED BY <2>2, DropKeeps
<1>12. ASSUME NEW faded \in SUBSET DOMAIN stored, Decay(faded) PROVE SpineInv'
  BY <1>12, DecayKeeps
<1>13. CASE UNCHANGED spineVars
  <2>1. SpineTypes'
    BY <1>13 DEF spineVars, SpineInv, SpineTypes, Rows
  <2>2. Mending' /\ AsTold'
    BY <1>13 DEF spineVars, SpineInv, Mending, AsTold, OneFact, Idle
  <2> QED BY <2>1, <2>2 DEF SpineInv
<1> QED
  BY <1>1, <1>2, <1>3, <1>4, <1>5, <1>6, <1>7, <1>8, <1>9, <1>10, <1>11, <1>12, <1>13 DEF SpineNext

LEMMA SpineHolds == SpineSpec => []SpineInv
<1>1. SpineInit => SpineInv
  <2> SUFFICES ASSUME SpineInit PROVE SpineInv
    OBVIOUS
  <2>1. /\ DOMAIN stored = {} /\ DOMAIN repair = {} /\ DOMAIN told = {} /\ index = {}
        /\ next = 1 /\ Idle /\ MaxFact \in Nat
    BY SpineAssumption DEF SpineInit, Nothing, Idle
  <2>2. SpineTypes
    BY <2>1 DEF SpineTypes, Rows
  <2> QED BY <2>1, <2>2 DEF SpineInv, Mending, AsTold
<1> QED BY <1>1, SpineStep, PTL DEF SpineSpec

(* The facts keep their types, a wording is younger than the one it corrects,*)
(* and the one that succeeds it younger still.                              *)
THEOREM SpineTypesHold == SpineSpec => []SpineTypeOK
<1>1. SpineInv => SpineTypeOK
  <2> SUFFICES ASSUME SpineInv PROVE SpineTypeOK
    OBVIOUS
  <2>1. SpineTypes /\ MaxFact \in Nat
    BY SpineNumbers DEF SpineInv
  <2>2. \A f \in 1..(next - 1) : f \in Fact
    BY <2>1 DEF SpineTypes, Fact
  <2> QED BY <2>1, <2>2 DEF SpineTypes, Rows, SpineTypeOK
<1> QED BY <1>1, SpineHolds, PTL

(* What the person corrected or forgot is not found by any search, whatever *)
(* is moved, pinned, decayed, restarted or mended, but for what is spoiled. *)
THEOREM CorrectionsHold == SpineSpec => []CorrectedIsNotRecalled
<1>1. SpineInv => CorrectedIsNotRecalled
  <2> SUFFICES ASSUME SpineInv, Idle, NEW f \in DOMAIN told, f \notin spoiled, told[f].is # "stands",
                      f \in index, f \in DOMAIN stored
               PROVE  FALSE
    BY DEF CorrectedIsNotRecalled
  <2>1. f # fixing.of
    BY SpineNumbers DEF SpineInv, Idle, NoFix
  <2>2. OneFact(f)
    BY <2>1 DEF SpineInv, AsTold
  <2> QED BY <2>2 DEF OneFact, Stance
<1> QED BY <1>1, SpineHolds, PTL

(* A fact that stands is where the person last put it and pinned as they    *)
(* left it, through every rewording.                                        *)
THEOREM FactsStandAsTold == SpineSpec => []StandsAsTold
<1>1. SpineInv => StandsAsTold
  <2> SUFFICES ASSUME SpineInv, Idle, NEW f \in Standing, f \notin spoiled
               PROVE  told[f] = Stance(stored[f])
    BY DEF StandsAsTold, Stance
  <2>1. f \in DOMAIN stored /\ stored[f].successor = 0
    BY DEF Standing, Stands
  <2>2. f # fixing.of
    BY <2>1, SpineNumbers DEF SpineInv, Idle, NoFix
  <2>3. OneFact(f)
    BY <2>1, <2>2 DEF SpineInv, AsTold
  <2> QED BY <2>1, <2>3 DEF OneFact
<1> QED BY <1>1, SpineHolds, PTL

(* A purge takes the earlier wordings of what it removes, however many      *)
(* there are.                                                               *)
THEOREM PurgesGoBack == SpineSpec => PurgeTakesEarlierWordings
<1>1. SpineInv =>
        \A f \in DOMAIN stored \ DOMAIN stored' :
          PurgeAny => stored[f].corrects \notin DOMAIN stored'
  <2> SUFFICES ASSUME SpineInv, NEW f \in DOMAIN stored, f \notin DOMAIN stored', PurgeAny
               PROVE  stored[f].corrects \notin DOMAIN stored'
    OBVIOUS
  <2>1. PICK after \in 0..MaxFact, before \in 1..(MaxFact + 1), scopes \in {Scope} \cup {{s} : s \in Scope} :
          Purge(after, before, scopes)
    BY DEF PurgeAny
  <2>2. PICK asked \in SUBSET DOMAIN stored : Drop(Purged(asked))
    BY <2>1 DEF Purge
  <2>3. DOMAIN stored' = DOMAIN stored \ Earlier(asked)
    BY <2>2 DEF Drop, Without, Purged
  <2>4. f \in Earlier(asked) /\ SpineTypes
    BY <2>3 DEF SpineInv
  <2> QED BY <2>3, <2>4, EarlierIsClosed
<1> QED BY <1>1, SpineHolds, PTL DEF SpineSpec, PurgeTakesEarlierWordings

(* Nothing but the person's word removes a fact they pinned or the record   *)
(* that they corrected one.                                                 *)
THEOREM PinsStay == SpineSpec => PinsAndHistoryAreKept
<1> DEFINE StillThere == \A f \in DOMAIN stored \ (DOMAIN stored' \cup spoiled) :
                      stored[f].pinned \/ told[f].is = "corrected" => told'[f].is = "forgotten"
<1>1. ASSUME SpineInv, NEW fs, Drop(fs) PROVE StillThere
  <2> SUFFICES ASSUME NEW f \in DOMAIN stored, f \notin DOMAIN stored' PROVE told'[f].is = "forgotten"
    OBVIOUS
  <2>1. f \in fs /\ f \in DOMAIN told /\ told[f] \in Word
    BY <1>1 DEF Drop, Without, SpineInv, SpineTypes, Rows
  <2>2. told'[f] = [told[f] EXCEPT !.is = "forgotten"]
    BY <1>1, <2>1 DEF Drop
  <2> QED BY <2>1, <2>2, WordsMove
<1>2. ASSUME SpineInv, NEW faded, Decay(faded) PROVE StillThere
  <2> SUFFICES ASSUME NEW f \in DOMAIN stored, f \notin DOMAIN stored', f \notin spoiled
               PROVE  ~stored[f].pinned /\ told[f].is # "corrected"
    OBVIOUS
  <2>1. f \in faded /\ f \in Standing /\ ~stored[f].pinned /\ Idle
    BY <1>2 DEF Decay, Without, MayFade
  <2>2. stored[f].successor = 0 /\ f # fixing.of
    BY <1>2, <2>1, SpineNumbers DEF Standing, Stands, SpineInv, Idle, NoFix
  <2>3. OneFact(f)
    BY <1>2, <2>2 DEF SpineInv, AsTold
  <2> QED BY <2>1, <2>2, <2>3 DEF OneFact, Stance
<1>3. ASSUME DOMAIN stored \subseteq DOMAIN stored' PROVE StillThere
  BY <1>3
<1>4. ASSUME SpineInv, [SpineNext]_spineVars PROVE StillThere
  <2>1. CASE StrikeThrough \/ StrikeFails \/ UNCHANGED spineVars
    BY <2>1, <1>3 DEF StrikeThrough, StrikeFails, spineVars, Put
  <2>2. ASSUME NEW other \in BOOLEAN, Restart(other) PROVE StillThere
    BY <2>2, <1>3 DEF Restart
  <2>3. ASSUME NEW s \in Scope, Remember(s) PROVE StillThere
    BY <2>3, <1>3 DEF Remember, Put
  <2>4. ASSUME NEW p \in Projects, ForgetScope(p) PROVE StillThere
    BY <1>1, <1>4, <2>4 DEF ForgetScope
  <2>5. ASSUME NEW p \in Projects, RescopeToGlobal(p) PROVE StillThere
    BY <2>5, <1>3 DEF RescopeToGlobal
  <2>6. ASSUME NEW f \in DOMAIN stored, Correct(f) PROVE StillThere
    BY <2>6, <1>3 DEF Correct, Put
  <2>7. ASSUME NEW f \in DOMAIN stored, Forget(f) PROVE StillThere
    BY <1>1, <1>4, <2>7 DEF Forget
  <2>8. ASSUME NEW f \in DOMAIN stored, NEW pinned \in BOOLEAN, SetPinned(f, pinned) PROVE StillThere
    BY <2>8, <1>3 DEF SetPinned
  <2>9. ASSUME NEW f \in DOMAIN stored, NEW s \in Scope, SetScope(f, s) PROVE StillThere
    BY <2>9, <1>3 DEF SetScope
  <2>10. ASSUME NEW f \in DOMAIN repair, Reembed(f) PROVE StillThere
    BY <2>10, <1>3 DEF Reembed, Put
  <2>11. CASE PurgeAny
    <3>1. PICK after \in 0..MaxFact, before \in 1..(MaxFact + 1),
               scopes \in {Scope} \cup {{s} : s \in Scope} : Purge(after, before, scopes)
      BY <2>11 DEF PurgeAny
    <3>2. PICK asked : Drop(Purged(asked))
      BY <3>1 DEF Purge
    <3> QED BY <1>1, <1>4, <3>2
  <2>12. ASSUME NEW faded \in SUBSET DOMAIN stored, Decay(faded) PROVE StillThere
    BY <1>2, <1>4, <2>12
  <2> HIDE DEF StillThere
  <2> QED
    BY <1>4, <2>1, <2>2, <2>3, <2>4, <2>5, <2>6, <2>7, <2>8, <2>9, <2>10, <2>11, <2>12 DEF SpineNext
<1>5. SpineInv /\ [SpineNext]_spineVars => StillThere
  BY <1>4
<1> QED BY <1>5, SpineHolds, PTL DEF SpineSpec, PinsAndHistoryAreKept

-----------------------------------------------------------------------------
(* The files that were read.  Facts, rows and sources are numbered by one   *)
(* counter: a fact is in one hand at a time, a job's or a row's, and a      *)
(* source is of one root.                                                   *)

Used(n) == n \in Nat /\ n < fresh

FileRow == [id : Nat, source : Nat, of : Files, version : Nat, facts : SUBSET Nat, problem : BOOLEAN]
Result  == [of : Files, version : Nat, facts : SUBSET Nat, problem : BOOLEAN]
Batch   == [at : {"reads", "records"}, how : {"whole", "merge"}, root : Roots,
            scope : Scopes \cup {"global"}, todo : SUBSET (Files \cup Nat), done : SUBSET Result]
Again   == [at : {"reads"}, how : {"one"}, row : FileRow, scope : {"global"},
            todo : SUBSET Files, done : SUBSET Result]

KnowledgeTypes ==
  /\ fresh \in Nat \ {0} /\ DOMAIN job = Jobs /\ outcomes \subseteq FileRow
  /\ DOMAIN source = Roots
  /\ \A r \in Roots : source[r] # None => source[r] \in [id : Nat, scan : Nat, told : BOOLEAN]
  /\ DOMAIN files = Files /\ \A f \in Files : files[f] \in Nat

(* Who says that a source is this root's: its table, a row, or a job that   *)
(* is about to write rows.                                                  *)
Claims(id, r) ==
  \/ r \in Roots /\ source[r] # None /\ source[r].id = id
  \/ \E x \in outcomes : x.source = id /\ x.of.in = r
  \/ \E j \in Jobs : job[j].at = "records" /\ id \in job[j].todo /\ job[j].root = r

OneRoot == \A id, q, r : Claims(id, q) => Used(id) /\ (Claims(id, r) => q = r)

RowsAreOf ==
  \A x \in outcomes :
    /\ Used(x.id) /\ \A n \in x.facts : Used(n)
    /\ \A y \in outcomes : x.id = y.id => x.source = y.source

(* A job reads a folder whole, or drops into the directory of drops; the    *)
(* retry reads one row's file.                                              *)
Whole(j) == job[j].how = "whole" /\ job[j].root \in Folders
Merge(j) == job[j].how = "merge" /\ job[j].root = Uploads

Batches(j) ==
  /\ j # "retry" /\ job[j] \in Batch /\ (Whole(j) \/ Merge(j))
  /\ \A o \in job[j].done : o.of \in In(job[j].root)
  /\ \/ job[j].at = "reads" /\ job[j].todo \subseteq In(job[j].root)
        /\ \A o \in job[j].done : o.of \notin job[j].todo
     \/ job[j].at = "records" /\ \E id \in Nat : job[j].todo = {id}

Retries(j) ==
  /\ j = "retry" /\ job[j] \in Again /\ Used(job[j].row.id)
  /\ \A y \in outcomes : y.id = job[j].row.id => y.source = job[j].row.source
  /\ \/ job[j].todo = {job[j].row.of} /\ job[j].done = {}
     \/ job[j].todo = {} /\ \E o \in Result : job[j].done = {o} /\ o.of = job[j].row.of

JobsAre == \A j \in Jobs : job[j] = Resting \/ Batches(j) \/ Retries(j)

(* What a job read: once a file, each fact of one file, and of no row and   *)
(* no other job.                                                            *)
OwnFacts(j) ==
  /\ \A o \in job[j].done : \A n \in o.facts : Used(n) /\ \A x \in outcomes : n \notin x.facts
  /\ \A o, p \in job[j].done : o.of = p.of \/ o.facts \cap p.facts # {} => o = p

FactsApart(i, j) ==
  \A o \in job[i].done : \A p \in job[j].done : \A n \in o.facts : n \notin p.facts

InOneHand ==
  /\ \A j \in Jobs : OwnFacts(j)
  /\ \A i, j \in Jobs : i # j => FactsApart(i, j)

FilesInv == KnowledgeTypes /\ OneRoot /\ RowsAreOf /\ OneRowPerFile /\ JobsAre /\ InOneHand

(* Who has a dropped file: its one row, or the one job that reads it.       *)
HasFile(j, f) ==
  (\E o \in job[j].done : o.of = f) \/ (job[j].at = "reads" /\ f \in job[j].todo)

DropsAreKept ==
  \A f \in In(Uploads) :
    /\ \A x, y \in outcomes : x.of = f /\ y.of = f => x = y /\ files[f] > 0
    /\ \A j \in Jobs \ {"retry"} :
         HasFile(j, f) =>
           /\ files[f] > 0 /\ \A x \in outcomes : x.of # f
           /\ \A i \in Jobs \ {"retry", j} : ~HasFile(i, f)

(* What a retry rewrites is a row without facts, which is there while the   *)
(* loop is not free.                                                        *)
RetriesInPlace ==
  job["retry"] # Resting =>
    LET row == job["retry"].row IN
    /\ row.facts = {} /\ (row.of.in = Uploads => row \in outcomes)
    /\ \A y \in outcomes : y.id = row.id /\ y.of = row.of => y = row

ProblemsAreEmpty ==
  /\ \A x \in outcomes : x.problem => x.facts = {}
  /\ \A j \in Jobs : \A o \in job[j].done : o.problem => o.facts = {}

(* A dropped file's fact is in the file's row, in the hand of the job that  *)
(* read it, on its way out, or cut off.                                     *)
InRows(k) == \E x \in outcomes : x.of = k.of /\ k.id \in x.facts
InHand(k) == \E j \in Jobs : \E o \in job[j].done : o.of = k.of /\ k.id \in o.facts

Accounted ==
  \A k \in spine : k.of.in = Uploads => InRows(k) \/ InHand(k) \/ k.id \in cut \/ k.id \in leaving

Drops == DropsAreKept /\ RetriesInPlace /\ ProblemsAreEmpty /\ Accounted

LEMMA JobsFacts ==
  ASSUME KnowledgeTypes, JobsAre, NEW j \in Jobs
  PROVE  /\ job[j].done \subseteq Result
         /\ job[j].at # "idle" => Batches(j) \/ Retries(j)
         /\ job[j] = Resting => job[j].at = "idle" /\ job[j].todo = {} /\ job[j].done = {}
         /\ job[j].at = "records" => Batches(j)
BY DEF JobsAre, Batches, Retries, Batch, Again, Resting

(* Jobs end, rows go, sources are withdrawn: what is left is as it was.     *)
LEMMA FewerHands ==
  ASSUME FilesInv, KnowledgeTypes', fresh' >= fresh, outcomes' \subseteq outcomes,
         \A j \in Jobs : job'[j] = job[j] \/ job'[j] = Resting,
         \A r \in Roots : source'[r] # None => source[r] # None /\ source'[r].id = source[r].id
  PROVE  FilesInv'
<1>1. KnowledgeTypes /\ JobsAre /\ fresh \in Nat /\ fresh' \in Nat
  BY DEF FilesInv, KnowledgeTypes
<1>2. \A j \in Jobs : job'[j] = job[j] \/ (job'[j] = Resting /\ job'[j].at = "idle"
                                           /\ job'[j].todo = {} /\ job'[j].done = {})
  BY DEF Resting
<1>3. \A n : Used(n) => Used(n)'
  BY <1>1 DEF Used
<1>4. OneRoot'
  <2>1. \A id, r : Claims(id, r)' => Claims(id, r)
    BY <1>2 DEF Claims
  <2> QED BY <1>3, <2>1 DEF FilesInv, OneRoot
<1>5. RowsAreOf'
  BY <1>3 DEF FilesInv, RowsAreOf
<1>6. OneRowPerFile'
  BY DEF FilesInv, OneRowPerFile
<1>7. JobsAre'
  <2> SUFFICES ASSUME NEW j \in Jobs, job'[j] # Resting PROVE Batches(j)' \/ Retries(j)'
    BY DEF JobsAre
  <2>1. job'[j] = job[j] /\ (Batches(j) \/ Retries(j))
    BY <1>1 DEF JobsAre
  <2>2. CASE Batches(j)
    BY <2>1, <2>2 DEF Batches, Whole, Merge
  <2>3. CASE Retries(j)
    BY <1>3, <2>1, <2>3 DEF Retries
  <2> QED BY <2>1, <2>2, <2>3
<1>8. InOneHand'
  <2>1. \A j \in Jobs : OwnFacts(j)'
    BY <1>2, <1>3 DEF FilesInv, InOneHand, OwnFacts
  <2>2. \A i, j \in Jobs : i # j => FactsApart(i, j)'
    BY <1>2 DEF FilesInv, InOneHand, FactsApart
  <2> QED BY <2>1, <2>2 DEF InOneHand
<1> QED BY <1>4, <1>5, <1>6, <1>7, <1>8 DEF FilesInv

(* A job begins with nothing read.                                          *)
LEMMA JobBegins ==
  ASSUME FilesInv, KnowledgeTypes', UNCHANGED <<fresh, outcomes, source>>, NEW j \in Jobs,
         \A i \in Jobs : i # j => job'[i] = job[i],
         job'[j].at = "reads", Batches(j)' \/ Retries(j)',
         \A o \in job'[j].done : o.facts = {},
         \A o, p \in job'[j].done : o.of = p.of => o = p
  PROVE  FilesInv'
<1>1. KnowledgeTypes /\ JobsAre
  BY DEF FilesInv
<1>2. OneRoot'
  <2>1. \A id, r : Claims(id, r)' => Claims(id, r)
    BY DEF Claims
  <2> QED BY <2>1 DEF FilesInv, OneRoot, Used
<1>3. RowsAreOf' /\ OneRowPerFile'
  BY DEF FilesInv, RowsAreOf, OneRowPerFile, Used
<1>4. JobsAre'
  <2> SUFFICES ASSUME NEW i \in Jobs, i # j, job'[i] # Resting PROVE Batches(i)' \/ Retries(i)'
    BY DEF JobsAre
  <2>1. job'[i] = job[i] /\ (Batches(i) \/ Retries(i))
    BY <1>1 DEF JobsAre
  <2> QED BY <2>1 DEF Batches, Retries, Whole, Merge, Used
<1>5. InOneHand'
  <2>1. \A i \in Jobs : OwnFacts(i)'
    <3>1. \A i \in Jobs : i # j => OwnFacts(i)'
      BY DEF FilesInv, InOneHand, OwnFacts, Used
    <3>2. OwnFacts(j)'
      BY DEF OwnFacts
    <3> QED BY <3>1, <3>2
  <2>2. ASSUME NEW i \in Jobs, NEW h \in Jobs, i # h PROVE FactsApart(i, h)'
    <3>1. CASE i = j
      BY <3>1 DEF FactsApart
    <3>2. CASE h = j
      BY <3>2 DEF FactsApart
    <3>3. CASE i # j /\ h # j
      BY <2>2, <3>3 DEF FilesInv, InOneHand, FactsApart
    <3> QED BY <3>1, <3>2, <3>3
  <2> QED BY <2>1, <2>2 DEF InOneHand
<1> QED BY <1>2, <1>3, <1>4, <1>5 DEF FilesInv

(* What a reading of one more file makes of a job.                          *)
Further(j, f, facts, problem) ==
  [job[j] EXCEPT !.todo = job[j].todo \ {f},
                 !.done = job[j].done \cup {Outcome(f, files[f], facts, problem)}]

HasRead(new, j, f, o) ==
  /\ o \in Result /\ o.of = f /\ f \in Files
  /\ new.at = "reads" /\ new.how = job[j].how /\ new.todo = job[j].todo \ {f}
  /\ new.done = job[j].done \cup {o}
  /\ job[j] \in Batch => new \in Batch /\ new.root = job[j].root
  /\ job[j] \in Again => new \in Again /\ new.row = job[j].row

LEMMA FurtherIs ==
  ASSUME KnowledgeTypes, JobsAre, NEW j \in Jobs, job[j].at = "reads", NEW f \in job[j].todo,
         NEW facts \in SUBSET Nat, NEW problem \in BOOLEAN,
         NEW o, o = Outcome(f, files[f], facts, problem), NEW new, new = Further(j, f, facts, problem)
  PROVE  HasRead(new, j, f, o) /\ o.facts = facts /\ o.problem = problem
<1>1. (Batches(j) \/ Retries(j)) /\ job[j] # Resting
  BY JobsFacts DEF Resting
<1>2. f \in Files
  <2>1. CASE Batches(j)
    BY <2>1 DEF Batches, In
  <2>2. CASE Retries(j)
    BY <2>2 DEF Retries, Again
  <2> QED BY <1>1, <2>1, <2>2
<1>3. o \in Result /\ o.of = f /\ o.facts = facts /\ o.problem = problem
  BY <1>2 DEF Outcome, Result, KnowledgeTypes
<1>4. CASE job[j] \in Batch
  <2>1. job[j].todo \ {f} \in SUBSET (Files \cup Nat) /\ job[j].done \cup {o} \in SUBSET Result
    BY <1>3, <1>4 DEF Batch
  <2>2. job[j].at # "records"
    OBVIOUS
  <2>3. job[j] \notin Again
    BY <1>4 DEF Batch, Again
  <2> QED BY <1>2, <1>3, <1>4, <2>1, <2>3 DEF Further, Batch, HasRead
<1>5. CASE job[j] \in Again
  <2>1. job[j].todo \ {f} \in SUBSET Files /\ job[j].done \cup {o} \in SUBSET Result
    BY <1>3, <1>5 DEF Again
  <2>2. job[j] \notin Batch
    BY <1>5 DEF Batch, Again
  <2> QED BY <1>2, <1>3, <1>5, <2>1, <2>2 DEF Further, Again, HasRead
<1> QED BY <1>1, <1>3, <1>4, <1>5 DEF Batches, Retries

LEMMA ReadKeeps ==
  ASSUME FilesInv, NEW j \in Jobs, job[j].at = "reads", NEW f \in job[j].todo,
         NEW facts \in SUBSET Nat, NEW problem \in BOOLEAN,
         job' = [job EXCEPT ![j] = Further(j, f, facts, problem)],
         fresh' \in Nat, fresh' >= fresh, facts = {} \/ (facts = {fresh} /\ fresh' = fresh + 1),
         UNCHANGED <<files, source, outcomes>>
  PROVE  FilesInv'
<1> DEFINE o == Outcome(f, files[f], facts, problem)
<1>1. KnowledgeTypes /\ JobsAre /\ fresh \in Nat /\ OneRoot /\ RowsAreOf /\ InOneHand
  BY DEF FilesInv, KnowledgeTypes
<1>2. KnowledgeTypes'
  BY <1>1 DEF KnowledgeTypes
<1>3. /\ o \in Result /\ o.of = f /\ o.facts = facts /\ f \in Files
      /\ job'[j].at = "reads" /\ job'[j].how = job[j].how /\ job'[j].todo = job[j].todo \ {f}
      /\ job'[j].done = job[j].done \cup {o}
      /\ job[j] \in Batch => job'[j] \in Batch /\ job'[j].root = job[j].root
      /\ job[j] \in Again => job'[j] \in Again /\ job'[j].row = job[j].row
  <2> DEFINE new == Further(j, f, facts, problem)
  <2>1. job'[j] = new
    BY <1>1 DEF KnowledgeTypes
  <2>2. /\ new = Further(j, f, facts, problem) /\ o = Outcome(f, files[f], facts, problem)
        /\ job[j].at = "reads"
    OBVIOUS
  <2> HIDE DEF new, o
  <2>3. HasRead(new, j, f, o) /\ o.facts = facts
    BY <1>1, <2>2, FurtherIs
  <2> QED BY <2>1, <2>3 DEF HasRead
<1>4. \A i \in Jobs : i # j => job'[i] = job[i]
  BY <1>1 DEF KnowledgeTypes
<1>5. \A n : Used(n) => Used(n)' /\ n # fresh
  BY <1>1 DEF Used
<1>6. \A n \in facts : n = fresh /\ Used(n)'
  <2>1. CASE facts = {}
    BY <2>1
  <2>2. CASE facts = {fresh} /\ fresh' = fresh + 1
    <3>1. fresh < fresh'
      BY <1>1, <2>2
    <3> QED BY <1>1, <2>2, <3>1 DEF Used
  <2> QED BY <2>1, <2>2
<1> HIDE DEF o
<1>7. OneRoot'
  <2>1. \A id, r : Claims(id, r)' => Claims(id, r)
    BY <1>3, <1>4 DEF Claims
  <2> QED BY <1>1, <1>5, <2>1 DEF OneRoot
<1>8. RowsAreOf' /\ OneRowPerFile'
  BY <1>5 DEF FilesInv, RowsAreOf, OneRowPerFile
<1>9. Batches(j) \/ Retries(j)
  BY <1>1, JobsFacts
<1>10. JobsAre'
  <2>1. ASSUME NEW i \in Jobs, i # j, job'[i] # Resting PROVE Batches(i)' \/ Retries(i)'
    <3>1. job'[i] = job[i] /\ (Batches(i) \/ Retries(i))
      BY <1>1, <1>4, <2>1 DEF JobsAre
    <3>2. CASE Batches(i)
      BY <3>1, <3>2 DEF Batches, Whole, Merge
    <3>3. CASE Retries(i)
      BY <1>5, <3>1, <3>3 DEF Retries
    <3> QED BY <3>1, <3>2, <3>3
  <2>2. CASE Batches(j)
    <3>1. j # "retry" /\ job'[j] \in Batch /\ (Whole(j) \/ Merge(j))' /\ job'[j].root = job[j].root
      BY <1>3, <2>2 DEF Batches, Whole, Merge
    <3>2. /\ job[j].todo \subseteq In(job[j].root) /\ \A p \in job[j].done : p.of \notin job[j].todo
      BY <2>2 DEF Batches
    <3>3. \A p \in job'[j].done : p.of \in In(job'[j].root)
      BY <1>3, <2>2, <3>1, <3>2 DEF Batches
    <3>4. /\ job'[j].todo \subseteq In(job'[j].root)
          /\ \A p \in job'[j].done : p.of \notin job'[j].todo
      BY <1>3, <3>1, <3>2
    <3>5. Batches(j)'
      BY <1>3, <3>1, <3>3, <3>4 DEF Batches
    <3> QED BY <2>1, <3>5 DEF JobsAre
  <2>3. CASE Retries(j)
    <3>1. job[j].todo = {job[j].row.of} /\ job[j].done = {} /\ f = job[j].row.of
      BY <2>3 DEF Retries
    <3>2. Retries(j)'
      BY <1>3, <1>5, <2>3, <3>1 DEF Retries
    <3> QED BY <2>1, <3>2 DEF JobsAre
  <2> QED BY <1>9, <2>2, <2>3
<1>11. \A p \in job[j].done : p.of # f
  BY <1>9 DEF Batches, Retries
<1>12. InOneHand'
  <2>1. \A i \in Jobs : \A p \in job[i].done : \A n \in p.facts : Used(n) /\ n \notin facts
    BY <1>1, <1>5, <1>6 DEF InOneHand, OwnFacts
  <2>2. \A x \in outcomes : \A n \in x.facts : n \notin facts
    BY <1>1, <1>5, <1>6 DEF RowsAreOf
  <2>3. \A i \in Jobs : OwnFacts(i)'
    <3>1. \A i \in Jobs : i # j => OwnFacts(i)'
      BY <1>1, <1>4, <1>5 DEF InOneHand, OwnFacts
    <3>2. OwnFacts(j)'
      <4>1. OwnFacts(j)
        BY <1>1 DEF InOneHand
      <4>2. \A p \in job'[j].done : \A n \in p.facts : Used(n)' /\ \A x \in outcomes' : n \notin x.facts
        BY <1>3, <1>5, <1>6, <2>2, <4>1 DEF OwnFacts
      <4>3. \A p \in job[j].done : p.of # o.of /\ o.facts \cap p.facts = {} /\ p.facts \cap o.facts = {}
        BY <1>3, <1>11, <2>1
      <4>4. \A p, q \in job'[j].done : p.of = q.of \/ p.facts \cap q.facts # {} => p = q
        BY <1>3, <4>1, <4>3 DEF OwnFacts
      <4> QED BY <4>2, <4>4 DEF OwnFacts
    <3> QED BY <3>1, <3>2
  <2>4. ASSUME NEW i \in Jobs, NEW h \in Jobs, i # h PROVE FactsApart(i, h)'
    <3>0. FactsApart(i, h)
      BY <1>1, <2>4 DEF InOneHand
    <3>1. CASE i = j
      BY <1>3, <1>4, <2>1, <2>4, <3>0, <3>1 DEF FactsApart
    <3>2. CASE h = j
      BY <1>3, <1>4, <2>1, <2>4, <3>0, <3>2 DEF FactsApart
    <3>3. CASE i # j /\ h # j
      BY <1>4, <3>0, <3>3 DEF FactsApart
    <3> QED BY <3>1, <3>2, <3>3
  <2> QED BY <2>3, <2>4 DEF InOneHand
<1> QED BY <1>2, <1>7, <1>8, <1>10, <1>12 DEF FilesInv

LEMMA UpsertKeeps ==
  ASSUME FilesInv, NEW j \in Jobs, Upsert(j)
  PROVE  FilesInv'
<1>0. PICK r, id : r = job[j].root /\ id = IF source[r] = None THEN fresh ELSE source[r].id
  OBVIOUS
<1> DEFINE row == [id |-> id, scan |-> fresh, told |-> FALSE]
           new == [job[j] EXCEPT !.at = "records", !.todo = {id}]
<1>1. KnowledgeTypes /\ JobsAre /\ fresh \in Nat /\ OneRoot /\ RowsAreOf /\ InOneHand
  BY DEF FilesInv, KnowledgeTypes
<1>2. Batches(j) /\ job[j] \in Batch /\ r \in Roots
  BY <1>0, <1>1, JobsFacts DEF Upsert, Retries, Batches, Batch, Again
<1>3. /\ id \in Nat /\ id <= fresh /\ (id = fresh \/ Claims(id, r))
      /\ row \in [id : Nat, scan : Nat, told : BOOLEAN] /\ row.id = id
  <2>1. CASE source[r] = None
    BY <1>0, <1>1, <2>1
  <2>2. CASE source[r] # None
    <3>1. Claims(source[r].id, r)
      BY <1>2, <2>2 DEF Claims
    <3>2. Used(source[r].id)
      BY <1>1, <3>1 DEF OneRoot
    <3> QED BY <1>0, <1>1, <2>2, <3>1, <3>2 DEF Used
  <2> QED BY <2>1, <2>2
<1>4. /\ source' = [source EXCEPT ![r] = row] /\ job' = [job EXCEPT ![j] = new]
      /\ fresh' = fresh + 1 /\ UNCHANGED <<files, outcomes>>
  BY <1>0 DEF Upsert
<1>5. /\ new \in Batch /\ new.at = "records" /\ new.todo = {id} /\ new.root = r
      /\ new.how = job[j].how /\ new.done = job[j].done
  <2>1. {id} \in SUBSET (Files \cup Nat)
    BY <1>3
  <2> QED BY <1>0, <1>2, <2>1 DEF Batch
<1> HIDE DEF row, new
<1>6. /\ job'[j] = new /\ \A i \in Jobs : i # j => job'[i] = job[i]
      /\ source'[r] = row /\ \A q \in Roots : q # r => source'[q] = source[q]
  BY <1>1, <1>2, <1>4 DEF KnowledgeTypes
<1>7. KnowledgeTypes'
  BY <1>1, <1>2, <1>3, <1>4, <1>6 DEF KnowledgeTypes
<1>8. \A n : Used(n) => Used(n)' /\ n # fresh
  BY <1>1, <1>4 DEF Used
<1>9. OneRoot'
  <2>1. \A i, q : Claims(i, q)' => Claims(i, q) \/ (i = id /\ q = r)
    BY <1>3, <1>4, <1>5, <1>6 DEF Claims
  <2>2. Used(id)' /\ \A q : Claims(id, q) => q = r
    <3>1. Used(id)'
      BY <1>1, <1>3, <1>4 DEF Used
    <3> QED BY <1>1, <1>3, <1>8, <3>1 DEF OneRoot
  <2> QED BY <1>1, <1>8, <2>1, <2>2 DEF OneRoot
<1>10. RowsAreOf' /\ OneRowPerFile'
  BY <1>4, <1>8 DEF FilesInv, RowsAreOf, OneRowPerFile
<1>11. JobsAre'
  <2>1. ASSUME NEW i \in Jobs, i # j, job'[i] # Resting PROVE Batches(i)' \/ Retries(i)'
    <3>1. job'[i] = job[i] /\ (Batches(i) \/ Retries(i))
      BY <1>1, <1>6, <2>1 DEF JobsAre
    <3>2. CASE Batches(i)
      BY <3>1, <3>2 DEF Batches, Whole, Merge
    <3>3. CASE Retries(i)
      BY <1>4, <1>8, <3>1, <3>3 DEF Retries
    <3> QED BY <3>1, <3>2, <3>3
  <2>2. Batches(j)'
    BY <1>0, <1>2, <1>3, <1>5, <1>6 DEF Batches, Whole, Merge
  <2> QED BY <2>1, <2>2 DEF JobsAre
<1>12. InOneHand'
  <2>1. \A i \in Jobs : job'[i].done = job[i].done
    BY <1>5, <1>6
  <2> QED BY <1>1, <1>4, <1>8, <2>1 DEF InOneHand, OwnFacts, FactsApart
<1> QED BY <1>7, <1>9, <1>10, <1>11, <1>12 DEF FilesInv

(* The rows a job writes are of what it read.                               *)
LEMMA RowIs ==
  ASSUME NEW id \in Nat, NEW s \in Nat, NEW o \in Result
  PROVE  /\ OutcomeRow(id, s, o) \in FileRow
         /\ OutcomeRow(id, s, o).id = id /\ OutcomeRow(id, s, o).source = s
         /\ OutcomeRow(id, s, o).of = o.of /\ OutcomeRow(id, s, o).facts = o.facts
         /\ OutcomeRow(id, s, o).problem = o.problem /\ OutcomeRow(id, s, o).version = o.version
BY DEF OutcomeRow, FileRow, Result

RowOf(x, id, s, o) ==
  /\ x \in FileRow /\ x.id = id /\ x.source = s /\ x.of = o.of /\ x.facts = o.facts
  /\ x.problem = o.problem /\ x.version = o.version

(* What a job's rows replace, and the rows.                                 *)
LEMMA RecordIs ==
  ASSUME KnowledgeTypes, JobsAre, OneRoot, NEW j \in Jobs, Record(j)
  PROVE  \E s \in Nat :
           /\ Batches(j) /\ job[j].at = "records" /\ job[j].todo = {s} /\ Claims(s, job[j].root)
           /\ \A x \in outcomes' :
                \/ /\ x \in outcomes
                   /\ x.source = s => job[j].how = "merge" /\ \A o \in job[j].done : x.of # o.of
                \/ \E o \in job[j].done : RowOf(x, fresh, s, o)
           /\ \A x \in outcomes : x.source # s => x \in outcomes'
           /\ \A x \in outcomes :
                job[j].how = "merge" /\ (\A o \in job[j].done : x.of # o.of) => x \in outcomes'
           /\ \A o \in job[j].done : \E x \in outcomes' : RowOf(x, fresh, s, o)
<1>1. Batches(j) /\ job[j].at = "records" /\ fresh \in Nat
  BY JobsFacts DEF Record, KnowledgeTypes
<1>2. PICK s \in Nat : job[j].todo = {s}
  BY <1>1 DEF Batches
<1>3. Claims(s, job[j].root)
  BY <1>1, <1>2 DEF Claims
<1>4. \A o \in job[j].done : RowOf(OutcomeRow(fresh, s, o), fresh, s, o)
  <2> SUFFICES ASSUME NEW o \in job[j].done PROVE RowOf(OutcomeRow(fresh, s, o), fresh, s, o)
    OBVIOUS
  <2>1. o \in Result
    BY JobsFacts
  <2> QED BY <1>1, <2>1, RowIs DEF RowOf
<1>5. outcomes' = Kept(job[j].how, s, job[j].done) \cup {OutcomeRow(fresh, s, o) : o \in job[j].done}
  BY <1>2 DEF Record
<1>6. \A x \in outcomes' :
        \/ /\ x \in outcomes
           /\ x.source = s => job[j].how = "merge" /\ \A o \in job[j].done : x.of # o.of
        \/ \E o \in job[j].done : RowOf(x, fresh, s, o)
  BY <1>4, <1>5 DEF Kept
<1>7. /\ \A x \in outcomes : x.source # s => x \in outcomes'
      /\ \A x \in outcomes :
           job[j].how = "merge" /\ (\A o \in job[j].done : x.of # o.of) => x \in outcomes'
  BY <1>5 DEF Kept
<1>8. \A o \in job[j].done : \E x \in outcomes' : RowOf(x, fresh, s, o)
  BY <1>4, <1>5
<1> QED BY <1>1, <1>2, <1>3, <1>6, <1>7, <1>8

LEMMA RecordKeeps ==
  ASSUME FilesInv, NEW j \in Jobs, Record(j)
  PROVE  FilesInv'
<1>1. KnowledgeTypes /\ JobsAre /\ fresh \in Nat /\ OneRoot /\ RowsAreOf /\ InOneHand /\ OneRowPerFile
  BY DEF FilesInv, KnowledgeTypes
<1>2. PICK s \in Nat :
        /\ Batches(j) /\ job[j].at = "records" /\ job[j].todo = {s} /\ Claims(s, job[j].root)
        /\ \A x \in outcomes' :
             \/ /\ x \in outcomes
                /\ x.source = s => job[j].how = "merge" /\ \A o \in job[j].done : x.of # o.of
             \/ \E o \in job[j].done : RowOf(x, fresh, s, o)
  BY <1>1, RecordIs
<1>3. /\ fresh' = fresh + 1 /\ job'[j] = Resting /\ \A i \in Jobs : i # j => job'[i] = job[i]
      /\ DOMAIN job' = Jobs /\ UNCHANGED <<files, source>>
  BY <1>1 DEF Record, KnowledgeTypes
<1>4. \A n : Used(n) => Used(n)' /\ n # fresh
  BY <1>1, <1>3 DEF Used
<1>14. PICK now : now = fresh
  OBVIOUS
<1>5. Used(now)'
  BY <1>1, <1>3, <1>14 DEF Used
<1>6. KnowledgeTypes'
  <2>1. outcomes' \subseteq FileRow
    BY <1>1, <1>2 DEF KnowledgeTypes, RowOf
  <2> QED BY <1>1, <1>3, <2>1 DEF KnowledgeTypes
<1>7. \A o \in job[j].done : o.of.in = job[j].root
  BY <1>2 DEF Batches, In
<1>8. OneRoot'
  <2>1. \A i, q : Claims(i, q)' => Claims(i, q)
    <3> SUFFICES ASSUME NEW i, NEW q, Claims(i, q)' PROVE Claims(i, q)
      OBVIOUS
    <3>1. CASE q \in Roots /\ source[q] # None /\ source[q].id = i
      BY <3>1 DEF Claims
    <3>2. ASSUME NEW x \in outcomes', x.source = i, x.of.in = q PROVE Claims(i, q)
      <4>1. CASE x \in outcomes
        BY <3>2, <4>1 DEF Claims
      <4>2. ASSUME NEW o \in job[j].done, RowOf(x, fresh, s, o) PROVE Claims(i, q)
        BY <1>2, <1>7, <3>2, <4>2 DEF RowOf
      <4> QED BY <1>2, <4>1, <4>2
    <3>3. ASSUME NEW h \in Jobs, job'[h].at = "records", i \in job'[h].todo, job'[h].root = q
          PROVE  Claims(i, q)
      <4>1. h # j
        BY <1>3, <3>3 DEF Resting
      <4> QED BY <1>3, <3>3, <4>1 DEF Claims
    <3> QED BY <1>3, <3>1, <3>2, <3>3 DEF Claims
  <2> QED BY <1>1, <1>4, <2>1 DEF OneRoot
<1>9. \A o \in job[j].done : \A n \in o.facts : Used(n) /\ \A x \in outcomes : n \notin x.facts
  BY <1>1 DEF InOneHand, OwnFacts
<1>10. RowsAreOf'
  <2> SUFFICES ASSUME NEW x \in outcomes'
               PROVE  /\ Used(x.id)' /\ \A n \in x.facts : Used(n)'
                      /\ \A y \in outcomes' : x.id = y.id => x.source = y.source
    BY DEF RowsAreOf
  <2>1. \A y \in outcomes : Used(y.id) /\ \A n \in y.facts : Used(n)
    BY <1>1 DEF RowsAreOf
  <2>2. CASE x \in outcomes
    <3>1. \A y \in outcomes' : x.id = y.id => x.source = y.source
      BY <1>1, <1>2, <1>4, <2>1, <2>2 DEF RowsAreOf, RowOf
    <3> QED BY <1>4, <2>1, <2>2, <3>1
  <2>3. ASSUME NEW o \in job[j].done, RowOf(x, fresh, s, o)
        PROVE  /\ Used(x.id)' /\ \A n \in x.facts : Used(n)'
               /\ \A y \in outcomes' : x.id = y.id => x.source = y.source
    <3>1. \A y \in outcomes' : x.id = y.id => x.source = y.source
      BY <1>2, <1>4, <2>1, <2>3 DEF RowOf
    <3>2. x.id = now
      BY <1>14, <2>3 DEF RowOf
    <3>3. \A n \in x.facts : Used(n)'
      BY <1>4, <1>9, <2>3 DEF RowOf
    <3> QED BY <1>5, <3>1, <3>2, <3>3
  <2> QED BY <1>2, <2>2, <2>3
<1>11. OneRowPerFile'
  <2>1. ASSUME NEW x \in outcomes', NEW y \in outcomes, NEW o \in job[j].done, RowOf(x, fresh, s, o),
               y.source = s => job[j].how = "merge" /\ \A p \in job[j].done : y.of # p.of
        PROVE  /\ ~(x.source = y.source /\ x.of = y.of) /\ x.facts \cap y.facts = {}
               /\ y.facts \cap x.facts = {}
    BY <1>9, <2>1 DEF RowOf
  <2>2. ASSUME NEW x \in outcomes', NEW y \in outcomes', NEW o \in job[j].done, NEW p \in job[j].done,
               RowOf(x, fresh, s, o), RowOf(y, fresh, s, p), x.of = y.of \/ x.facts \cap y.facts # {}
        PROVE  x = y
    <3>1. o = p
      BY <1>1, <2>2 DEF InOneHand, OwnFacts, RowOf
    <3> QED BY <2>2, <3>1 DEF RowOf, FileRow
  <2> QED BY <1>1, <1>2, <2>1, <2>2 DEF OneRowPerFile
<1>12. JobsAre'
  <2> SUFFICES ASSUME NEW i \in Jobs, i # j, job'[i] # Resting PROVE Batches(i)' \/ Retries(i)'
    BY <1>3 DEF JobsAre
  <2>1. job'[i] = job[i] /\ (Batches(i) \/ Retries(i))
    BY <1>1, <1>3 DEF JobsAre
  <2>2. CASE Batches(i)
    BY <2>1, <2>2 DEF Batches, Whole, Merge
  <2>3. CASE Retries(i)
    <3>1. \A y \in outcomes' : y.id = job[i].row.id => y.source = job[i].row.source
      BY <1>2, <1>4, <2>3 DEF Retries, RowOf
    <3> QED BY <1>4, <2>1, <2>3, <3>1 DEF Retries
  <2> QED BY <2>1, <2>2, <2>3
<1>13. InOneHand'
  <2>1. job'[j].done = {}
    BY <1>3 DEF Resting
  <2>2. ASSUME NEW i \in Jobs, i # j PROVE OwnFacts(i)'
    <3>1. OwnFacts(i) /\ FactsApart(i, j) /\ job'[i] = job[i]
      BY <1>1, <1>3, <2>2 DEF InOneHand
    <3>2. \A p \in job[i].done : \A n \in p.facts : \A x \in outcomes' : n \notin x.facts
      BY <1>2, <3>1 DEF OwnFacts, FactsApart, RowOf
    <3> QED BY <1>4, <3>1, <3>2 DEF OwnFacts
  <2>3. OwnFacts(j)'
    BY <2>1 DEF OwnFacts
  <2>4. \A i, h \in Jobs : i # h => FactsApart(i, h)'
    BY <1>1, <1>3, <2>1 DEF InOneHand, FactsApart
  <2> QED BY <2>2, <2>3, <2>4 DEF InOneHand
<1> QED BY <1>6, <1>8, <1>10, <1>11, <1>12, <1>13 DEF FilesInv

(* A retry that is done rewrites its row, if it is still there.             *)
LEMMA ReplacedIs ==
  ASSUME KnowledgeTypes, JobsAre, Replaced
  PROVE  \E o \in Result :
           /\ "retry" \in Jobs /\ Retries("retry") /\ job["retry"].done = {o}
           /\ o.of = job["retry"].row.of
           /\ \A x \in outcomes' :
                \/ x \in outcomes /\ ~(x.id = job["retry"].row.id /\ x.of = o.of)
                \/ /\ \E y \in outcomes : y.id = job["retry"].row.id /\ y.of = o.of
                   /\ RowOf(x, job["retry"].row.id, job["retry"].row.source, o)
           /\ \A y \in outcomes :
                \/ y \in outcomes' /\ ~(y.id = job["retry"].row.id /\ y.of = o.of)
                \/ /\ y.id = job["retry"].row.id /\ y.of = o.of
                   /\ \E x \in outcomes' : RowOf(x, job["retry"].row.id, job["retry"].row.source, o)
<1> DEFINE row == job["retry"].row
<1>1. "retry" \in Jobs /\ Retries("retry")
  <2>1. "retry" \in Jobs
    BY DEF Jobs
  <2>2. Batches("retry") \/ Retries("retry")
    BY <2>1, JobsFacts DEF Replaced
  <2> QED BY <2>1, <2>2 DEF Batches
<1>2. PICK o \in Result : job["retry"].done = {o} /\ o.of = row.of
  BY <1>1 DEF Retries, Replaced
<1>3. RowOf(OutcomeRow(row.id, row.source, o), row.id, row.source, o)
  <2>1. row.id \in Nat /\ row.source \in Nat
    BY <1>1 DEF Retries, Again, FileRow
  <2> HIDE DEF row
  <2> QED BY <2>1, RowIs DEF RowOf
<1>4. outcomes' = {IF y.id = row.id /\ y.of = row.of THEN OutcomeRow(row.id, row.source, o) ELSE y :
                     y \in outcomes}
  BY <1>2 DEF Replaced
<1> HIDE DEF row
<1>5. \A x \in outcomes' :
        \/ x \in outcomes /\ ~(x.id = row.id /\ x.of = o.of)
        \/ (\E y \in outcomes : y.id = row.id /\ y.of = o.of) /\ RowOf(x, row.id, row.source, o)
  BY <1>2, <1>3, <1>4
<1>6. \A y \in outcomes :
        \/ y \in outcomes' /\ ~(y.id = row.id /\ y.of = o.of)
        \/ y.id = row.id /\ y.of = o.of /\ \E x \in outcomes' : RowOf(x, row.id, row.source, o)
  <2> SUFFICES ASSUME NEW y \in outcomes
               PROVE  \/ y \in outcomes' /\ ~(y.id = row.id /\ y.of = o.of)
                      \/ /\ y.id = row.id /\ y.of = o.of
                         /\ \E x \in outcomes' : RowOf(x, row.id, row.source, o)
    OBVIOUS
  <2>1. CASE y.id = row.id /\ y.of = row.of
    <3>1. OutcomeRow(row.id, row.source, o) \in outcomes'
      BY <1>4, <2>1
    <3> QED BY <1>2, <1>3, <2>1, <3>1
  <2>2. CASE ~(y.id = row.id /\ y.of = row.of)
    <3>1. y \in outcomes'
      BY <1>4, <2>2
    <3> QED BY <1>2, <2>2, <3>1
  <2> QED BY <2>1, <2>2
<1> QED BY <1>1, <1>2, <1>5, <1>6 DEF row

LEMMA ReplacedKeeps ==
  ASSUME FilesInv, Replaced
  PROVE  FilesInv'
<1>1. KnowledgeTypes /\ JobsAre /\ fresh \in Nat /\ OneRoot /\ RowsAreOf /\ InOneHand /\ OneRowPerFile
  BY DEF FilesInv, KnowledgeTypes
<1>2. PICK row : row = job["retry"].row
  OBVIOUS
<1>3. PICK o \in Result :
        /\ "retry" \in Jobs /\ Retries("retry") /\ job["retry"].done = {o} /\ o.of = row.of
        /\ \A x \in outcomes' :
             \/ x \in outcomes /\ ~(x.id = row.id /\ x.of = o.of)
             \/ /\ \E y \in outcomes : y.id = row.id /\ y.of = o.of
                /\ RowOf(x, row.id, row.source, o)
  BY <1>1, <1>2, ReplacedIs
<1>4. /\ job'["retry"] = Resting /\ \A i \in Jobs : i # "retry" => job'[i] = job[i]
      /\ DOMAIN job' = Jobs /\ UNCHANGED <<files, source, fresh>>
  BY <1>1, <1>3 DEF Replaced, KnowledgeTypes
<1>5. \A y \in outcomes : y.id = row.id => y.source = row.source
  BY <1>2, <1>3 DEF Retries
<1>6. \A n \in o.facts : Used(n) /\ \A x \in outcomes : n \notin x.facts
  BY <1>1, <1>3 DEF InOneHand, OwnFacts
<1>7. KnowledgeTypes'
  <2>1. outcomes' \subseteq FileRow
    BY <1>1, <1>3 DEF KnowledgeTypes, RowOf
  <2> QED BY <1>1, <1>4, <2>1 DEF KnowledgeTypes
<1>8. OneRoot'
  <2>1. \A i, q : Claims(i, q)' => Claims(i, q)
    <3> SUFFICES ASSUME NEW i, NEW q, Claims(i, q)' PROVE Claims(i, q)
      OBVIOUS
    <3>1. CASE q \in Roots /\ source[q] # None /\ source[q].id = i
      BY <3>1 DEF Claims
    <3>2. ASSUME NEW x \in outcomes', x.source = i, x.of.in = q PROVE Claims(i, q)
      <4>1. \E y \in outcomes : y.source = x.source /\ y.of = x.of
        BY <1>3, <1>5 DEF RowOf
      <4> QED BY <3>2, <4>1 DEF Claims
    <3>3. ASSUME NEW h \in Jobs, job'[h].at = "records", i \in job'[h].todo, job'[h].root = q
          PROVE  Claims(i, q)
      <4>1. h # "retry"
        BY <1>4, <3>3 DEF Resting
      <4> QED BY <1>4, <3>3, <4>1 DEF Claims
    <3> QED BY <1>4, <3>1, <3>2, <3>3 DEF Claims
  <2> QED BY <1>1, <1>4, <2>1 DEF OneRoot, Used
<1>9. RowsAreOf'
  <2> SUFFICES ASSUME NEW x \in outcomes'
               PROVE  /\ Used(x.id) /\ \A n \in x.facts : Used(n)
                      /\ \A y \in outcomes' : x.id = y.id => x.source = y.source
    BY <1>4 DEF RowsAreOf, Used
  <2>1. \A y \in outcomes' : \E z \in outcomes : y.id = z.id /\ y.source = z.source
    BY <1>3, <1>5 DEF RowOf
  <2>2. Used(x.id) /\ \A y \in outcomes' : x.id = y.id => x.source = y.source
    BY <1>1, <2>1 DEF RowsAreOf
  <2>3. \A n \in x.facts : Used(n)
    BY <1>1, <1>3, <1>6 DEF RowsAreOf, RowOf
  <2> QED BY <2>2, <2>3
<1>10. OneRowPerFile'
  <2>1. ASSUME NEW x \in outcomes', NEW y \in outcomes, RowOf(x, row.id, row.source, o),
               ~(y.id = row.id /\ y.of = o.of), NEW z \in outcomes, z.id = row.id, z.of = o.of
        PROVE  /\ ~(x.source = y.source /\ x.of = y.of) /\ x.facts \cap y.facts = {}
               /\ y.facts \cap x.facts = {}
    <3>1. z.source = x.source /\ z.of = x.of /\ z # y
      BY <1>5, <2>1 DEF RowOf
    <3>2. ~(x.source = y.source /\ x.of = y.of)
      BY <1>1, <3>1 DEF OneRowPerFile
    <3> QED BY <1>6, <2>1, <3>2 DEF RowOf
  <2>2. ASSUME NEW x \in outcomes', NEW y \in outcomes',
               RowOf(x, row.id, row.source, o), RowOf(y, row.id, row.source, o)
        PROVE  x = y
    BY <2>2 DEF RowOf, FileRow
  <2> QED BY <1>1, <1>3, <2>1, <2>2 DEF OneRowPerFile
<1>11. JobsAre'
  <2> SUFFICES ASSUME NEW i \in Jobs, i # "retry", job'[i] # Resting PROVE Batches(i)' \/ Retries(i)'
    BY <1>4 DEF JobsAre
  <2>1. job'[i] = job[i] /\ Batches(i)
    BY <1>1, <1>4 DEF JobsAre, Retries
  <2> QED BY <2>1 DEF Batches, Whole, Merge
<1>12. InOneHand'
  <2>1. job'["retry"].done = {}
    BY <1>4 DEF Resting
  <2>2. ASSUME NEW i \in Jobs, i # "retry" PROVE OwnFacts(i)'
    <3>1. OwnFacts(i) /\ FactsApart(i, "retry") /\ job'[i] = job[i]
      BY <1>1, <1>3, <1>4, <2>2 DEF InOneHand
    <3>2. \A p \in job[i].done : \A n \in p.facts : \A x \in outcomes' : n \notin x.facts
      BY <1>3, <3>1 DEF OwnFacts, FactsApart, RowOf
    <3> QED BY <1>4, <3>1, <3>2 DEF OwnFacts, Used
  <2>3. OwnFacts("retry")'
    BY <2>1 DEF OwnFacts
  <2>4. \A i, h \in Jobs : i # h => FactsApart(i, h)'
    BY <1>1, <1>4, <2>1 DEF InOneHand, FactsApart
  <2> QED BY <2>2, <2>3, <2>4 DEF InOneHand
<1> QED BY <1>7, <1>8, <1>9, <1>10, <1>11, <1>12 DEF FilesInv

-----------------------------------------------------------------------------
(* Jobs that begin. *)

BatchOf(new, r, todo, done) ==
  /\ new \in Batch /\ new.at = "reads" /\ new.root = r /\ new.todo = todo /\ new.done = done
  /\ (new.how = "whole" /\ r \in Folders) \/ (new.how = "merge" /\ r = Uploads)

Marking(r, done) == [Reading("whole", r, "global", {}) EXCEPT !.done = done]

LEMMA ReadingIs ==
  ASSUME NEW r \in Roots, NEW scope \in Scopes \cup {"global"}, NEW how,
         (how = "whole" /\ r \in Folders) \/ (how = "merge" /\ r = Uploads), NEW todo \in SUBSET In(r)
  PROVE  BatchOf(Reading(how, r, scope, todo), r, todo, {})
<1>1. todo \in SUBSET (Files \cup Nat)
  BY DEF In
<1> QED BY <1>1 DEF BatchOf, Reading, Batch

LEMMA MarkingIs ==
  ASSUME NEW r \in Folders, NEW done \in SUBSET Result
  PROVE  BatchOf(Marking(r, done), r, {}, done)
BY DEF BatchOf, Marking, Reading, Batch, Roots

LEMMA BatchBegins ==
  ASSUME NEW j \in Jobs, j # "retry", NEW r, NEW todo, NEW done, BatchOf(job'[j], r, todo, done),
         todo \subseteq In(r), \A o \in done : o.of \in In(r) /\ o.of \notin todo
  PROVE  Batches(j)'
BY DEF BatchOf, Batches, Whole, Merge

LEMMA ReadsNothingYet ==
  ASSUME KnowledgeTypes, NEW j \in Jobs, j # "retry", NEW r \in Roots, NEW scope \in Scopes \cup {"global"},
         NEW how, (how = "whole" /\ r \in Folders) \/ (how = "merge" /\ r = Uploads),
         NEW todo \in SUBSET In(r),
         job' = [job EXCEPT ![j] = Reading(how, r, scope, todo)]
  PROVE  /\ job'[j].at = "reads" /\ job'[j].done = {} /\ Batches(j)' /\ DOMAIN job' = Jobs
         /\ \A i \in Jobs : i # j => job'[i] = job[i]
<1>1. /\ job'[j] = Reading(how, r, scope, todo) /\ DOMAIN job' = Jobs
      /\ \A i \in Jobs : i # j => job'[i] = job[i]
  BY DEF KnowledgeTypes
<1>2. BatchOf(job'[j], r, todo, {})
  BY <1>1, ReadingIs
<1>3. Batches(j)'
  BY <1>2, BatchBegins
<1> QED BY <1>1, <1>2, <1>3 DEF BatchOf

LEMMA GoneIs ==
  ASSUME NEW f \in Files
  PROVE  Gone(f) \in Result /\ Gone(f).of = f /\ Gone(f).facts = {}
BY DEF Gone, Outcome, Result

LEMMA ScanKeeps ==
  ASSUME FilesInv, NEW j \in Streams, NEW r \in Folders, NEW scope \in Scopes, Scan(j, r, scope)
  PROVE  FilesInv'
<1>1. KnowledgeTypes /\ j \in Jobs /\ j # "retry" /\ r \in Roots
  BY KnowledgeAssumption DEF FilesInv, Jobs, Roots
<1>2. There(In(r)) \in SUBSET In(r)
  BY DEF There
<1>3. job' = [job EXCEPT ![j] = Reading("whole", r, scope, There(In(r)))]
      /\ UNCHANGED <<files, source, outcomes, fresh>>
  BY DEF Scan, tables
<1>4. /\ job'[j].at = "reads" /\ job'[j].done = {} /\ Batches(j)' /\ DOMAIN job' = Jobs
      /\ \A i \in Jobs : i # j => job'[i] = job[i]
  BY <1>1, <1>2, <1>3, ReadsNothingYet
<1>5. KnowledgeTypes'
  BY <1>1, <1>3, <1>4 DEF KnowledgeTypes
<1> QED BY <1>1, <1>3, <1>4, <1>5, JobBegins

LEMMA TakeInKeeps ==
  ASSUME FilesInv, NEW j \in Streams, NEW fs \in SUBSET In(Uploads), NEW scope \in Scopes, TakeIn(j, fs, scope)
  PROVE  FilesInv'
<1>1. KnowledgeTypes /\ j \in Jobs /\ j # "retry" /\ Uploads \in Roots
  BY KnowledgeAssumption DEF FilesInv, Jobs, Roots
<1>2. job' = [job EXCEPT ![j] = Reading("merge", Uploads, scope, fs)]
      /\ files' = [f \in Files |-> IF f \in fs THEN 1 ELSE files[f]]
      /\ UNCHANGED <<source, outcomes, fresh>>
  BY DEF TakeIn, tables
<1>3. /\ job'[j].at = "reads" /\ job'[j].done = {} /\ Batches(j)' /\ DOMAIN job' = Jobs
      /\ \A i \in Jobs : i # j => job'[i] = job[i]
  BY <1>1, <1>2, ReadsNothingYet
<1>4. KnowledgeTypes'
  BY <1>1, <1>2, <1>3 DEF KnowledgeTypes
<1> QED BY <1>1, <1>2, <1>3, <1>4, JobBegins

LEMMA RereadsKeeps ==
  ASSUME FilesInv, NEW r \in Folders, Rereads(r)
  PROVE  FilesInv'
<1> DEFINE todo == There(batch.touched \cap In(r))
<1>1. KnowledgeTypes /\ "watcher" \in Jobs /\ r \in Roots /\ todo \in SUBSET In(r)
  BY DEF FilesInv, Jobs, Roots, There
<1>2. /\ job' = IF todo = {} THEN job ELSE [job EXCEPT !["watcher"] = Reading("whole", r, "global", todo)]
      /\ UNCHANGED <<files, source, outcomes, fresh>>
  BY DEF Rereads, tables
<1> HIDE DEF todo
<1>3. CASE todo = {}
  <2>1. job' = job
    BY <1>2, <1>3
  <2>2. KnowledgeTypes'
    BY <1>1, <1>2, <2>1 DEF KnowledgeTypes
  <2> QED BY <1>1, <1>2, <2>1, <2>2, FewerHands DEF KnowledgeTypes
<1>4. CASE todo # {}
  <2>1. job' = [job EXCEPT !["watcher"] = Reading("whole", r, "global", todo)]
    BY <1>2, <1>4
  <2>2. /\ job'["watcher"].at = "reads" /\ job'["watcher"].done = {} /\ Batches("watcher")'
        /\ DOMAIN job' = Jobs /\ \A i \in Jobs : i # "watcher" => job'[i] = job[i]
    BY <1>1, <2>1, ReadsNothingYet
  <2>3. KnowledgeTypes'
    BY <1>1, <1>2, <2>2 DEF KnowledgeTypes
  <2> QED BY <1>1, <1>2, <2>2, <2>3, JobBegins
<1> QED BY <1>3, <1>4

LEMMA MarksGoneKeeps ==
  ASSUME FilesInv, NEW r \in Folders, MarksGone(r)
  PROVE  FilesInv'
<1> DEFINE done == {Gone(f) : f \in batch.gone \cap In(r)}
<1>1. KnowledgeTypes /\ "watcher" \in Jobs /\ r \in Roots
  BY DEF FilesInv, Jobs, Roots
<1>2. /\ job' = [job EXCEPT !["watcher"] = [Reading("whole", r, "global", {}) EXCEPT !.done = done]]
      /\ UNCHANGED <<files, source, outcomes, fresh>>
  BY DEF MarksGone, tables
<1>3. /\ done \in SUBSET Result /\ \A o \in done : o.of \in In(r) /\ o.facts = {}
      /\ \A o, p \in done : o.of = p.of => o = p
  BY GoneIs DEF In
<1> HIDE DEF done
<1>4. /\ job'["watcher"].at = "reads" /\ job'["watcher"].done = done /\ Batches("watcher")'
      /\ DOMAIN job' = Jobs /\ \A i \in Jobs : i # "watcher" => job'[i] = job[i]
  <2>1. BatchOf(Marking(r, done), r, {}, done)
    BY <1>3, MarkingIs
  <2>2. job' = [job EXCEPT !["watcher"] = Marking(r, done)]
    BY <1>2 DEF Marking
  <2>3. /\ job'["watcher"] = Marking(r, done) /\ DOMAIN job' = Jobs
        /\ \A i \in Jobs : i # "watcher" => job'[i] = job[i]
    BY <1>1, <2>2 DEF KnowledgeTypes
  <2>4. BatchOf(job'["watcher"], r, {}, done)
    BY <2>1, <2>3
  <2>5. Batches("watcher")'
    BY <1>1, <1>3, <2>4, BatchBegins
  <2> QED BY <2>3, <2>4, <2>5 DEF BatchOf
<1>5. KnowledgeTypes'
  BY <1>1, <1>2, <1>4 DEF KnowledgeTypes
<1> QED BY <1>1, <1>2, <1>3, <1>4, <1>5, JobBegins

LEMMA RetryIs ==
  ASSUME KnowledgeTypes, NEW x \in outcomes, Retry(x)
  PROVE  /\ "retry" \in Jobs /\ x \in FileRow /\ DOMAIN job' = Jobs
         /\ \A i \in Jobs : i # "retry" => job'[i] = job[i]
         /\ job'["retry"] \in Again /\ job'["retry"].at = "reads" /\ job'["retry"].row = x
         /\ \/ job'["retry"].todo = {x.of} /\ job'["retry"].done = {}
            \/ job'["retry"].todo = {} /\ job'["retry"].done = {Gone(x.of)}
         /\ UNCHANGED <<files, source, outcomes, fresh, spine, cut, leaving>>
<1> DEFINE todo == There({x.of})
           done == IF todo = {} THEN {Gone(x.of)} ELSE {}
           new == [at |-> "reads", how |-> "one", row |-> x, scope |-> "global", todo |-> todo, done |-> done]
<1>1. "retry" \in Jobs /\ x \in FileRow /\ x.of \in Files
  BY DEF Jobs, KnowledgeTypes, FileRow
<1>2. todo \in SUBSET Files /\ (todo = {x.of} \/ todo = {}) /\ done \in SUBSET Result
  BY <1>1, GoneIs DEF There
<1>3. job' = [job EXCEPT !["retry"] = new] /\ UNCHANGED <<files, source, outcomes, fresh, spine, cut, leaving>>
  BY DEF Retry, tables
<1>4. done = IF todo = {} THEN {Gone(x.of)} ELSE {}
  OBVIOUS
<1> HIDE DEF todo, done
<1>5. new \in Again /\ new.at = "reads" /\ new.row = x /\ new.todo = todo /\ new.done = done
  BY <1>1, <1>2 DEF Again
<1> HIDE DEF new
<1>6. job'["retry"] = new /\ DOMAIN job' = Jobs /\ \A i \in Jobs : i # "retry" => job'[i] = job[i]
  BY <1>1, <1>3 DEF KnowledgeTypes
<1> QED BY <1>1, <1>2, <1>3, <1>4, <1>5, <1>6

LEMMA RetryKeeps ==
  ASSUME FilesInv, NEW x \in outcomes, Retry(x)
  PROVE  FilesInv'
<1>1. KnowledgeTypes /\ RowsAreOf
  BY DEF FilesInv
<1>2. /\ "retry" \in Jobs /\ x \in FileRow /\ DOMAIN job' = Jobs
      /\ \A i \in Jobs : i # "retry" => job'[i] = job[i]
      /\ job'["retry"] \in Again /\ job'["retry"].at = "reads" /\ job'["retry"].row = x
      /\ \/ job'["retry"].todo = {x.of} /\ job'["retry"].done = {}
         \/ job'["retry"].todo = {} /\ job'["retry"].done = {Gone(x.of)}
      /\ UNCHANGED <<files, source, outcomes, fresh>>
  BY <1>1, RetryIs
<1>3. Gone(x.of) \in Result /\ Gone(x.of).of = x.of /\ Gone(x.of).facts = {}
  BY <1>2, GoneIs DEF FileRow
<1>4. Retries("retry")'
  <2>1. Used(x.id)' /\ \A y \in outcomes' : y.id = x.id => y.source = x.source
    BY <1>1, <1>2 DEF RowsAreOf, Used
  <2> QED BY <1>2, <1>3, <2>1 DEF Retries
<1>5. KnowledgeTypes'
  BY <1>1, <1>2 DEF KnowledgeTypes
<1> QED BY <1>1, <1>2, <1>3, <1>4, <1>5, JobBegins

-----------------------------------------------------------------------------

LEMMA FewerSteps ==
  ASSUME FilesInv,
         \/ \E f \in Files : SaveFile(f) \/ RemoveFile(f)
         \/ Attach \/ LookAgain \/ HandOver \/ NewRun
         \/ \E j \in Jobs : Abandon(j)
         \/ \E x \in outcomes : WithdrawFile(x)
         \/ \E r \in Roots : Withdraw(r)
         \/ \E id \in leaving : ForgetFact(id)
         \/ \E c \in Chats : ReadsNotice(c) \/ Acknowledges(c)
         \/ UNCHANGED knowledgeVars
  PROVE  FilesInv'
<1>1. KnowledgeTypes /\ fresh \in Nat
  BY DEF FilesInv, KnowledgeTypes
<1> DEFINE Less == /\ KnowledgeTypes' /\ fresh' >= fresh /\ outcomes' \subseteq outcomes
                   /\ \A j \in Jobs : job'[j] = job[j] \/ job'[j] = Resting
                   /\ \A r \in Roots :
                        source'[r] # None => source[r] # None /\ source'[r].id = source[r].id
<1>2. ASSUME NEW f \in Files, SaveFile(f) \/ RemoveFile(f) PROVE Less
  <2>1. /\ DOMAIN files' = Files /\ \A g \in Files : files'[g] \in Nat
        /\ UNCHANGED <<tables, job>> /\ (fresh' = fresh + 1 \/ fresh' = fresh)
    BY <1>1, <1>2 DEF SaveFile, RemoveFile, KnowledgeTypes
  <2> QED BY <1>1, <2>1 DEF KnowledgeTypes, tables
<1> DEFINE Same == files' = files /\ fresh' = fresh /\ source' = source /\ outcomes' = outcomes /\ job' = job
<1>3. Same => Less
  BY <1>1 DEF KnowledgeTypes
<1>4. ASSUME Attach \/ LookAgain \/ HandOver PROVE Less
  <2>1. Same
    BY <1>4 DEF Attach, LookAgain, HandOver, tables
  <2> QED BY <1>3, <2>1
<1>5. ASSUME NewRun PROVE Less
  <2>1. job' = [j \in Jobs |-> Resting] /\ UNCHANGED <<files, fresh, source, outcomes>>
    BY <1>5 DEF NewRun, tables
  <2>2. DOMAIN job' = Jobs /\ \A j \in Jobs : job'[j] = Resting
    BY <2>1
  <2> QED BY <1>1, <2>1, <2>2 DEF KnowledgeTypes
<1>6. ASSUME NEW j \in Jobs, Abandon(j) PROVE Less
  <2>1. job' = [job EXCEPT ![j] = Resting] /\ UNCHANGED <<files, fresh, tables>>
    BY <1>6 DEF Abandon
  <2> QED BY <1>1, <2>1 DEF KnowledgeTypes, tables
<1>7. ASSUME NEW xs, GoesOut(xs), UNCHANGED <<fresh, job>>,
             source' = source \/ \E r \in Roots : source' = [source EXCEPT ![r] = None]
      PROVE  Less
  <2>1. outcomes' \subseteq outcomes /\ DOMAIN files' = Files /\ \A f \in Files : files'[f] \in Nat
    BY <1>1, <1>7 DEF GoesOut, KnowledgeTypes
  <2>2. DOMAIN source' = Roots /\ \A r \in Roots : source'[r] = source[r] \/ source'[r] = None
    BY <1>1, <1>7 DEF KnowledgeTypes
  <2> QED BY <1>1, <1>7, <2>1, <2>2 DEF KnowledgeTypes
<1>8. ASSUME NEW id, ForgetFact(id) PROVE Less
  BY <1>3, <1>8 DEF ForgetFact, tables
<1>9. ASSUME NEW c \in Chats, ReadsNotice(c) PROVE Less
  BY <1>3, <1>9 DEF ReadsNotice, tables
<1>10. ASSUME NEW c \in Chats, Acknowledges(c) PROVE Less
  <2>1. /\ DOMAIN source' = Roots
        /\ \A r \in Roots :
             source'[r] = source[r] \/ (source[r] # None /\ source'[r] = [source[r] EXCEPT !.told = TRUE])
        /\ UNCHANGED <<files, fresh, outcomes, job>>
    BY <1>10 DEF Acknowledges
  <2>2. \A row \in [id : Nat, scan : Nat, told : BOOLEAN] :
          /\ [row EXCEPT !.told = TRUE] \in [id : Nat, scan : Nat, told : BOOLEAN]
          /\ [row EXCEPT !.told = TRUE].id = row.id
    OBVIOUS
  <2>3. \A r \in Roots : source[r] # None => source[r] \in [id : Nat, scan : Nat, told : BOOLEAN]
    BY <1>1 DEF KnowledgeTypes
  <2>4. \A r \in Roots :
          source'[r] # None =>
            /\ source[r] # None /\ source'[r].id = source[r].id
            /\ source'[r] \in [id : Nat, scan : Nat, told : BOOLEAN]
    BY <2>1, <2>2, <2>3
  <2> QED BY <1>1, <2>1, <2>4 DEF KnowledgeTypes
<1>11. ASSUME UNCHANGED knowledgeVars PROVE Less
  <2>1. Same
    BY <1>11 DEF knowledgeVars, tables
  <2> QED BY <1>3, <2>1
<1>12. ASSUME NEW x, WithdrawFile(x) PROVE Less
  BY <1>7, <1>12 DEF WithdrawFile
<1>13. ASSUME NEW r \in Roots, Withdraw(r) PROVE Less
  BY <1>7, <1>13 DEF Withdraw
<1>14. Less
  <2> HIDE DEF Less
  <2> QED BY <1>2, <1>4, <1>5, <1>6, <1>8, <1>9, <1>10, <1>11, <1>12, <1>13
<1> QED BY <1>14, FewerHands

LEMMA ReadStepIs ==
  ASSUME FilesInv, NEW j \in Jobs, Read(j)
  PROVE  \E f \in job[j].todo : \E facts \in SUBSET Nat : \E problem \in BOOLEAN :
           /\ job[j].at = "reads" /\ job' = [job EXCEPT ![j] = Further(j, f, facts, problem)]
           /\ UNCHANGED <<files, source, outcomes, cut, leaving>>
           /\ \/ facts = {} /\ fresh' = fresh /\ spine' = spine
              \/ /\ facts = {fresh} /\ fresh' = fresh + 1 /\ (problem => Sparse)
                 /\ \E k : k.id = fresh /\ k.of = f /\ spine' = spine \cup {k}
<1>1. fresh \in Nat
  BY DEF FilesInv, KnowledgeTypes
<1>2. Sparse \in BOOLEAN
  BY KnowledgeAssumption
<1>3. PICK f \in job[j].todo :
        /\ job[j].at = "reads" /\ UNCHANGED <<files, tables, leaving, cut>>
        /\ \/ job' = [job EXCEPT ![j] = Further(j, f, {}, TRUE)] /\ UNCHANGED <<spine, fresh>>
           \/ /\ \E problem \in {FALSE, Sparse} : job' = [job EXCEPT ![j] = Further(j, f, {fresh}, problem)]
              /\ spine' = spine \cup {[id |-> fresh, of |-> f, version |-> files[f], scope |-> job[j].scope]}
              /\ fresh' = fresh + 1
  BY DEF Read, Further
<1>4. UNCHANGED <<source, outcomes>>
  BY <1>3 DEF tables
<1>5. CASE job' = [job EXCEPT ![j] = Further(j, f, {}, TRUE)] /\ UNCHANGED <<spine, fresh>>
  <2>1. {} \in SUBSET Nat /\ TRUE \in BOOLEAN
    OBVIOUS
  <2> QED BY <1>3, <1>4, <1>5, <2>1
<1>6. ASSUME NEW problem \in {FALSE, Sparse}, job' = [job EXCEPT ![j] = Further(j, f, {fresh}, problem)],
             spine' = spine \cup {[id |-> fresh, of |-> f, version |-> files[f], scope |-> job[j].scope]},
             fresh' = fresh + 1
      PROVE  \E facts \in SUBSET Nat : \E p \in BOOLEAN :
               /\ job' = [job EXCEPT ![j] = Further(j, f, facts, p)]
               /\ facts = {fresh} /\ fresh' = fresh + 1 /\ (p => Sparse)
               /\ \E k : k.id = fresh /\ k.of = f /\ spine' = spine \cup {k}
  <2> DEFINE k == [id |-> fresh, of |-> f, version |-> files[f], scope |-> job[j].scope]
  <2>1. k.id = fresh /\ k.of = f /\ spine' = spine \cup {k}
    BY <1>6
  <2>2. {fresh} \in SUBSET Nat
    BY <1>1
  <2>3. problem \in BOOLEAN /\ (problem => Sparse)
    <3>1. CASE problem = FALSE
      BY <3>1
    <3>2. CASE problem = Sparse
      BY <1>2, <3>2
    <3> QED BY <3>1, <3>2
  <2> HIDE DEF k
  <2> QED BY <1>6, <2>1, <2>2, <2>3
<1> QED BY <1>3, <1>4, <1>5, <1>6

LEMMA FilesStep == FilesInv /\ [KnowledgeNext]_knowledgeVars => FilesInv'
<1> SUFFICES ASSUME FilesInv, [KnowledgeNext]_knowledgeVars PROVE FilesInv'
  OBVIOUS
<1>1. ASSUME NEW j \in Streams, NEW scope \in Scopes, NEW r \in Folders, Scan(j, r, scope) PROVE FilesInv'
  BY <1>1, ScanKeeps
<1>2. ASSUME NEW j \in Streams, NEW scope \in Scopes, NEW fs \in SUBSET In(Uploads), TakeIn(j, fs, scope)
      PROVE  FilesInv'
  BY <1>2, TakeInKeeps
<1>3. ASSUME NEW j \in Jobs, Read(j) PROVE FilesInv'
  <2>1. PICK f \in job[j].todo : \E facts \in SUBSET Nat : \E problem \in BOOLEAN :
          /\ job[j].at = "reads" /\ job' = [job EXCEPT ![j] = Further(j, f, facts, problem)]
          /\ UNCHANGED <<files, source, outcomes>>
          /\ (facts = {} /\ fresh' = fresh) \/ (facts = {fresh} /\ fresh' = fresh + 1)
    BY <1>3, ReadStepIs
  <2>2. PICK facts \in SUBSET Nat, problem \in BOOLEAN :
          /\ job[j].at = "reads" /\ job' = [job EXCEPT ![j] = Further(j, f, facts, problem)]
          /\ UNCHANGED <<files, source, outcomes>>
          /\ (facts = {} /\ fresh' = fresh) \/ (facts = {fresh} /\ fresh' = fresh + 1)
    BY <2>1
  <2>3. fresh' \in Nat /\ fresh' >= fresh
    BY <2>2 DEF FilesInv, KnowledgeTypes
  <2> QED BY <2>2, <2>3, ReadKeeps
<1>4. ASSUME NEW j \in Jobs, Upsert(j) PROVE FilesInv'
  BY <1>4, UpsertKeeps
<1>5. ASSUME NEW j \in Jobs, Record(j) PROVE FilesInv'
  BY <1>5, RecordKeeps
<1>6. CASE Replaced
  BY <1>6, ReplacedKeeps
<1>7. ASSUME NEW r \in Folders, Rereads(r) \/ MarksGone(r) PROVE FilesInv'
  BY <1>7, RereadsKeeps, MarksGoneKeeps
<1>8. ASSUME NEW x \in outcomes, Retry(x) PROVE FilesInv'
  BY <1>8, RetryKeeps
<1> QED
  BY <1>1, <1>2, <1>3, <1>4, <1>5, <1>6, <1>7, <1>8, FewerSteps DEF KnowledgeNext, Works, Watches

LEMMA FilesStart == KnowledgeInit => FilesInv
<1> SUFFICES ASSUME KnowledgeInit PROVE FilesInv
  OBVIOUS
<1>1. /\ \A j \in Jobs : job[j] = Resting /\ job[j].at = "idle" /\ job[j].done = {} /\ job[j].todo = {}
      /\ \A r \in Roots : source[r] = None
      /\ outcomes = {}
  BY DEF KnowledgeInit, Resting
<1>2. KnowledgeTypes
  BY DEF KnowledgeInit, KnowledgeTypes
<1>3. OneRoot
  BY <1>1 DEF OneRoot, Claims
<1> QED
  BY <1>1, <1>2, <1>3 DEF FilesInv, RowsAreOf, OneRowPerFile, JobsAre, InOneHand, OwnFacts, FactsApart

(* Whatever is scanned, dropped, read again, retried, withdrawn or cut off, *)
(* in any number of threads: a file has one row under its source, and a     *)
(* fact is of one row.                                                      *)
THEOREM RowsAreTheFilesOwn == KnowledgeSpec => []OneRowPerFile
<1>1. FilesInv => OneRowPerFile
  BY DEF FilesInv
<1> QED BY <1>1, FilesStart, FilesStep, PTL DEF KnowledgeSpec

-----------------------------------------------------------------------------
(* What was dropped.  A problem file has no facts from here on.             *)

LEMMA UploadsAre ==
  ASSUME NEW f \in In(Uploads)
  PROVE  f \in Files /\ f.in = Uploads /\ f.in \notin Folders
BY KnowledgeAssumption DEF In

LEMMA DropsStand ==
  ASSUME Drops, UNCHANGED <<outcomes, spine, cut, leaving, job>>,
         \A f \in In(Uploads) : files'[f] = files[f]
  PROVE  Drops'
<1>1. \A j, f : HasFile(j, f)' <=> HasFile(j, f)
  BY DEF HasFile
<1>2. DropsAreKept'
  BY <1>1 DEF Drops, DropsAreKept
<1>3. RetriesInPlace' /\ ProblemsAreEmpty'
  BY DEF Drops, RetriesInPlace, ProblemsAreEmpty
<1>4. Accounted'
  BY DEF Drops, Accounted, InRows, InHand
<1> QED BY <1>2, <1>3, <1>4 DEF Drops

(* A folder's reading begins.                                               *)
LEMMA FolderBegins ==
  ASSUME FilesInv, Drops, NEW j \in Jobs, j # "retry", job[j] = Resting,
         \A i \in Jobs : i # j => job'[i] = job[i],
         UNCHANGED <<outcomes, spine, cut, leaving, files>>,
         \A o \in job'[j].done : o.facts = {}, \A f \in In(Uploads) : ~HasFile(j, f)'
  PROVE  Drops'
<1>1. job[j].done = {} /\ "retry" \in Jobs
  BY DEF Resting, Jobs
<1>2. \A i \in Jobs : \A f : i # j => (HasFile(i, f)' <=> HasFile(i, f))
  BY DEF HasFile
<1>3. DropsAreKept'
  BY <1>2 DEF Drops, DropsAreKept
<1>4. RetriesInPlace' /\ ProblemsAreEmpty'
  BY <1>1 DEF Drops, RetriesInPlace, ProblemsAreEmpty
<1>5. \A k : (InRows(k) => InRows(k)') /\ (InHand(k) => InHand(k)')
  BY <1>1 DEF InRows, InHand
<1>6. Accounted'
  BY <1>5 DEF Drops, Accounted
<1> QED BY <1>3, <1>4, <1>6 DEF Drops

LEMMA FolderReadings ==
  ASSUME FilesInv, Drops, NEW j \in Jobs, j # "retry", job[j] = Resting, NEW r \in Folders,
         NEW todo, NEW done, BatchOf(job'[j], r, todo, done), todo \subseteq In(r),
         \A o \in done : o.of \in In(r) /\ o.facts = {},
         \A i \in Jobs : i # j => job'[i] = job[i],
         UNCHANGED <<outcomes, spine, cut, leaving, files>>
  PROVE  Drops'
<1>1. job'[j].done = done /\ job'[j].todo = todo
  BY DEF BatchOf
<1>2. \A f \in In(Uploads) : f \notin In(r)
  BY UploadsAre DEF In
<1>3. \A f \in In(Uploads) : ~HasFile(j, f)'
  BY <1>1, <1>2 DEF HasFile
<1> QED BY <1>1, <1>3, FolderBegins

LEMMA ScanDrops ==
  ASSUME FilesInv, Drops, NEW j \in Streams, NEW r \in Folders, NEW scope \in Scopes, Scan(j, r, scope)
  PROVE  Drops'
<1>1. KnowledgeTypes /\ j \in Jobs /\ j # "retry" /\ r \in Roots
  BY KnowledgeAssumption DEF FilesInv, Jobs, Roots
<1> DEFINE todo == There(In(r))
<1>2. todo \in SUBSET In(r)
  BY DEF There
<1>3. job' = [job EXCEPT ![j] = Reading("whole", r, scope, todo)] /\ job[j] = Resting
      /\ UNCHANGED <<outcomes, spine, cut, leaving, files>>
  BY DEF Scan, tables
<1> HIDE DEF todo
<1>4. job'[j] = Reading("whole", r, scope, todo) /\ \A i \in Jobs : i # j => job'[i] = job[i]
  BY <1>1, <1>3 DEF KnowledgeTypes
<1>5. BatchOf(job'[j], r, todo, {})
  BY <1>1, <1>2, <1>4, ReadingIs
<1> QED BY <1>1, <1>2, <1>3, <1>4, <1>5, FolderReadings

LEMMA RereadsDrops ==
  ASSUME FilesInv, Drops, NEW r \in Folders, Rereads(r)
  PROVE  Drops'
<1> DEFINE todo == There(batch.touched \cap In(r))
<1>1. KnowledgeTypes /\ "watcher" \in Jobs /\ r \in Roots /\ todo \in SUBSET In(r)
  BY DEF FilesInv, Jobs, Roots, There
<1>2. /\ job' = IF todo = {} THEN job ELSE [job EXCEPT !["watcher"] = Reading("whole", r, "global", todo)]
      /\ job["watcher"] = Resting /\ UNCHANGED <<outcomes, spine, cut, leaving, files>>
  BY DEF Rereads, tables
<1> HIDE DEF todo
<1>3. CASE todo = {}
  BY <1>2, <1>3, DropsStand
<1>4. CASE todo # {}
  <2>1. /\ job'["watcher"] = Reading("whole", r, "global", todo)
        /\ \A i \in Jobs : i # "watcher" => job'[i] = job[i]
    BY <1>1, <1>2, <1>4 DEF KnowledgeTypes
  <2>2. BatchOf(job'["watcher"], r, todo, {})
    BY <1>1, <2>1, ReadingIs
  <2> QED BY <1>1, <1>2, <2>1, <2>2, FolderReadings
<1> QED BY <1>3, <1>4

LEMMA MarksGoneDrops ==
  ASSUME FilesInv, Drops, NEW r \in Folders, MarksGone(r)
  PROVE  Drops'
<1> DEFINE done == {Gone(f) : f \in batch.gone \cap In(r)}
<1>1. KnowledgeTypes /\ "watcher" \in Jobs
  BY DEF FilesInv, Jobs
<1>2. /\ job' = [job EXCEPT !["watcher"] = Marking(r, done)]
      /\ job["watcher"] = Resting /\ UNCHANGED <<outcomes, spine, cut, leaving, files>>
  BY DEF MarksGone, Marking, tables
<1>3. done \in SUBSET Result /\ \A o \in done : o.of \in In(r) /\ o.facts = {}
  BY GoneIs DEF In
<1> HIDE DEF done
<1>4. job'["watcher"] = Marking(r, done) /\ \A i \in Jobs : i # "watcher" => job'[i] = job[i]
  BY <1>1, <1>2 DEF KnowledgeTypes
<1>5. BatchOf(job'["watcher"], r, {}, done)
  BY <1>3, <1>4, MarkingIs
<1> QED BY <1>1, <1>2, <1>3, <1>4, <1>5, FolderReadings

LEMMA TakeInDrops ==
  ASSUME FilesInv, Drops, NEW j \in Streams, NEW fs \in SUBSET In(Uploads), NEW scope \in Scopes, TakeIn(j, fs, scope)
  PROVE  Drops'
<1>1. KnowledgeTypes /\ j \in Jobs /\ j # "retry" /\ Uploads \in Roots
  BY KnowledgeAssumption DEF FilesInv, Jobs, Roots
<1>2. /\ job' = [job EXCEPT ![j] = Reading("merge", Uploads, scope, fs)] /\ job[j] = Resting
      /\ files' = [f \in Files |-> IF f \in fs THEN 1 ELSE files[f]]
      /\ UNCHANGED <<outcomes, spine, cut, leaving>>
  BY DEF TakeIn, tables
<1>3. job'[j] = Reading("merge", Uploads, scope, fs) /\ \A i \in Jobs : i # j => job'[i] = job[i]
  BY <1>1, <1>2 DEF KnowledgeTypes
<1>4. BatchOf(job'[j], Uploads, fs, {})
  BY <1>1, <1>3, ReadingIs
<1>5. job'[j].done = {} /\ job'[j].todo = fs /\ job[j].done = {}
  BY <1>2, <1>4 DEF BatchOf, Resting
<1>6. \A f \in fs : ~(files[f] > 0)
  BY DEF TakeIn, There
<1>7. \A f \in In(Uploads) :
        /\ f \in fs => files'[f] > 0
        /\ f \notin fs => files'[f] = files[f]
  BY <1>2, UploadsAre
<1>8. \A f : HasFile(j, f)' => f \in fs
  BY <1>5 DEF HasFile
<1>9. \A i \in Jobs : \A f : i # j => (HasFile(i, f)' <=> HasFile(i, f))
  BY <1>3 DEF HasFile
<1>10. DropsAreKept'
  <2>1. DropsAreKept /\ outcomes' = outcomes
    BY <1>2 DEF Drops
  <2>2. ASSUME NEW f \in In(Uploads), f \in fs
        PROVE  /\ files'[f] > 0 /\ \A x \in outcomes : x.of # f
               /\ \A i \in Jobs \ {"retry", j} : ~HasFile(i, f)'
    BY <1>6, <1>7, <1>9, <2>1, <2>2 DEF DropsAreKept
  <2>3. ASSUME NEW f \in In(Uploads), f \notin fs
        PROVE  files'[f] = files[f] /\ ~HasFile(j, f)'
    BY <1>7, <1>8, <2>3
  <2> QED BY <1>9, <2>1, <2>2, <2>3 DEF DropsAreKept
<1>11. RetriesInPlace' /\ ProblemsAreEmpty'
  BY <1>1, <1>2, <1>3, <1>5 DEF Drops, RetriesInPlace, ProblemsAreEmpty, Jobs
<1>12. \A k : (InRows(k) => InRows(k)') /\ (InHand(k) => InHand(k)')
  BY <1>2, <1>3, <1>5 DEF InRows, InHand
<1>13. Accounted'
  BY <1>2, <1>12 DEF Drops, Accounted
<1> QED BY <1>10, <1>11, <1>13 DEF Drops

(* A job goes on: what it had in hand it still has.                         *)
LEMMA StillInHand ==
  ASSUME Drops, NEW j \in Jobs, \A i \in Jobs : i # j => job'[i] = job[i],
         UNCHANGED <<outcomes, files, cut, leaving>>,
         \A f : HasFile(j, f)' => HasFile(j, f),
         job'["retry"] = Resting
           \/ (job["retry"] # Resting /\ job'["retry"].row = job["retry"].row),
         job[j].done \subseteq job'[j].done,
         \A o \in job'[j].done : o \in job[j].done \/ (o.problem => o.facts = {}),
         \A k \in spine' : k \in spine \/ InHand(k)'
  PROVE  Drops'
<1>1. \A i \in Jobs : \A f : HasFile(i, f)' => HasFile(i, f)
  BY DEF HasFile
<1>2. DropsAreKept'
  BY <1>1 DEF Drops, DropsAreKept
<1>3. RetriesInPlace' /\ ProblemsAreEmpty'
  BY DEF Drops, RetriesInPlace, ProblemsAreEmpty
<1>4. \A k : (InRows(k) => InRows(k)') /\ (InHand(k) => InHand(k)')
  BY DEF InRows, InHand
<1>5. Accounted'
  BY <1>4 DEF Drops, Accounted
<1> QED BY <1>2, <1>3, <1>5 DEF Drops

LEMMA ReadDrops ==
  ASSUME FilesInv, Drops, ~Sparse, NEW j \in Jobs, Read(j)
  PROVE  Drops'
<1>1. KnowledgeTypes /\ JobsAre
  BY DEF FilesInv
<1>2. PICK f \in job[j].todo : \E facts \in SUBSET Nat : \E problem \in BOOLEAN :
        /\ job[j].at = "reads" /\ job' = [job EXCEPT ![j] = Further(j, f, facts, problem)]
        /\ UNCHANGED <<files, source, outcomes, cut, leaving>>
        /\ \/ facts = {} /\ fresh' = fresh /\ spine' = spine
           \/ /\ facts = {fresh} /\ fresh' = fresh + 1 /\ (problem => Sparse)
              /\ \E k : k.id = fresh /\ k.of = f /\ spine' = spine \cup {k}
  BY ReadStepIs
<1>3. PICK facts \in SUBSET Nat, problem \in BOOLEAN :
        /\ job[j].at = "reads" /\ job' = [job EXCEPT ![j] = Further(j, f, facts, problem)]
        /\ UNCHANGED <<files, source, outcomes, cut, leaving>>
        /\ \/ facts = {} /\ spine' = spine
           \/ /\ (problem => Sparse)
              /\ \E k : k.id \in facts /\ k.of = f /\ spine' = spine \cup {k}
  BY <1>2
<1> DEFINE o == Outcome(f, files[f], facts, problem)
<1>4. HasRead(Further(j, f, facts, problem), j, f, o) /\ o.facts = facts /\ o.problem = problem
  <2> DEFINE new == Further(j, f, facts, problem)
  <2>1. /\ new = Further(j, f, facts, problem) /\ o = Outcome(f, files[f], facts, problem)
        /\ job[j].at = "reads"
    BY <1>3
  <2> HIDE DEF new, o
  <2>2. HasRead(new, j, f, o) /\ o.facts = facts /\ o.problem = problem
    BY <1>1, <2>1, FurtherIs
  <2> QED BY <2>2 DEF new
<1> HIDE DEF o
<1>5. job'[j] = Further(j, f, facts, problem) /\ \A i \in Jobs : i # j => job'[i] = job[i]
  BY <1>1, <1>3 DEF KnowledgeTypes
<1>6. HasRead(job'[j], j, f, o)
  BY <1>4, <1>5
<1>7. \A g : HasFile(j, g)' => HasFile(j, g)
  BY <1>3, <1>6 DEF HasFile, HasRead
<1>8. job'["retry"] = job["retry"] \/ (job["retry"] # Resting /\ job'["retry"].row = job["retry"].row)
  <2>1. CASE j # "retry"
    BY <1>5, <2>1 DEF Jobs
  <2>2. CASE j = "retry"
    <3>1. Retries(j)
      BY <1>1, <1>3, <2>2, JobsFacts DEF Batches
    <3> QED BY <1>3, <1>6, <2>2, <3>1 DEF HasRead, Retries, Resting
  <2> QED BY <2>1, <2>2
<1>9. o.problem => o.facts = {}
  BY <1>3, <1>4
<1>10. \A k \in spine' : k \in spine \/ InHand(k)'
  BY <1>3, <1>4, <1>6 DEF InHand, HasRead
<1>11. job[j].done \subseteq job'[j].done /\ \A p \in job'[j].done : p \in job[j].done \/ p = o
  BY <1>6 DEF HasRead
<1> QED BY <1>3, <1>5, <1>7, <1>8, <1>9, <1>10, <1>11, StillInHand

LEMMA UpsertDrops ==
  ASSUME FilesInv, Drops, NEW j \in Jobs, Upsert(j)
  PROVE  Drops'
<1>1. KnowledgeTypes /\ JobsAre
  BY DEF FilesInv
<1>2. Batches(j) /\ job[j] \in Batch /\ j # "retry"
  BY <1>1, JobsFacts DEF Upsert, Retries, Batches, Again
<1>3. PICK todo : job' = [job EXCEPT ![j] = [job[j] EXCEPT !.at = "records", !.todo = todo]]
  BY DEF Upsert
<1>4. UNCHANGED <<files, outcomes, spine, cut, leaving>>
  BY DEF Upsert
<1> DEFINE new == [job[j] EXCEPT !.at = "records", !.todo = todo]
<1>5. new.at = "records" /\ new.done = job[j].done
  BY <1>2 DEF Batch
<1> HIDE DEF new
<1>6. job'[j] = new /\ \A i \in Jobs : i # j => job'[i] = job[i]
  BY <1>1, <1>3 DEF KnowledgeTypes, new
<1>7. \A f : HasFile(j, f)' => HasFile(j, f)
  BY <1>5, <1>6 DEF HasFile
<1>8. job'["retry"] = job["retry"]
  BY <1>2, <1>6 DEF Jobs
<1> QED BY <1>4, <1>5, <1>6, <1>7, <1>8, StillInHand

(* The rows a job writes replace no dropped file's.                         *)
LEMMA DropsRowsStay ==
  ASSUME FilesInv, Drops, NEW j \in Jobs, Record(j), NEW x \in outcomes, x.of.in = Uploads
  PROVE  x \in outcomes' /\ \A o \in job[j].done : x.of # o.of
<1>1. KnowledgeTypes /\ JobsAre /\ OneRoot
  BY DEF FilesInv
<1>2. PICK s \in Nat :
        /\ Batches(j) /\ job[j].at = "records" /\ Claims(s, job[j].root)
        /\ \A y \in outcomes : y.source # s => y \in outcomes'
        /\ \A y \in outcomes :
             job[j].how = "merge" /\ (\A o \in job[j].done : y.of # o.of) => y \in outcomes'
  BY <1>1, RecordIs
<1>3. x.of \in In(Uploads)
  BY <1>1 DEF KnowledgeTypes, FileRow, In
<1>4. \A o \in job[j].done : x.of # o.of
  <2>1. j # "retry" /\ (\E o \in job[j].done : x.of = o.of) => HasFile(j, x.of)
    BY DEF HasFile
  <2> QED BY <1>2, <1>3, <2>1 DEF Drops, DropsAreKept, Batches
<1>5. CASE Merge(j)
  BY <1>2, <1>4, <1>5 DEF Merge
<1>6. CASE Whole(j)
  <2>1. job[j].root # Uploads
    BY <1>6, KnowledgeAssumption DEF Whole
  <2>2. Claims(x.source, Uploads)
    BY DEF Claims
  <2>3. x.source # s
    BY <1>1, <1>2, <2>1, <2>2 DEF OneRoot
  <2> QED BY <1>2, <1>4, <2>3
<1> QED BY <1>2, <1>5, <1>6 DEF Batches

LEMMA RecordDrops ==
  ASSUME FilesInv, Drops, NEW j \in Jobs, Record(j)
  PROVE  Drops'
<1>1. KnowledgeTypes /\ JobsAre /\ RowsAreOf /\ InOneHand /\ fresh \in Nat
  BY DEF FilesInv, KnowledgeTypes
<1>2. PICK s \in Nat :
        /\ Batches(j) /\ job[j].at = "records"
        /\ \A x \in outcomes' : x \in outcomes \/ \E o \in job[j].done : RowOf(x, fresh, s, o)
        /\ \A o \in job[j].done : \E x \in outcomes' : RowOf(x, fresh, s, o)
  BY <1>1, RecordIs DEF FilesInv
<1>3. /\ job'[j] = Resting /\ \A i \in Jobs : i # j => job'[i] = job[i]
      /\ UNCHANGED <<files, spine, cut, leaving>>
  BY <1>1 DEF Record, KnowledgeTypes
<1>4. \A x \in outcomes : x.of.in = Uploads => x \in outcomes' /\ \A o \in job[j].done : x.of # o.of
  BY DropsRowsStay
<1>5. j # "retry" /\ job'["retry"] = job["retry"] /\ "retry" \in Jobs
  BY <1>2, <1>3 DEF Batches, Jobs
<1>6. \A i \in Jobs : \A f : HasFile(i, f)' => i # j /\ HasFile(i, f)
  BY <1>3 DEF HasFile, Resting
<1>7. \A o \in job[j].done : HasFile(j, o.of)
  BY DEF HasFile
<1>8. DropsAreKept'
  <2>1. ASSUME NEW f \in In(Uploads), NEW x \in outcomes', NEW y \in outcomes', x.of = f, y.of = f
        PROVE  x = y /\ files'[f] > 0
    <3>1. f.in = Uploads /\ x.of.in = Uploads /\ y.of.in = Uploads
      BY <2>1, UploadsAre
    <3>2. CASE x \in outcomes /\ y \in outcomes
      BY <1>3, <2>1, <3>2 DEF Drops, DropsAreKept
    <3>3. ASSUME NEW o \in job[j].done, RowOf(x, fresh, s, o) PROVE x = y /\ files'[f] > 0
      <4>1. o.of = f /\ HasFile(j, f)
        BY <1>7, <2>1, <3>3 DEF RowOf
      <4>2. y \notin outcomes
        BY <1>4, <2>1, <3>1, <4>1
      <4>3. PICK p \in job[j].done : RowOf(y, fresh, s, p)
        BY <1>2, <4>2
      <4>4. o = p
        BY <1>1, <2>1, <4>1, <4>3 DEF InOneHand, OwnFacts, RowOf
      <4>5. x = y
        BY <3>3, <4>3, <4>4 DEF RowOf, FileRow
      <4>6. files'[f] > 0
        BY <1>3, <1>5, <4>1 DEF Drops, DropsAreKept
      <4> QED BY <4>5, <4>6
    <3>4. ASSUME NEW o \in job[j].done, RowOf(y, fresh, s, o), x \in outcomes PROVE FALSE
      BY <1>4, <2>1, <3>1, <3>4 DEF RowOf
    <3> QED BY <1>2, <3>2, <3>3, <3>4
  <2>2. ASSUME NEW f \in In(Uploads), NEW i \in Jobs \ {"retry"}, HasFile(i, f)'
        PROVE  /\ files'[f] > 0 /\ \A x \in outcomes' : x.of # f
               /\ \A h \in Jobs \ {"retry", i} : ~HasFile(h, f)'
    <3>1. i # j /\ HasFile(i, f)
      BY <1>6, <2>2
    <3>2. files[f] > 0 /\ (\A x \in outcomes : x.of # f) /\ \A h \in Jobs \ {"retry", i} : ~HasFile(h, f)
      BY <2>2, <3>1 DEF Drops, DropsAreKept
    <3>3. \A o \in job[j].done : o.of # f
      BY <1>5, <1>7, <3>1, <3>2
    <3>4. \A x \in outcomes' : x.of # f
      BY <1>2, <3>2, <3>3 DEF RowOf
    <3> QED BY <1>3, <1>6, <3>2, <3>4
  <2> QED BY <2>1, <2>2 DEF DropsAreKept
<1>9. RetriesInPlace'
  <2> SUFFICES ASSUME job["retry"] # Resting PROVE RetriesInPlace'
    BY <1>5 DEF RetriesInPlace
  <2>1. Retries("retry")
    BY <1>1, <1>5 DEF JobsAre, Batches
  <2>2. PICK row : row = job["retry"].row /\ row \in FileRow /\ Used(row.id)
    BY <2>1 DEF Retries, Again
  <2>3. /\ row.facts = {} /\ (row.of.in = Uploads => row \in outcomes)
        /\ \A y \in outcomes : y.id = row.id /\ y.of = row.of => y = row
    BY <2>2 DEF Drops, RetriesInPlace
  <2>4. row.id # fresh
    BY <1>1, <2>2 DEF Used
  <2>5. \A y \in outcomes' : y.id = row.id /\ y.of = row.of => y = row
    BY <1>2, <2>3, <2>4 DEF RowOf
  <2>6. row.of.in = Uploads => row \in outcomes'
    BY <1>4, <2>3
  <2> QED BY <1>5, <2>2, <2>3, <2>5, <2>6 DEF RetriesInPlace
<1>10. ProblemsAreEmpty'
  <2>1. \A x \in outcomes' : x.problem => x.facts = {}
    BY <1>2 DEF Drops, ProblemsAreEmpty, RowOf
  <2>2. \A i \in Jobs : \A o \in job'[i].done : o.problem => o.facts = {}
    BY <1>3 DEF Drops, ProblemsAreEmpty, Resting
  <2> QED BY <2>1, <2>2 DEF ProblemsAreEmpty
<1>11. Accounted'
  <2> SUFFICES ASSUME NEW k \in spine, k.of.in = Uploads, InRows(k) \/ InHand(k)
               PROVE  InRows(k)' \/ InHand(k)'
    BY <1>3 DEF Drops, Accounted
  <2>1. CASE InRows(k)
    BY <1>4, <2>1 DEF InRows
  <2>2. ASSUME NEW i \in Jobs, NEW o \in job[i].done, o.of = k.of, k.id \in o.facts
        PROVE  InRows(k)' \/ InHand(k)'
    <3>1. CASE i = j
      BY <1>2, <2>2, <3>1 DEF InRows, RowOf
    <3>2. CASE i # j
      BY <1>3, <2>2, <3>2 DEF InHand
    <3> QED BY <3>1, <3>2
  <2> QED BY <2>1, <2>2 DEF InHand
<1> QED BY <1>8, <1>9, <1>10, <1>11 DEF Drops

LEMMA RetryDrops ==
  ASSUME FilesInv, Drops, NEW x \in outcomes, Retry(x)
  PROVE  Drops'
<1>1. KnowledgeTypes /\ RowsAreOf /\ OneRowPerFile
  BY DEF FilesInv
<1>2. /\ "retry" \in Jobs /\ x \in FileRow
      /\ \A i \in Jobs : i # "retry" => job'[i] = job[i]
      /\ job'["retry"].row = x
      /\ \/ job'["retry"].done = {}
         \/ job'["retry"].done = {Gone(x.of)}
      /\ UNCHANGED <<files, outcomes, spine, cut, leaving>>
  BY <1>1, RetryIs
<1>3. Gone(x.of).facts = {}
  BY <1>2, GoneIs DEF FileRow
<1>4. x.problem /\ job["retry"].done = {}
  BY DEF Retry, LoopFree, Resting
<1>5. DropsAreKept'
  <2>1. \A i \in Jobs \ {"retry"} : \A f : HasFile(i, f)' <=> HasFile(i, f)
    BY <1>2 DEF HasFile
  <2> QED BY <1>2, <2>1 DEF Drops, DropsAreKept
<1>6. RetriesInPlace'
  <2>1. x.facts = {}
    BY <1>4 DEF Drops, ProblemsAreEmpty
  <2>2. \A y \in outcomes : y.id = x.id /\ y.of = x.of => y = x
    BY <1>1 DEF RowsAreOf, OneRowPerFile
  <2> QED BY <1>2, <2>1, <2>2 DEF RetriesInPlace
<1>7. ProblemsAreEmpty'
  BY <1>2, <1>3 DEF Drops, ProblemsAreEmpty
<1>8. \A k : (InRows(k) => InRows(k)') /\ (InHand(k) => InHand(k)')
  BY <1>2, <1>4 DEF InRows, InHand
<1>9. Accounted'
  BY <1>2, <1>8 DEF Drops, Accounted
<1> QED BY <1>5, <1>6, <1>7, <1>9 DEF Drops

LEMMA ReplacedDrops ==
  ASSUME FilesInv, Drops, Replaced
  PROVE  Drops'
<1>1. KnowledgeTypes /\ JobsAre
  BY DEF FilesInv
<1>2. PICK row : row = job["retry"].row
  OBVIOUS
<1>3. PICK o \in Result :
        /\ "retry" \in Jobs /\ Retries("retry") /\ job["retry"].done = {o} /\ o.of = row.of
        /\ \A x \in outcomes' :
             \/ x \in outcomes /\ ~(x.id = row.id /\ x.of = o.of)
             \/ /\ \E y \in outcomes : y.id = row.id /\ y.of = o.of
                /\ RowOf(x, row.id, row.source, o)
        /\ \A y \in outcomes :
             \/ y \in outcomes' /\ ~(y.id = row.id /\ y.of = o.of)
             \/ /\ y.id = row.id /\ y.of = o.of
                /\ \E x \in outcomes' : RowOf(x, row.id, row.source, o)
  BY <1>1, <1>2, ReplacedIs
<1>4. /\ job'["retry"] = Resting /\ \A i \in Jobs : i # "retry" => job'[i] = job[i]
      /\ UNCHANGED <<files, spine, cut, leaving>>
  BY <1>1, <1>3 DEF Replaced, KnowledgeTypes
<1>5. /\ row.facts = {} /\ (row.of.in = Uploads => row \in outcomes)
      /\ \A y \in outcomes : y.id = row.id /\ y.of = row.of => y = row
  BY <1>2 DEF Drops, RetriesInPlace, Replaced, Resting
<1>6. DropsAreKept'
  <2>1. \A i \in Jobs \ {"retry"} : \A f : HasFile(i, f)' <=> HasFile(i, f)
    BY <1>4 DEF HasFile
  <2>2. \A x \in outcomes' : \E y \in outcomes : y.of = x.of
    BY <1>3 DEF RowOf
  <2>3. ASSUME NEW f \in In(Uploads), NEW x \in outcomes', NEW y \in outcomes', x.of = f, y.of = f
        PROVE  x = y /\ files'[f] > 0
    <3>1. files'[f] > 0
      BY <1>4, <2>2, <2>3 DEF Drops, DropsAreKept
    <3>2. CASE x \in outcomes /\ y \in outcomes
      BY <2>3, <3>1, <3>2 DEF Drops, DropsAreKept
    <3>3. CASE RowOf(x, row.id, row.source, o) /\ RowOf(y, row.id, row.source, o)
      BY <3>1, <3>3 DEF RowOf, FileRow
    <3>4. ASSUME NEW a \in outcomes', NEW b \in outcomes, a.of = f, b.of = f,
                 RowOf(a, row.id, row.source, o), ~(b.id = row.id /\ b.of = o.of),
                 NEW z \in outcomes, z.id = row.id, z.of = o.of
          PROVE  FALSE
      <4>1. z.of = f /\ z # b
        BY <3>4 DEF RowOf
      <4> QED BY <3>4, <4>1 DEF Drops, DropsAreKept
    <3> QED BY <1>3, <2>3, <3>1, <3>2, <3>3, <3>4
  <2> QED BY <1>4, <2>1, <2>2, <2>3 DEF Drops, DropsAreKept
<1>7. RetriesInPlace'
  BY <1>4 DEF RetriesInPlace
<1>8. ProblemsAreEmpty'
  <2>1. \A x \in outcomes' : x.problem => x.facts = {}
    BY <1>3 DEF Drops, ProblemsAreEmpty, RowOf
  <2>2. \A i \in Jobs : \A p \in job'[i].done : p.problem => p.facts = {}
    BY <1>4 DEF Drops, ProblemsAreEmpty, Resting
  <2> QED BY <2>1, <2>2 DEF ProblemsAreEmpty
<1>9. Accounted'
  <2> SUFFICES ASSUME NEW k \in spine, k.of.in = Uploads, InRows(k) \/ InHand(k)
               PROVE  InRows(k)' \/ InHand(k)'
    BY <1>4 DEF Drops, Accounted
  <2>1. CASE InRows(k)
    <3>1. PICK y \in outcomes : y.of = k.of /\ k.id \in y.facts
      BY <2>1 DEF InRows
    <3>2. ~(y.id = row.id /\ y.of = o.of)
      BY <1>3, <1>5, <3>1
    <3> QED BY <1>3, <3>1, <3>2 DEF InRows
  <2>2. ASSUME NEW i \in Jobs, NEW p \in job[i].done, p.of = k.of, k.id \in p.facts
        PROVE  InRows(k)' \/ InHand(k)'
    <3>1. CASE i = "retry"
      <4>1. p = o /\ row.of.in = Uploads
        BY <1>3, <2>2, <3>1
      <4>2. \E x \in outcomes' : RowOf(x, row.id, row.source, o)
        BY <1>3, <1>5, <4>1
      <4> QED BY <2>2, <4>1, <4>2 DEF InRows, RowOf
    <3>2. CASE i # "retry"
      BY <1>4, <2>2, <3>2 DEF InHand
    <3> QED BY <3>1, <3>2
  <2> QED BY <2>1, <2>2 DEF InHand
<1> QED BY <1>6, <1>7, <1>8, <1>9 DEF Drops

(* Jobs are cut off, and rows go with the copies of their files.            *)
LEMMA CutOff ==
  ASSUME Drops, UNCHANGED <<files, outcomes, spine>>,
         \A j \in Jobs : job'[j] = job[j] \/ (job'[j] = Resting /\ Held(j) \subseteq cut'),
         cut \subseteq cut', leaving \subseteq cut' \cup leaving'
  PROVE  Drops'
<1>1. \A j \in Jobs : job'[j] = job[j] \/ (job'[j].done = {} /\ job'[j].at = "idle")
  BY DEF Resting
<1>2. "retry" \in Jobs
  BY DEF Jobs
<1>3. DropsAreKept'
  <2>1. \A j \in Jobs : \A f : HasFile(j, f)' => HasFile(j, f)
    BY <1>1 DEF HasFile
  <2> QED BY <2>1 DEF Drops, DropsAreKept
<1>4. RetriesInPlace' /\ ProblemsAreEmpty'
  BY <1>1, <1>2 DEF Drops, RetriesInPlace, ProblemsAreEmpty
<1>5. ASSUME NEW k \in spine, InRows(k) \/ InHand(k) PROVE InRows(k)' \/ InHand(k)' \/ k.id \in cut'
  <2>1. CASE InRows(k)
    BY <2>1 DEF InRows
  <2>2. ASSUME NEW j \in Jobs, NEW o \in job[j].done, o.of = k.of, k.id \in o.facts
        PROVE  InHand(k)' \/ k.id \in cut'
    BY <2>2 DEF InHand, Held
  <2> QED BY <1>5, <2>1, <2>2 DEF InHand
<1>6. Accounted'
  BY <1>5 DEF Drops, Accounted
<1> QED BY <1>3, <1>4, <1>6 DEF Drops

LEMMA WithdrawDrops ==
  ASSUME FilesInv, Drops, LoopFree, NEW xs \in SUBSET outcomes, GoesOut(xs), UNCHANGED <<spine, job, cut>>
  PROVE  Drops'
<1>1. KnowledgeTypes
  BY DEF FilesInv
<1>2. outcomes' = outcomes \ xs /\ leaving' = leaving \cup FactsOf(xs)
      /\ files' = [f \in Files |-> IF f \in OwnCopies(xs) THEN 0 ELSE files[f]]
  BY DEF GoesOut
<1>3. \A i, f : HasFile(i, f)' <=> HasFile(i, f)
  BY DEF HasFile
<1>4. \A f \in In(Uploads) : (\A x \in xs : x.of # f) => files'[f] = files[f]
  BY <1>2, UploadsAre DEF OwnCopies
<1>5. DropsAreKept'
  <2>1. ASSUME NEW f \in In(Uploads), NEW x \in outcomes', NEW y \in outcomes', x.of = f, y.of = f
        PROVE  x = y /\ files'[f] > 0
    <3>1. x = y /\ files[f] > 0 /\ x \notin xs /\ \A z \in outcomes : z.of = f => z = x
      BY <1>2, <2>1 DEF Drops, DropsAreKept
    <3>2. files'[f] = files[f]
      BY <1>4, <3>1
    <3> QED BY <3>1, <3>2
  <2>2. ASSUME NEW f \in In(Uploads), NEW i \in Jobs \ {"retry"}, HasFile(i, f)
        PROVE  /\ files'[f] > 0 /\ \A x \in outcomes' : x.of # f
               /\ \A h \in Jobs \ {"retry", i} : ~HasFile(h, f)
    <3>1. /\ files[f] > 0 /\ \A x \in outcomes : x.of # f
          /\ \A h \in Jobs \ {"retry", i} : ~HasFile(h, f)
      BY <2>2 DEF Drops, DropsAreKept
    <3>2. files'[f] = files[f]
      BY <1>4, <3>1
    <3> QED BY <1>2, <3>1, <3>2
  <2> QED BY <1>3, <2>1, <2>2 DEF DropsAreKept
<1>6. RetriesInPlace' /\ ProblemsAreEmpty'
  BY <1>2 DEF Drops, RetriesInPlace, ProblemsAreEmpty, LoopFree
<1>7. \A k : InRows(k) => InRows(k)' \/ k.id \in leaving'
  BY <1>2 DEF InRows, FactsOf
<1>8. \A k : InHand(k) => InHand(k)'
  BY DEF InHand
<1>9. Accounted'
  BY <1>2, <1>7, <1>8 DEF Drops, Accounted
<1> QED BY <1>5, <1>6, <1>9 DEF Drops

LEMMA ForgetDrops ==
  ASSUME Drops, NEW id, ForgetFact(id)
  PROVE  Drops'
<1>1. /\ UNCHANGED <<files, outcomes, job>> /\ leaving' = leaving \ {id}
      /\ \/ spine' = {k \in spine : k.id # id} /\ cut' = cut
         \/ cut' = cut \cup {id} /\ spine' = spine
  BY DEF ForgetFact, tables
<1>2. DropsAreKept'
  <2>1. \A i, f : HasFile(i, f)' <=> HasFile(i, f)
    BY <1>1 DEF HasFile
  <2> QED BY <1>1, <2>1 DEF Drops, DropsAreKept
<1>3. RetriesInPlace' /\ ProblemsAreEmpty'
  BY <1>1 DEF Drops, RetriesInPlace, ProblemsAreEmpty
<1>4. \A k : (InRows(k) => InRows(k)') /\ (InHand(k) => InHand(k)')
  BY <1>1 DEF InRows, InHand
<1>5. Accounted'
  BY <1>1, <1>4 DEF Drops, Accounted
<1> QED BY <1>2, <1>3, <1>5 DEF Drops

LEMMA DropsStep ==
  ASSUME ~Sparse, FilesInv, Drops, [KnowledgeNext]_knowledgeVars
  PROVE  Drops'
<1>1. KnowledgeTypes
  BY DEF FilesInv
<1>2. ASSUME NEW f \in Files, SaveFile(f) \/ RemoveFile(f) PROVE Drops'
  <2>1. UNCHANGED <<outcomes, spine, cut, leaving, job>> /\ f.in \in Folders
    BY <1>2 DEF SaveFile, RemoveFile, tables
  <2>2. \A g \in In(Uploads) : g # f /\ g \in Files
    BY <2>1, UploadsAre
  <2>3. \A g \in In(Uploads) : files'[g] = files[g]
    BY <1>1, <1>2, <2>2 DEF SaveFile, RemoveFile, KnowledgeTypes
  <2> QED BY <2>1, <2>3, DropsStand
<1> DEFINE Aside == UNCHANGED <<outcomes, spine, cut, leaving, job, files>>
<1>3. Aside => Drops'
  BY DropsStand
<1>4. ASSUME Attach \/ LookAgain \/ HandOver PROVE Drops'
  <2>1. Aside
    BY <1>4 DEF Attach, LookAgain, HandOver, tables
  <2> QED BY <1>3, <2>1
<1>5. ASSUME NEW c \in Chats, ReadsNotice(c) \/ Acknowledges(c) PROVE Drops'
  <2>1. Aside
    BY <1>5 DEF ReadsNotice, Acknowledges, tables
  <2> QED BY <1>3, <2>1
<1>6. ASSUME UNCHANGED knowledgeVars PROVE Drops'
  <2>1. Aside
    BY <1>6 DEF knowledgeVars, tables
  <2> QED BY <1>3, <2>1
<1>7. ASSUME NEW j \in Jobs, Abandon(j) PROVE Drops'
  <2>1. /\ job' = [job EXCEPT ![j] = Resting] /\ cut' = cut \cup Held(j)
        /\ UNCHANGED <<files, outcomes, spine, leaving>>
    BY <1>7 DEF Abandon, tables
  <2>2. \A i \in Jobs : job'[i] = job[i] \/ (job'[i] = Resting /\ Held(i) \subseteq cut')
    BY <1>1, <2>1 DEF KnowledgeTypes
  <2> QED BY <2>1, <2>2, CutOff
<1>8. ASSUME NewRun PROVE Drops'
  <2>1. /\ job' = [j \in Jobs |-> Resting] /\ cut' = cut \cup leaving \cup UNION {Held(j) : j \in Jobs}
        /\ UNCHANGED <<files, outcomes, spine>>
    BY <1>8 DEF NewRun, tables
  <2>2. \A i \in Jobs : job'[i] = Resting /\ Held(i) \subseteq cut'
    BY <2>1
  <2> QED BY <2>1, <2>2, CutOff
<1>9. ASSUME NEW x \in outcomes, WithdrawFile(x) PROVE Drops'
  <2>1. LoopFree /\ {x} \in SUBSET outcomes /\ GoesOut({x}) /\ UNCHANGED <<spine, job, cut>>
    BY <1>9 DEF WithdrawFile
  <2> QED BY <2>1, WithdrawDrops
<1>10. ASSUME NEW r \in Roots, Withdraw(r) PROVE Drops'
  <2>1. PICK xs \in SUBSET outcomes : GoesOut(xs)
    BY <1>10 DEF Withdraw
  <2>2. LoopFree /\ UNCHANGED <<spine, job, cut>>
    BY <1>10 DEF Withdraw
  <2> QED BY <2>1, <2>2, WithdrawDrops
<1>11. ASSUME NEW id \in leaving, ForgetFact(id) PROVE Drops'
  BY <1>11, ForgetDrops
<1>12. ASSUME NEW j \in Jobs, Works(j) PROVE Drops'
  BY <1>12, ReadDrops, UpsertDrops, RecordDrops DEF Works
<1>13. ASSUME NEW j \in Streams, NEW scope \in Scopes, NEW r \in Folders, Scan(j, r, scope) PROVE Drops'
  BY <1>13, ScanDrops
<1>14. ASSUME NEW j \in Streams, NEW scope \in Scopes, NEW fs \in SUBSET In(Uploads), TakeIn(j, fs, scope)
       PROVE  Drops'
  BY <1>14, TakeInDrops
<1>15. ASSUME NEW r \in Folders, Rereads(r) \/ MarksGone(r) PROVE Drops'
  BY <1>15, RereadsDrops, MarksGoneDrops
<1>16. ASSUME NEW x \in outcomes, Retry(x) PROVE Drops'
  BY <1>16, RetryDrops
<1>17. ASSUME Replaced PROVE Drops'
  BY <1>17, ReplacedDrops
<1> HIDE DEF Aside
<1> QED
  BY <1>2, <1>4, <1>5, <1>6, <1>7, <1>8, <1>9, <1>10, <1>11, <1>12, <1>13, <1>14, <1>15, <1>16, <1>17
     DEF KnowledgeNext, Watches

LEMMA DropsStart == KnowledgeInit => Drops
<1> SUFFICES ASSUME KnowledgeInit PROVE Drops
  OBVIOUS
<1>1. outcomes = {} /\ spine = {} /\ \A j \in Jobs : job[j] = Resting /\ job[j].done = {} /\ job[j].at = "idle"
  BY DEF KnowledgeInit, Resting
<1>2. "retry" \in Jobs
  BY DEF Jobs
<1>3. DropsAreKept
  BY <1>1 DEF DropsAreKept, HasFile
<1> QED BY <1>1, <1>2, <1>3 DEF Drops, RetriesInPlace, ProblemsAreEmpty, Accounted

(* Where a problem file has no facts: once nothing is under way, every fact *)
(* of a dropped file is in a row, by which it can be taken back, or was cut *)
(* off by a mishap.                                                         *)
THEOREM DropsComeBack == ~Sparse => (KnowledgeSpec => []DropsCanBeTakenBack)
<1>1. Drops => DropsCanBeTakenBack
  <2> SUFFICES ASSUME Drops, Still, NEW k \in spine, k.of.in = Uploads
               PROVE  k.id \in FactsOf(outcomes) \cup cut
    BY DEF DropsCanBeTakenBack
  <2>1. leaving = {} /\ \A j \in Jobs : job[j].done = {}
    BY DEF Still, Resting
  <2> QED BY <2>1 DEF Drops, Accounted, InRows, InHand, FactsOf
<1> SUFFICES ASSUME ~Sparse PROVE KnowledgeSpec => []DropsCanBeTakenBack
  OBVIOUS
<1>2. FilesInv /\ Drops /\ [KnowledgeNext]_knowledgeVars => FilesInv' /\ Drops'
  BY FilesStep, DropsStep
<1> QED BY <1>1, <1>2, FilesStart, DropsStart, PTL DEF KnowledgeSpec
=============================================================================

------------------------- MODULE CallRecords_proofs -------------------------
(***************************************************************************)
(* Proofs about CallRecords, for any limit, any set of types and any       *)
(* number of records, whatever statements the database refuses or breaks   *)
(* off: an id below the limit names one record in the lists and in the     *)
(* table together, and every record that is shown below the limit has its  *)
(* row, apart from the ids with a row the lists do not know of and the     *)
(* records whose own INSERT was refused.  What is between the two steps of *)
(* a handler, or is lost there when the process ends, is part of the       *)
(* invariant.                                                              *)
(***************************************************************************)
EXTENDS CallRecords, FiniteSetTheorems, TLAPS

\* An id whose records the lists know all of.
Sound(id) == id < Limit /\ id \notin astray

Pending == IF work.op = "insert" THEN {work.record} ELSE {}

\* The lists, the table and the row that is being written.
Listed == ToSet(total) \cup InLists
Everywhere == Listed \cup store \cup Pending

Once(s) == \A i, j \in DOMAIN s : s[i] = s[j] => i = j

OnceInLists == Once(total) /\ \A t \in RecordType : Once(lists[t])

ListsOfType ==
  \A t \in RecordType : \A i \in DOMAIN lists[t] : lists[t][i].type = t

OneCallEach ==
  /\ \A a \in Everywhere : a.call <= calls
  /\ \A a, b \in Everywhere : a.call = b.call => a = b

\* The bit of a sound id is set as long as a record has the id.
IdsMarked == \A a \in Everywhere : Sound(a.id) => a.id \in id_mask

OneRecordEach == \A a, b \in Everywhere : a.id = b.id /\ Sound(a.id) => a = b

KeyedOnce == keyed => \A a, b \in store : a.id = b.id => a = b

\* Before its row is deleted, a record is in no list.
DeletedIsUnlisted ==
  work.op = "delete" /\ Sound(work.id) => \A a \in Listed : a.id # work.id

ListedIsStored ==
  \A a \in ToSet(total) : Sound(a.id) => a \in store \cup Pending \cup unwritten

Inv ==
  /\ TypeOK /\ IsFiniteSet(store)
  /\ OnceInLists /\ ListsOfType /\ OneCallEach /\ IdsMarked /\ OneRecordEach
  /\ KeyedOnce /\ DeletedIsUnlisted /\ ListedIsStored

-----------------------------------------------------------------------------
\* Sequences.

LEMMA Added ==
  ASSUME NEW S, NEW s \in Seq(S), NEW e \in S
  PROVE  /\ Append(s, e) \in Seq(S) /\ ToSet(Append(s, e)) = ToSet(s) \cup {e}
         /\ Once(s) /\ e \notin ToSet(s) => Once(Append(s, e))
<1> DEFINE new == Append(s, e)
<1>1. /\ new \in Seq(S) /\ Len(s) \in Nat /\ DOMAIN s = 1..Len(s)
      /\ DOMAIN new = 1..(Len(s) + 1) /\ new[Len(s) + 1] = e
      /\ \A i \in 1..Len(s) : new[i] = s[i]
      OBVIOUS
<1> HIDE DEF new
<1>2. \A i \in DOMAIN new : \/ i \in DOMAIN s /\ new[i] = s[i]
                            \/ i = Len(s) + 1 /\ new[i] = e
      BY ONLY <1>1
<1>3. /\ Len(s) + 1 \in DOMAIN new
      /\ \A i \in DOMAIN s : i \in DOMAIN new /\ new[i] = s[i]
      BY ONLY <1>1
<1>4. ToSet(new) = ToSet(s) \cup {e}
      BY <1>1, <1>2, <1>3 DEF ToSet
<1>5. Once(s) /\ e \notin ToSet(s) => Once(new)
      BY <1>2 DEF Once, ToSet
<1> QED BY <1>1, <1>4, <1>5 DEF new

LEMMA Limited ==
  ASSUME NEW S, NEW s \in Seq(S)
  PROVE  /\ Newest(s) \in Seq(S) /\ ToSet(Newest(s)) \subseteq ToSet(s)
         /\ Once(s) => Once(Newest(s))
<1>1. CASE Len(s) <= Limit
      BY <1>1, RecordsAssumption DEF Newest
<1>2. CASE Len(s) > Limit
  <2> DEFINE new == SubSeq(s, Len(s) - Limit + 1, Len(s))
  <2>1. Newest(s) = new
        BY <1>2 DEF Newest
  <2>2. /\ Len(s) \in Nat /\ DOMAIN s = 1..Len(s) /\ Limit \in Nat
        /\ Len(s) - Limit \in Nat
        BY <1>2, RecordsAssumption
  <2>3. /\ new \in Seq(S) /\ DOMAIN new = 1..Limit
        /\ \A i \in 1..Limit : new[i] = s[i + (Len(s) - Limit)]
        BY <1>2, <2>2
  <2> HIDE DEF new
  <2>4. \A i \in DOMAIN new : /\ i + (Len(s) - Limit) \in DOMAIN s
                              /\ new[i] = s[i + (Len(s) - Limit)]
        BY ONLY <2>2, <2>3
  <2>5. ToSet(new) \subseteq ToSet(s)
        BY <2>4 DEF ToSet
  <2>6. ASSUME Once(s) PROVE Once(new)
    <3> SUFFICES ASSUME NEW i \in DOMAIN new, NEW j \in DOMAIN new, new[i] = new[j]
                 PROVE  i = j
        BY DEF Once
    <3>1. i + (Len(s) - Limit) = j + (Len(s) - Limit)
          BY <2>4, <2>6 DEF Once
    <3> QED BY ONLY <2>2, <2>3, <3>1
  <2> QED BY <2>1, <2>3, <2>5, <2>6
<1> QED BY <1>1, <1>2, RecordsAssumption

LEMMA RemovedAt ==
  ASSUME NEW S, NEW s \in Seq(S), NEW n \in DOMAIN s
  PROVE  /\ RemoveAt(s, n) \in Seq(S) /\ ToSet(RemoveAt(s, n)) \subseteq ToSet(s)
         /\ Once(s) => Once(RemoveAt(s, n)) /\ s[n] \notin ToSet(RemoveAt(s, n))
<1> DEFINE front == SubSeq(s, 1, n - 1)
           back == SubSeq(s, n + 1, Len(s))
<1>1. /\ Len(s) \in Nat /\ DOMAIN s = 1..Len(s) /\ n \in 1..Len(s)
      OBVIOUS
<1>2. /\ front \in Seq(S) /\ Len(front) = n - 1
      /\ \A i \in 1..(n - 1) : front[i] = s[i]
      BY <1>1
<1>3. /\ back \in Seq(S) /\ Len(back) = Len(s) - n
      /\ \A i \in 1..(Len(s) - n) : back[i] = s[i + n]
  <2>1. CASE n = Len(s)
        BY <1>1, <2>1
  <2>2. CASE n < Len(s)
        BY <1>1, <2>2
  <2> QED BY <1>1, <2>1, <2>2
<1>4. RemoveAt(s, n) = front \o back
      BY DEF RemoveAt
<1> HIDE DEF front, back
<1>5. n - 1 \in Nat
      BY ONLY <1>1
<1>6. PICK new \in Seq(S) :
         /\ new = front \o back /\ DOMAIN new = 1..((n - 1) + Len(back))
         /\ \A i \in 1..(n - 1) : new[i] = front[i]
         /\ \A i \in 1..Len(back) : new[(n - 1) + i] = back[i]
  <2>1. PICK f \in Seq(S), g \in Seq(S) : f = front /\ g = back /\ Len(f) = n - 1
        BY <1>2, <1>3
  <2> DEFINE new == f \o g
  <2>2. /\ new \in Seq(S) /\ DOMAIN new = 1..(Len(f) + Len(g))
        /\ \A i \in 1..Len(f) : new[i] = f[i]
        /\ \A i \in 1..Len(g) : new[Len(f) + i] = g[i]
        BY ONLY f \in Seq(S), g \in Seq(S)
  <2>3. new = front \o back
        BY <2>1
  <2> HIDE DEF new
  <2> QED BY ZenonT(30), <2>1, <2>2, <2>3
<1>7. /\ DOMAIN new = 1..(Len(s) - 1)
      /\ \A i \in 1..(n - 1) : new[i] = s[i]
      /\ \A i \in n..(Len(s) - 1) : new[i] = s[i + 1]
  <2>1. \A i \in 1..(n - 1) : new[i] = s[i]
        BY ONLY <1>2, <1>6
  <2>2. (n - 1) + Len(back) = Len(s) - 1
        BY ONLY <1>1, <1>3
  <2>3. ASSUME NEW i \in n..(Len(s) - 1) PROVE new[i] = s[i + 1]
    <3>1. PICK k \in 1..(Len(s) - n) : i = (n - 1) + k /\ i + 1 = k + n
      <4> DEFINE k == i - (n - 1)
      <4>1. k \in 1..(Len(s) - n) /\ i = (n - 1) + k /\ i + 1 = k + n
            BY ONLY <1>1, i \in n..(Len(s) - 1)
      <4> HIDE DEF k
      <4> QED BY ONLY <4>1
    <3>2. new[(n - 1) + k] = back[k] /\ back[k] = s[k + n]
          BY <1>3, <1>6
    <3> QED BY ONLY <3>1, <3>2
  <2> QED BY ONLY <1>6, <2>1, <2>2, <2>3
<1> DEFINE from(i) == IF i < n THEN i ELSE i + 1
<1>8. \A i \in DOMAIN new : from(i) \in DOMAIN s /\ from(i) # n /\ new[i] = s[from(i)]
      BY ONLY <1>1, <1>7
<1>9. \A i, k \in DOMAIN new : from(i) = from(k) => i = k
      BY ONLY <1>1, <1>7
<1> HIDE DEF from
<1>10. ToSet(new) \subseteq ToSet(s)
       BY <1>8 DEF ToSet
<1>11. Once(s) => Once(new) /\ s[n] \notin ToSet(new)
       BY <1>8, <1>9 DEF Once, ToSet
<1> QED BY <1>4, <1>6, <1>10, <1>11

\* What the database gives back: all rows that were asked for, each once.
LEMMA OrderedIs ==
  ASSUME NEW rows \in SUBSET Record, IsFiniteSet(rows),
         \A a, b \in rows : ~Before(a, b) /\ ~Before(b, a) => a = b
  PROVE  /\ Ordered(rows) \in Seq(rows) /\ Once(Ordered(rows))
         /\ ToSet(Ordered(rows)) \subseteq rows
<1> DEFINE N == Cardinality(rows)
           below(x) == {r \in rows : Before(r, x)}
           rank == [x \in rows |-> Cardinality(below(x))]
<1>1. N \in Nat
      BY FS_CardinalityType
<1>2. /\ \A x \in rows : ~Before(x, x)
      /\ \A x, y, z \in rows : Before(x, y) /\ Before(y, z) => Before(x, z)
  <2>1. \A x \in rows : x.id \in Nat /\ x.call \in Nat
        BY RecordsAssumption DEF Record
  <2> QED BY <2>1 DEF Before
<1>3. \A x \in rows : /\ below(x) \subseteq rows /\ x \notin below(x)
                      /\ IsFiniteSet(below(x)) /\ Cardinality(below(x)) \in 0..(N - 1)
  <2> SUFFICES ASSUME NEW x \in rows
               PROVE  /\ below(x) \subseteq rows /\ x \notin below(x)
                      /\ IsFiniteSet(below(x)) /\ Cardinality(below(x)) \in 0..(N - 1)
      OBVIOUS
  <2>1. below(x) \subseteq rows /\ x \notin below(x) /\ below(x) # rows
        BY <1>2
  <2> HIDE DEF below
  <2>2. IsFiniteSet(below(x)) /\ Cardinality(below(x)) <= N /\ Cardinality(below(x)) # N
        BY <2>1, FS_Subset
  <2>3. Cardinality(below(x)) \in Nat
        BY <2>2, FS_CardinalityType
  <2> HIDE DEF N
  <2> QED BY <1>1, <2>1, <2>2, <2>3
<1>4. rank \in [rows -> 0..(N - 1)]
      BY <1>3
<1>5. \A x, y \in rows : x # y => rank[x] # rank[y]
  <2> SUFFICES ASSUME NEW x \in rows, NEW y \in rows, Before(x, y)
               PROVE  rank[x] # rank[y]
      OBVIOUS
  <2>1. below(x) \subseteq below(y) /\ x \in below(y) /\ x \notin below(x)
        BY <1>2
  <2>2. IsFiniteSet(below(y))
        BY <1>3
  <2> HIDE DEF below
  <2>3. Cardinality(below(x)) # Cardinality(below(y))
        BY <2>1, <2>2, FS_Subset
  <2> QED BY <2>3
<1>6. \A i \in 1..N : \E x \in rows : rank[x] = i - 1
  <2> HIDE DEF rank
  <2>1. rank \in Injection(rows, 0..(N - 1))
        BY <1>4, <1>5 DEF Injection, IsInjective
  <2>2. IsFiniteSet(0..(N - 1)) /\ Cardinality(0..(N - 1)) = N
        BY <1>1, FS_Interval
  <2>3. rank \in Surjection(rows, 0..(N - 1))
        BY <2>1, <2>2, FS_Injection
  <2>4. \A i \in 1..N : i - 1 \in 0..(N - 1)
        BY ONLY <1>1
  <2> QED BY <2>3, <2>4 DEF Surjection
<1> DEFINE all == Ordered(rows)
<1>7. all = [i \in 1..N |-> CHOOSE x \in rows : Cardinality(below(x)) = i - 1]
      BY DEF Ordered
<1>8. \A i \in 1..N : all[i] \in rows /\ Cardinality(below(all[i])) = i - 1
  <2> SUFFICES ASSUME NEW i \in 1..N
               PROVE  all[i] \in rows /\ Cardinality(below(all[i])) = i - 1
      OBVIOUS
  <2>1. \E x \in rows : Cardinality(below(x)) = i - 1
        BY <1>6
  <2> HIDE DEF below
  <2> QED BY <1>7, <2>1
<1>9. DOMAIN all = 1..N
      BY <1>7
<1> HIDE DEF all, below
<1>10. all \in Seq(rows)
       BY <1>1, <1>7, <1>8, <1>9
<1>11. Once(all)
  <2> SUFFICES ASSUME NEW i \in 1..N, NEW k \in 1..N, all[i] = all[k]
               PROVE  i = k
      BY <1>9 DEF Once
  <2>1. i - 1 = k - 1
        BY <1>8
  <2> QED BY ONLY <1>1, <2>1
<1>12. ToSet(all) \subseteq rows
       BY <1>8, <1>9 DEF ToSet
<1> QED BY <1>10, <1>11, <1>12 DEF all

-----------------------------------------------------------------------------
\* The invariant holds.

LEMMA InListsIs ==
  ASSUME TypeOK
  PROVE  /\ \A t \in RecordType : ToSet(lists[t]) \subseteq InLists
         /\ \A a \in InLists : \E t \in RecordType : a \in ToSet(lists[t])
BY DEF InLists

LEMMA Typed == TypeOK => Everywhere \subseteq Record
<1> SUFFICES ASSUME TypeOK PROVE Everywhere \subseteq Record
    OBVIOUS
<1>1. ToSet(total) \subseteq Record /\ \A t \in RecordType : ToSet(lists[t]) \subseteq Record
      BY DEF TypeOK, ToSet
<1>2. Pending \subseteq Record
      BY DEF TypeOK, Pending, Work, NoWork
<1> QED BY <1>1, <1>2, InListsIs DEF Everywhere, Listed, TypeOK

LEMMA InitInv == Init => Inv
<1> SUFFICES ASSUME Init PROVE Inv
    OBVIOUS
<1>1. /\ Pending = {} /\ store = {} /\ ToSet(total) = {}
      /\ \A t \in RecordType : lists[t] = <<>> /\ ToSet(lists[t]) = {}
      BY DEF Init, Pending, NoWork, ToSet
<1>2. InLists = {}
      BY <1>1 DEF InLists
<1>3. Everywhere = {} /\ Listed = {}
      BY <1>1, <1>2 DEF Everywhere, Listed
<1>4. TypeOK
      BY RecordsAssumption DEF Init, TypeOK, Work, NoWork
<1>5. IsFiniteSet(store)
      BY <1>1, FS_EmptySet
<1>6. OnceInLists /\ ListsOfType
      BY <1>1 DEF Init, OnceInLists, ListsOfType, Once
<1>7. DeletedIsUnlisted
      BY DEF Init, NoWork, DeletedIsUnlisted
<1> QED BY <1>1, <1>3, <1>4, <1>5, <1>6, <1>7
        DEF Inv, OneCallEach, IdsMarked, OneRecordEach, KeyedOnce, ListedIsStored

\* What is said of all records, when none has come.
LEMMA NoneCame ==
  ASSUME Inv, Everywhere' \subseteq Everywhere, calls' = calls, astray \subseteq astray'
  PROVE  OneCallEach' /\ OneRecordEach'
BY DEF Inv, OneCallEach, OneRecordEach, Sound

LEMMA SameMask ==
  ASSUME Inv, Everywhere' \subseteq Everywhere, id_mask' = id_mask, astray \subseteq astray'
  PROVE  IdsMarked'
BY DEF Inv, IdsMarked, Sound

LEMMA AddKeeps == ASSUME Inv, NEW type \in RecordType, AddRecord(type) PROVE Inv'
<1> PICK id \in FreeId : LET record == [call |-> calls + 1, id |-> id, type |-> type] IN
       /\ total' = Newest(Append(total, record))
       /\ lists' = [lists EXCEPT ![type] = Append(@, record)]
       /\ id_mask' = id_mask \cup {id}
       /\ work' = [op |-> "insert", record |-> record]
    BY DEF AddRecord
<1> DEFINE r0 == [call |-> calls + 1, id |-> id, type |-> type]
<1>1. /\ id \in 1..Limit /\ (id < Limit => id \notin id_mask)
      BY RecordsAssumption DEF FreeId, FirstFree
<1>2. /\ work = NoWork /\ calls < MaxCalls /\ calls \in 0..MaxCalls /\ calls' = calls + 1
      /\ UNCHANGED <<store, keyed, alive, astray, unwritten>>
      /\ astray \subseteq 1..Limit /\ unwritten \subseteq Record
      /\ total \in Seq(Record) /\ lists \in [RecordType -> Seq(Record)]
      /\ id_mask \subseteq 1..Limit /\ store \subseteq Record
      /\ keyed \in BOOLEAN /\ alive \in BOOLEAN
      BY DEF AddRecord, Inv, TypeOK
<1>3. calls + 1 \in 1..MaxCalls /\ calls' \in 0..MaxCalls
      BY <1>2, RecordsAssumption
<1>4. PICK r \in Record : r = r0 /\ r.call = calls + 1 /\ r.id = id /\ r.type = type
      BY <1>1, <1>3 DEF Record
<1>5. /\ total' = Newest(Append(total, r))
      /\ lists' = [lists EXCEPT ![type] = Append(@, r)]
      /\ id_mask' = id_mask \cup {id}
      /\ work' = [op |-> "insert", record |-> r]
      BY <1>4
<1> HIDE DEF r0
<1>6. PICK front \in Seq(Record) : front = Append(total, r)
  <2>1. Append(total, r) \in Seq(Record)
        BY <1>2
  <2> QED BY ONLY <2>1
<1>7. PICK back \in Seq(Record) : back = Append(lists[type], r)
  <2>1. lists[type] \in Seq(Record)
        BY <1>2
  <2>2. Append(lists[type], r) \in Seq(Record)
        BY <2>1
  <2> QED BY ONLY <2>2
<1>8. \A a \in Everywhere : a.call # r.call /\ (Sound(id) => a.id # id)
  <2>1. \A a \in Everywhere : a.call <= calls /\ (Sound(a.id) => a.id \in id_mask)
        BY DEF Inv, OneCallEach, IdsMarked
  <2>2. Sound(id) => id \notin id_mask
        BY <1>1 DEF Sound
  <2>3. \A a \in Everywhere : a.call \in Int
        BY Typed, RecordsAssumption DEF Inv, Record
  <2>4. \A a \in Everywhere : a.call # r.call
        BY <1>2, <1>4, <2>1, <2>3
  <2> QED BY <2>1, <2>2, <2>4
<1>9. r \notin Everywhere
      BY <1>8
<1>10. r \notin ToSet(total) /\ r \notin ToSet(lists[type])
       BY <1>9, InListsIs DEF Everywhere, Listed, Inv
<1>11. /\ ToSet(front) = ToSet(total) \cup {r} /\ Once(front)
       /\ ToSet(back) = ToSet(lists[type]) \cup {r} /\ Once(back)
       BY <1>2, <1>6, <1>7, <1>10, Added DEF Inv, OnceInLists
<1>12. /\ total' \in Seq(Record) /\ ToSet(total') \subseteq ToSet(front) /\ Once(total')
  <2>1. /\ Newest(front) \in Seq(Record) /\ ToSet(Newest(front)) \subseteq ToSet(front)
        /\ Once(Newest(front))
        BY <1>11, Limited
  <2>2. total' = Newest(front)
        BY <1>5, <1>6
  <2> QED BY ONLY <2>1, <2>2
<1>13. /\ lists' \in [RecordType -> Seq(Record)] /\ lists'[type] = back
       /\ \A t \in RecordType \ {type} : lists'[t] = lists[t]
       BY <1>2, <1>5, <1>7
<1>14. work' \in Work /\ Pending' = {r} /\ Pending = {}
       BY <1>2, <1>5 DEF Work, Pending, NoWork
<1>15. TypeOK'
  <2>1. id_mask' \subseteq 1..Limit
        BY <1>1, <1>2, <1>5
  <2> QED BY <1>2, <1>3, <1>12, <1>13, <1>14, <2>1 DEF TypeOK
<1>16. InLists' \subseteq InLists \cup {r}
       BY <1>11, <1>13, <1>15, InListsIs DEF InLists
<1>17. Everywhere' \subseteq Everywhere \cup {r}
       BY <1>2, <1>11, <1>12, <1>14, <1>16 DEF Everywhere, Listed
<1>18. IsFiniteSet(store') /\ KeyedOnce'
       BY <1>2 DEF Inv, KeyedOnce
<1>19. OnceInLists'
       BY <1>11, <1>12, <1>13 DEF Inv, OnceInLists
<1>20. ListsOfType'
  <2> SUFFICES ASSUME NEW t \in RecordType, NEW i \in DOMAIN lists'[t]
               PROVE  lists'[t][i].type = t
      BY DEF ListsOfType
  <2>1. CASE t = type
    <3>1. back[i] \in ToSet(lists[type]) \cup {r}
          BY <1>11, <1>13, <2>1 DEF ToSet
    <3>2. \A a \in ToSet(lists[type]) : a.type = type
          BY DEF Inv, ListsOfType, ToSet
    <3> QED BY <1>4, <1>13, <2>1, <3>1, <3>2
  <2>2. CASE t # type
        BY <1>13, <2>2 DEF Inv, ListsOfType
  <2> QED BY <2>1, <2>2
<1>21. OneCallEach'
  <2>1. \A a \in Everywhere : a.call <= calls'
    <3>1. \A a \in Everywhere : a.call \in Nat /\ a.call <= calls
          BY Typed, RecordsAssumption DEF Inv, OneCallEach, Record
    <3> QED BY <1>2, <3>1
  <2>2. r.call <= calls'
        BY <1>2, <1>4
  <2>3. \A a, b \in Everywhere : a.call = b.call => a = b
        BY DEF Inv, OneCallEach
  <2> QED BY <1>8, <1>17, <2>1, <2>2, <2>3 DEF OneCallEach
<1>22. IdsMarked'
  <2>1. \A a \in Everywhere : Sound(a.id) => a.id \in id_mask
        BY DEF Inv, IdsMarked
  <2> QED BY <1>2, <1>4, <1>5, <1>17, <2>1 DEF IdsMarked, Sound
<1>23. OneRecordEach'
  <2>1. \A a, b \in Everywhere : a.id = b.id /\ Sound(a.id) => a = b
        BY DEF Inv, OneRecordEach
  <2>2. \A k : Sound(k)' <=> Sound(k)
        BY <1>2 DEF Sound
  <2> QED BY <1>4, <1>8, <1>17, <2>1, <2>2 DEF OneRecordEach
<1>24. DeletedIsUnlisted'
       BY <1>5 DEF DeletedIsUnlisted
<1>25. ListedIsStored'
  <2>1. \A a \in ToSet(total) : Sound(a.id) => a \in store \cup unwritten
        BY <1>14 DEF Inv, ListedIsStored
  <2> QED BY <1>2, <1>11, <1>12, <1>14, <2>1 DEF ListedIsStored, Sound
<1> QED BY <1>15, <1>18, <1>19, <1>20, <1>21, <1>22, <1>23, <1>24, <1>25 DEF Inv

LEMMA InsertKeeps == ASSUME Inv, DatastoreInsert PROVE Inv'
<1>1. /\ work.op = "insert" /\ work \in Work /\ work' = NoWork
      /\ UNCHANGED <<total, lists, id_mask, keyed, alive, calls, astray>>
      /\ store \subseteq Record /\ unwritten \subseteq Record
      BY DEF DatastoreInsert, Inv, TypeOK
<1>2. PICK r \in Record : r = work.record
      BY <1>1 DEF Work, NoWork
<1>3. Pending = {r} /\ Pending' = {}
      BY <1>1, <1>2 DEF Pending, NoWork
<1>4. Trimmed(work.record.id) = store
  <2>1. r.id \in 1..Limit
        BY DEF Record
  <2>2. 1..(r.id - Limit) = {}
        BY <2>1, RecordsAssumption
  <2> QED BY <1>2, <2>2 DEF Trimmed
<1>5. \/ /\ keyed /\ store' = store /\ unwritten' = unwritten
         /\ \E row \in store : row.id = r.id
      \/ /\ ~(keyed /\ \E row \in store : row.id = r.id)
         /\ store' = store \cup {r} /\ unwritten' = unwritten
      \/ store' = store /\ unwritten' = unwritten \cup {r}
      BY <1>2, <1>4 DEF DatastoreInsert
<1>6. r \in Everywhere /\ store \subseteq Everywhere
      BY <1>3 DEF Everywhere
<1>7. Sound(r.id) => r \in store' \cup unwritten'
      BY <1>5, <1>6 DEF Inv, OneRecordEach
<1>8. /\ store \subseteq store' /\ store' \subseteq store \cup {r}
      /\ unwritten \subseteq unwritten' /\ unwritten' \subseteq Record
      BY <1>1, <1>5
<1>9. TypeOK'
      BY <1>1, <1>2, <1>8 DEF Inv, TypeOK, Work
<1>10. IsFiniteSet(store')
       BY <1>5, FS_AddElement DEF Inv
<1>11. InLists' = InLists /\ Listed' = Listed
       BY <1>1 DEF InLists, Listed
<1>12. Everywhere' \subseteq Everywhere
       BY <1>3, <1>8, <1>11 DEF Everywhere
<1>13. OneCallEach' /\ OneRecordEach' /\ IdsMarked'
       BY <1>1, <1>12, NoneCame, SameMask
<1>14. OnceInLists' /\ ListsOfType'
       BY <1>1 DEF Inv, OnceInLists, ListsOfType
<1>15. KeyedOnce'
       BY <1>1, <1>5 DEF Inv, KeyedOnce
<1>16. DeletedIsUnlisted'
       BY <1>1 DEF DeletedIsUnlisted, NoWork
<1>17. ListedIsStored'
       BY <1>1, <1>3, <1>7, <1>8 DEF Inv, ListedIsStored, Sound
<1> QED BY <1>9, <1>10, <1>13, <1>14, <1>15, <1>16, <1>17 DEF Inv

\* The record of the request leaves both lists.
LEMMA PopKeeps ==
  ASSUME Inv, NEW type \in RecordType, NEW i \in DOMAIN total,
         NEW j \in DOMAIN lists[type], lists[type][j] = total[i],
         PopBoth(i, type, j), work = NoWork,
         work' = [op |-> "delete", id |-> total[i].id],
         UNCHANGED <<id_mask, store, keyed, alive, calls, astray, unwritten>>
  PROVE  Inv'
<1>1. /\ total \in Seq(Record) /\ lists \in [RecordType -> Seq(Record)]
      /\ lists[type] \in Seq(Record)
      BY DEF Inv, TypeOK
<1>2. PICK r \in Record : r = total[i] /\ r = lists[type][j]
      BY <1>1
<1>3. r \in Everywhere /\ r.type = type
      BY <1>2, InListsIs DEF Everywhere, Listed, ToSet, Inv, ListsOfType
<1>4. PICK front \in Seq(Record) :
         /\ total' = front /\ ToSet(front) \subseteq ToSet(total)
         /\ Once(front) /\ r \notin ToSet(front)
  <2>1. /\ RemoveAt(total, i) \in Seq(Record)
        /\ ToSet(RemoveAt(total, i)) \subseteq ToSet(total)
        /\ Once(RemoveAt(total, i)) /\ total[i] \notin ToSet(RemoveAt(total, i))
        BY <1>1, RemovedAt DEF Inv, OnceInLists
  <2>2. total' = RemoveAt(total, i)
        BY DEF PopBoth
  <2> QED BY ONLY <1>2, <2>1, <2>2
<1>5. PICK back \in Seq(Record) :
         /\ lists' = [lists EXCEPT ![type] = back] /\ ToSet(back) \subseteq ToSet(lists[type])
         /\ Once(back) /\ r \notin ToSet(back)
  <2>1. /\ RemoveAt(lists[type], j) \in Seq(Record)
        /\ ToSet(RemoveAt(lists[type], j)) \subseteq ToSet(lists[type])
        /\ Once(RemoveAt(lists[type], j))
        /\ lists[type][j] \notin ToSet(RemoveAt(lists[type], j))
        BY <1>1, RemovedAt DEF Inv, OnceInLists
  <2>2. lists' = [lists EXCEPT ![type] = RemoveAt(lists[type], j)]
        BY DEF PopBoth
  <2> QED BY ONLY <1>2, <2>1, <2>2
<1>6. /\ lists' \in [RecordType -> Seq(Record)] /\ lists'[type] = back
      /\ \A t \in RecordType \ {type} : lists'[t] = lists[t]
      BY <1>1, <1>5
<1>7. Pending = {} /\ Pending' = {}
      BY DEF Pending, NoWork
<1>8. TypeOK'
  <2>1. work' \in Work
        BY <1>2 DEF Work, Record
  <2> QED BY <1>4, <1>6, <2>1 DEF Inv, TypeOK
<1>9. IsFiniteSet(store') /\ KeyedOnce'
      BY DEF Inv, KeyedOnce
<1>10. InLists' \subseteq InLists
       BY <1>5, <1>6, <1>8, InListsIs DEF InLists
<1>11. Listed' \subseteq Listed /\ Everywhere' \subseteq Everywhere
       BY <1>4, <1>7, <1>10 DEF Listed, Everywhere
<1>12. OneCallEach' /\ OneRecordEach' /\ IdsMarked'
       BY <1>11, NoneCame, SameMask
<1>13. OnceInLists'
       BY <1>4, <1>5, <1>6 DEF Inv, OnceInLists
<1>14. \A t \in RecordType : \A a \in ToSet(lists'[t]) : a.type = t /\ a # r
  <2> SUFFICES ASSUME NEW t \in RecordType, NEW a \in ToSet(lists'[t])
               PROVE  a.type = t /\ a # r
      OBVIOUS
  <2>1. \A u \in RecordType : \A b \in ToSet(lists[u]) : b.type = u
        BY DEF Inv, ListsOfType, ToSet
  <2>2. CASE t = type
        BY <1>5, <1>6, <2>1, <2>2
  <2>3. CASE t # type
        BY <1>3, <1>6, <2>1, <2>3
  <2> QED BY <2>2, <2>3
<1>15. ListsOfType'
       BY <1>14 DEF ListsOfType, ToSet
<1>16. r \notin Listed'
       BY <1>4, <1>8, <1>14, InListsIs DEF Listed, InLists
<1>17. DeletedIsUnlisted'
  <2>1. \A a \in Everywhere : a.id = r.id /\ Sound(r.id) => a = r
        BY <1>3 DEF Inv, OneRecordEach
  <2>2. work'.id = r.id
        BY <1>2
  <2>3. Listed' \subseteq Everywhere
        BY <1>11 DEF Everywhere
  <2> QED BY <1>16, <2>1, <2>2, <2>3 DEF DeletedIsUnlisted, Sound
<1>18. ListedIsStored'
       BY <1>4, <1>7 DEF Inv, ListedIsStored, Sound
<1> QED BY <1>8, <1>9, <1>12, <1>13, <1>15, <1>17, <1>18 DEF Inv

LEMMA DeleteFromTotalKeeps ==
  ASSUME Inv, NEW id \in 1..Limit, DeleteFromTotal(id) PROVE Inv'
<1>1. PICK i \in First(total, id) :
         LET type == total[i].type IN
         \E j \in DOMAIN lists[type] : lists[type][j] = total[i] /\ PopBoth(i, type, j)
      BY DEF DeleteFromTotal
<1>2. i \in DOMAIN total /\ total[i].id = id
      BY DEF First
<1>3. PICK type \in RecordType : type = total[i].type
  <2>1. total[i] \in Record
        BY <1>2 DEF Inv, TypeOK
  <2> QED BY <2>1 DEF Record
<1>4. PICK j \in DOMAIN lists[type] : lists[type][j] = total[i] /\ PopBoth(i, type, j)
      BY <1>1, <1>3
<1>5. /\ work = NoWork /\ work' = [op |-> "delete", id |-> total[i].id]
      /\ UNCHANGED <<id_mask, store, keyed, alive, calls, astray, unwritten>>
      BY <1>2 DEF DeleteFromTotal
<1> QED BY <1>2, <1>4, <1>5, PopKeeps

LEMMA DeleteFromTypeKeeps ==
  ASSUME Inv, NEW type \in RecordType, NEW id \in 1..Limit, DeleteFromType(type, id)
  PROVE  Inv'
<1>1. PICK j \in First(lists[type], id) :
       \/ /\ \E i \in DOMAIN total : total[i] = lists[type][j] /\ PopBoth(i, type, j)
          /\ work' = [op |-> "delete", id |-> id]
          /\ UNCHANGED alive
       \/ /\ \A i \in DOMAIN total : total[i] # lists[type][j]
          /\ alive' = FALSE
          /\ UNCHANGED <<total, lists, work>>
      BY DEF DeleteFromType
<1>2. j \in DOMAIN lists[type] /\ lists[type][j].id = id
      BY DEF First
<1>3. work = NoWork /\ UNCHANGED <<id_mask, store, keyed, calls, astray, unwritten>>
      BY DEF DeleteFromType
<1>4. CASE /\ \E i \in DOMAIN total : total[i] = lists[type][j] /\ PopBoth(i, type, j)
           /\ work' = [op |-> "delete", id |-> id]
           /\ UNCHANGED alive
  <2>1. PICK i \in DOMAIN total : total[i] = lists[type][j] /\ PopBoth(i, type, j)
        BY <1>4
  <2>2. work' = [op |-> "delete", id |-> total[i].id]
        BY <1>2, <1>4, <2>1
  <2> QED BY <1>2, <1>3, <1>4, <2>1, <2>2, PopKeeps
<1>5. CASE alive' = FALSE /\ UNCHANGED <<total, lists, work>>
  <2>1. InLists' = InLists /\ Listed' = Listed /\ Pending' = Pending
        BY <1>5 DEF InLists, Listed, Pending
  <2>2. Everywhere' = Everywhere
        BY <1>3, <2>1 DEF Everywhere
  <2>3. OneCallEach' /\ OneRecordEach' /\ IdsMarked'
        BY <1>3, <2>2, NoneCame, SameMask
  <2>4. TypeOK' /\ IsFiniteSet(store')
        BY <1>3, <1>5 DEF Inv, TypeOK
  <2>5. OnceInLists' /\ ListsOfType' /\ KeyedOnce'
        BY <1>3, <1>5 DEF Inv, OnceInLists, ListsOfType, KeyedOnce
  <2>6. DeletedIsUnlisted' /\ ListedIsStored'
        BY <1>3, <1>5, <2>1 DEF Inv, DeletedIsUnlisted, ListedIsStored, Sound
  <2> QED BY <2>3, <2>4, <2>5, <2>6 DEF Inv
<1> QED BY <1>1, <1>4, <1>5

LEMMA DatastoreDeleteKeeps == ASSUME Inv, DatastoreDelete PROVE Inv'
<1>1. /\ work.op = "delete" /\ work' = NoWork
      /\ \/ store' = {row \in store : row.id # work.id} /\ astray' = astray
         \/ store' = store /\ astray' = astray \cup {work.id}
      /\ id_mask' = id_mask \ {work.id}
      /\ UNCHANGED <<total, lists, keyed, alive, calls, unwritten>>
      /\ work.id \in 1..Limit
      BY DEF DatastoreDelete, Inv, TypeOK, Work, NoWork
<1>2. Pending = {} /\ Pending' = {}
      BY <1>1 DEF Pending, NoWork
<1>3. InLists' = InLists /\ Listed' = Listed
      BY <1>1 DEF InLists, Listed
<1>4. /\ store' \subseteq store /\ Everywhere' \subseteq Everywhere
      /\ astray \subseteq astray'
      BY <1>1, <1>2, <1>3 DEF Everywhere
<1>5. IsFiniteSet(store')
      BY <1>4, FS_Subset DEF Inv
<1>6. TypeOK'
      BY <1>1, <1>4 DEF Inv, TypeOK, Work
<1>7. OneCallEach' /\ OneRecordEach'
      BY <1>1, <1>4, NoneCame
<1>8. IdsMarked'
  <2>1. \A a \in Everywhere : Sound(a.id) => a.id \in id_mask
        BY DEF Inv, IdsMarked
  <2>2. \A a \in Everywhere' : Sound(a.id)' => a.id # work.id
    <3>1. \A a \in Listed : Sound(work.id) => a.id # work.id
          BY <1>1 DEF Inv, DeletedIsUnlisted
    <3>2. CASE store' = {row \in store : row.id # work.id} /\ astray' = astray
          BY <1>2, <1>3, <3>1, <3>2 DEF Everywhere, Sound
    <3>3. CASE astray' = astray \cup {work.id}
          BY <3>3 DEF Sound
    <3> QED BY <1>1, <3>2, <3>3
  <2>3. \A a \in Everywhere' : Sound(a.id)' => a.id \in id_mask /\ a.id # work.id
        BY <1>4, <2>1, <2>2 DEF Sound
  <2> QED BY <1>1, <2>3 DEF IdsMarked
<1>9. OnceInLists' /\ ListsOfType' /\ KeyedOnce'
      BY <1>1, <1>4 DEF Inv, OnceInLists, ListsOfType, KeyedOnce
<1>10. DeletedIsUnlisted'
       BY <1>1 DEF DeletedIsUnlisted, NoWork
<1>11. ListedIsStored'
  <2>1. \A a \in ToSet(total) : Sound(a.id) => a \in store \cup unwritten /\ a.id # work.id
        BY <1>1, <1>2 DEF Inv, ListedIsStored, DeletedIsUnlisted, Listed
  <2> QED BY <1>1, <1>4, <2>1 DEF ListedIsStored, Sound
<1> QED BY <1>5, <1>6, <1>7, <1>8, <1>9, <1>10, <1>11 DEF Inv

LEMMA RestartKeeps == ASSUME Inv, Restart PROVE Inv'
<1>0. PICK read \in SUBSET store :
         /\ total' = Ordered(read)
         /\ lists' = [t \in RecordType |-> Ordered({row \in read : row.type = t})]
         /\ id_mask' = {row.id : row \in read}
         /\ astray' = {row.id : row \in store \ read} \cup
              {id \in astray : \E a, b \in store : a # b /\ a.id = id /\ b.id = id}
      BY DEF Restart, ReadBack, BitsOfRows
<1>1. /\ work' = NoWork /\ alive' = TRUE /\ unwritten' = {}
      /\ UNCHANGED <<store, keyed, calls>>
      /\ store \subseteq Record /\ IsFiniteSet(store) /\ astray \subseteq 1..Limit
      BY DEF Restart, Inv, TypeOK
<1>2. \A a, b \in store : ~Before(a, b) /\ ~Before(b, a) => a = b
  <2>1. \A a \in store : a.id \in Nat /\ a.call \in Nat
        BY <1>1, RecordsAssumption DEF Record
  <2>2. \A a, b \in store : (keyed /\ a.id = b.id) \/ a.call = b.call => a = b
        BY DEF Inv, KeyedOnce, OneCallEach, Everywhere
  <2> QED BY <2>1, <2>2 DEF Before
<1>3. ASSUME NEW rows \in SUBSET store
      PROVE  /\ Ordered(rows) \in Seq(rows) /\ Once(Ordered(rows))
             /\ ToSet(Ordered(rows)) \subseteq rows
  <2>1. IsFiniteSet(rows) /\ rows \in SUBSET Record
        BY <1>1, FS_Subset
  <2>2. \A a, b \in rows : ~Before(a, b) /\ ~Before(b, a) => a = b
        BY <1>2
  <2> QED BY <2>1, <2>2, OrderedIs
<1>4. total' \in Seq(Record) /\ Once(total') /\ ToSet(total') \subseteq read
      BY <1>0, <1>1, <1>3
<1>5. \A t \in RecordType :
        /\ lists'[t] \in Seq(Record) /\ Once(lists'[t])
        /\ ToSet(lists'[t]) \subseteq {row \in read : row.type = t}
  <2> SUFFICES ASSUME NEW t \in RecordType
               PROVE  /\ lists'[t] \in Seq(Record) /\ Once(lists'[t])
                      /\ ToSet(lists'[t]) \subseteq {row \in read : row.type = t}
      OBVIOUS
  <2>1. PICK rows \in SUBSET store : rows = {row \in read : row.type = t}
        OBVIOUS
  <2>2. lists'[t] = Ordered(rows)
        BY <1>0, <2>1
  <2> QED BY <1>1, <1>3, <2>1, <2>2
<1>6. TypeOK'
  <2>1. lists' \in [RecordType -> Seq(Record)]
        BY <1>0, <1>1, <1>5
  <2>2. id_mask' \subseteq 1..Limit /\ astray' \subseteq 1..Limit
        BY <1>0, <1>1 DEF Record
  <2> QED BY <1>1, <1>4, <2>1, <2>2 DEF Inv, TypeOK, Work
<1>7. Pending' = {}
      BY <1>1 DEF Pending, NoWork
<1>8. InLists' \subseteq read
      BY <1>5, <1>6, InListsIs DEF InLists
<1>9. Listed' \subseteq read /\ Everywhere' \subseteq store
      BY <1>1, <1>4, <1>7, <1>8 DEF Listed, Everywhere
<1>10. Everywhere' \subseteq Everywhere
       BY <1>9 DEF Everywhere
<1>11. OneCallEach'
       BY <1>1, <1>10 DEF Inv, OneCallEach
<1>12. OneRecordEach'
  <2> SUFFICES ASSUME NEW a \in store, NEW b \in store, a.id = b.id, Sound(a.id)', a # b
               PROVE  FALSE
      BY <1>9 DEF OneRecordEach
  <2>1. a.id < Limit /\ a.id \notin astray'
        BY DEF Sound
  <2>2. a.id \notin astray
        BY <1>0, <2>1
  <2> QED BY <2>1, <2>2 DEF Inv, OneRecordEach, Everywhere, Sound
<1>12a. IdsMarked'
  <2>1. \A a \in store : Sound(a.id)' => a \in read
        BY <1>0 DEF Sound
  <2> QED BY <1>0, <1>9, <2>1 DEF IdsMarked
<1>13. OnceInLists'
       BY <1>4, <1>5 DEF OnceInLists
<1>14. ListsOfType'
       BY <1>5 DEF ListsOfType, ToSet
<1>15. KeyedOnce' /\ IsFiniteSet(store')
       BY <1>1 DEF Inv, KeyedOnce
<1>16. DeletedIsUnlisted' /\ ListedIsStored'
       BY <1>1, <1>4 DEF DeletedIsUnlisted, ListedIsStored, NoWork
<1> QED BY <1>6, <1>11, <1>12, <1>12a, <1>13, <1>14, <1>15, <1>16 DEF Inv

LEMMA StutterKeeps == ASSUME Inv, UNCHANGED vars PROVE Inv'
<1>1. InLists' = InLists /\ Listed' = Listed /\ Pending' = Pending
      BY DEF vars, InLists, Listed, Pending
<1>2. Everywhere' = Everywhere
      BY <1>1 DEF vars, Everywhere
<1>3. OneCallEach' /\ OneRecordEach' /\ IdsMarked'
      BY <1>2, NoneCame, SameMask DEF vars
<1>4. TypeOK' /\ IsFiniteSet(store')
      BY DEF Inv, TypeOK, vars
<1>5. OnceInLists' /\ ListsOfType' /\ KeyedOnce'
      BY DEF Inv, OnceInLists, ListsOfType, KeyedOnce, vars
<1>6. DeletedIsUnlisted' /\ ListedIsStored'
      BY <1>1 DEF Inv, DeletedIsUnlisted, ListedIsStored, Sound, vars
<1> QED BY <1>3, <1>4, <1>5, <1>6 DEF Inv

\* The invariant is inductive (voice_core.c:366-379, 440-480, 640-660, 760-780;
\* voice_datastore.c:54-214).
THEOREM InvCorrect == Spec => []Inv
<1>1. Inv /\ [Next]_vars => Inv'
  <2> SUFFICES ASSUME Inv, [Next]_vars PROVE Inv'
      OBVIOUS
  <2>1. CASE \E type \in RecordType : AddRecord(type)
        BY <2>1, AddKeeps
  <2>2. CASE DatastoreInsert
        BY <2>2, InsertKeeps
  <2>3. CASE \E id \in 1..Limit : DeleteFromTotal(id)
        BY <2>3, DeleteFromTotalKeeps
  <2>4. CASE \E type \in RecordType, id \in 1..Limit : DeleteFromType(type, id)
        BY <2>4, DeleteFromTypeKeeps
  <2>5. CASE DatastoreDelete
        BY <2>5, DatastoreDeleteKeeps
  <2>6. CASE Restart
        BY <2>6, RestartKeeps
  <2>7. CASE UNCHANGED vars
        BY <2>7, StutterKeeps
  <2> QED BY <2>1, <2>2, <2>3, <2>4, <2>5, <2>6, <2>7 DEF Next
<1> QED BY <1>1, InitInv, PTL DEF Spec

\* No record has an id past the limit, and no bit past the mask is set
\* (voice_core.c:373-377).
THEOREM TypeCorrect == Spec => []TypeOK
<1>1. Inv => TypeOK
      BY DEF Inv
<1> QED BY <1>1, InvCorrect, PTL

\* An id below the limit names one record, in the lists and in the table
\* together, unless the database kept back a row of this id
\* (voice_core.c:373-379, 645, 770).
THEOREM UniqueCorrect == Spec => []UniqueBelowLimit
<1>1. Inv => UniqueBelowLimit
      BY DEF Inv, OneRecordEach, Everywhere, Listed, Sound, UniqueBelowLimit
<1> QED BY <1>1, InvCorrect, PTL

\* Between two handlers every record that is shown below the limit has its row,
\* unless its own INSERT was refused or the database kept back a row of its id
\* (voice_core.c:473, voice_datastore.c:54).
THEOREM ShownIsStoredCorrect == Spec => []ShownIsStored
<1>1. Inv => ShownIsStored
      BY DEF Inv, ListedIsStored, Pending, NoWork, Sound, ShownIsStored
<1> QED BY <1>1, InvCorrect, PTL
=============================================================================

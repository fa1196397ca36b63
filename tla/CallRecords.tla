----------------------------- MODULE CallRecords -----------------------------
(***************************************************************************)
(* The call records of the voice module: a list of all records, one list   *)
(* for each type that points into it, a bit mask of the ids in use, and    *)
(* the table CallRecord of the database (src/module/voice/voice_core.c and *)
(* voice_datastore.c).  Records are added when a call ends, deleted on     *)
(* request by the id and the list they are shown in, and read back when    *)
(* the process starts.                                                     *)
(*                                                                         *)
(* All of it runs in the voice thread.  The lists are changed before the   *)
(* table, and the process may die between the two.  The database may       *)
(* refuse any statement or break it off, and no caller looks at its        *)
(* answer.  A record is the number of its call, its id and its type;       *)
(* contact, date and duration are left out.  The schema of the table is    *)
(* not in the repository: ID is its key or it is not.                      *)
(***************************************************************************)
EXTENDS Integers, Sequences, FiniteSets, SequencesExt

CONSTANTS
  Limit,       \* JRD_VOICE_RECORD_MAX_NUM
  RecordType,  \* INCOMING, OUTGOING, MISSED
  MaxCalls     \* bound: records ever added

ASSUME RecordsAssumption == Limit \in Nat \ {0, 1} /\ MaxCalls \in Nat

VARIABLES
  total,    \* g_voice_data.total
  lists,    \* g_voice_data.missed, incoming and outgoing
  id_mask,  \* the ids whose bit is set
  store,    \* the rows of CallRecord
  keyed,    \* whether ID is the key of CallRecord
  work,     \* what the handler still has to do in the database
  alive,    \* FALSE once the process has died
  calls,    \* how many records were added
  astray,   \* history: the ids that have a row the lists do not know of, a
            \* row whose DELETE was refused or that was not read back
  unwritten \* history: the records whose INSERT was refused

vars == <<total, lists, id_mask, store, keyed, work, alive, calls, astray, unwritten>>

Record == [call : 1..MaxCalls, id : 1..Limit, type : RecordType]
NoWork == [op |-> "none"]
Work == {NoWork} \cup [op : {"insert"}, record : Record]
                 \cup [op : {"delete"}, id : 1..Limit]

\* Every variable has its type: in particular no id passes the limit, which
\* :373-377 has to see to and on which the size of the mask depends.
TypeOK ==
  /\ total \in Seq(Record) /\ lists \in [RecordType -> Seq(Record)]
  /\ id_mask \subseteq 1..Limit
  /\ store \subseteq Record /\ keyed \in BOOLEAN
  /\ work \in Work /\ alive \in BOOLEAN /\ calls \in 0..MaxCalls
  /\ astray \subseteq 1..Limit /\ unwritten \subseteq Record

Init ==
  /\ total = <<>> /\ lists = [t \in RecordType |-> <<>>]
  /\ id_mask = {} /\ store = {} /\ keyed \in BOOLEAN
  /\ work = NoWork /\ alive = TRUE /\ calls = 0
  /\ astray = {} /\ unwritten = {}

-----------------------------------------------------------------------------
\* jan_voice_core_add_record_to_list

FirstFree(last) == {k \in 1..last : /\ k \notin id_mask \/ k = last
                                    /\ \A j \in 1..(k - 1) : j \in id_mask}

\* The search stops one later.
FreeIdPastLimit == FirstFree(Limit + 1)
\* The least id whose bit is clear; when there is none below the limit, the
\* limit, whose bit may be set.
FreeId == FirstFree(Limit)

\* jan_voice_core_record_limit: the front of the list of all records only.
Newest(s) == IF Len(s) > Limit THEN SubSeq(s, Len(s) - Limit + 1, Len(s)) ELSE s

AddRecord(type) ==
  /\ alive /\ work = NoWork /\ calls < MaxCalls
  /\ \E id \in FreeId :
       LET record == [call |-> calls + 1, id |-> id, type |-> type] IN
       /\ total' = Newest(Append(total, record))
       /\ lists' = [lists EXCEPT ![type] = Append(@, record)]
       /\ id_mask' = id_mask \cup {id}
       /\ work' = [op |-> "insert", record |-> record]
  /\ calls' = calls + 1
  /\ UNCHANGED <<store, keyed, alive, astray, unwritten>>

\* jan_voice_datastore_limit, with its test one off, and as it is.
TrimmedAtLimit(id) == {row \in store : row.id \notin 1..(id - Limit + 1)}
Trimmed(id) == {row \in store : row.id \notin 1..(id - Limit)}

\* jan_voice_datastore_insert.  The database refuses a second row with the same
\* key, and may refuse any other; nobody looks at its answer.
DatastoreInsert ==
  /\ alive /\ work.op = "insert"
  /\ LET rows == Trimmed(work.record.id)
         taken == keyed /\ \E row \in rows : row.id = work.record.id IN
       \/ /\ store' = IF taken THEN rows ELSE rows \cup {work.record}
          /\ UNCHANGED unwritten
       \/ /\ ~taken /\ store' = rows
          /\ unwritten' = unwritten \cup {work.record}
  /\ work' = NoWork
  /\ UNCHANGED <<total, lists, id_mask, keyed, alive, calls, astray>>

-----------------------------------------------------------------------------
\* jan_voice_core_delete_record_from_list, once for each id of the request

First(list, id) == {i \in DOMAIN list : /\ list[i].id = id
                                        /\ \A j \in 1..(i - 1) : list[j].id # id}

\* Popped from the list of all records, and from that of a type.
PopBoth(i, type, j) ==
  /\ total' = RemoveAt(total, i)
  /\ lists' = [lists EXCEPT ![type] = RemoveAt(@, j)]

\* From the list of all records: its node in the list of its type is found by
\* the address of the node.
DeleteFromTotal(id) ==
  /\ alive /\ work = NoWork
  /\ \E i \in First(total, id) :
       LET type == total[i].type IN
       \E j \in DOMAIN lists[type] : lists[type][j] = total[i] /\ PopBoth(i, type, j)
  /\ work' = [op |-> "delete", id |-> id]
  /\ UNCHANGED <<id_mask, store, keyed, alive, calls, astray, unwritten>>

\* From the list of a type: the node it points to is taken out of the list of
\* all records.  A node that jan_voice_core_record_limit has popped before is in
\* no list and has no predecessor: ordered_list_pop_item goes through NULL.
DeleteFromType(type, id) ==
  /\ alive /\ work = NoWork
  /\ \E j \in First(lists[type], id) :
       \/ /\ \E i \in DOMAIN total : total[i] = lists[type][j] /\ PopBoth(i, type, j)
          /\ work' = [op |-> "delete", id |-> id]
          /\ UNCHANGED alive
       \/ /\ \A i \in DOMAIN total : total[i] # lists[type][j]
          /\ alive' = FALSE
          /\ UNCHANGED <<total, lists, work>>
  /\ UNCHANGED <<id_mask, store, keyed, calls, astray, unwritten>>

\* jan_voice_datastore_delete, and then the bit of the id, whether the database
\* has deleted the row or refused to.
DatastoreDelete ==
  /\ alive /\ work.op = "delete"
  /\ \/ /\ store' = {row \in store : row.id # work.id}
        /\ UNCHANGED astray
     \/ /\ \E row \in store : row.id = work.id
        /\ astray' = astray \cup {work.id}
        /\ UNCHANGED store
  /\ id_mask' = id_mask \ {work.id}
  /\ work' = NoWork
  /\ UNCHANGED <<total, lists, keyed, alive, calls, unwritten>>

-----------------------------------------------------------------------------
\* The process ends at any moment, in a handler or by the fault above, and
\* starts again: jan_voice_core_init_record_form_datastore for each row.

\* SELECT * FROM CallRecord: by the key, or in the order of the inserts.
Before(a, b) == IF keyed THEN a.id < b.id ELSE a.call < b.call
Ordered(rows) ==
  [i \in 1..Cardinality(rows) |->
     CHOOSE row \in rows : Cardinality({r \in rows : Before(r, row)}) = i - 1]

\* What the callback is given before the database breaks the SELECT off, if it
\* does; its answer is dropped.
ReadBack == {read \in SUBSET store :
               \A a \in read, b \in store : Before(b, a) => b \in read}

NoBits(read) == {}
BitsOfRows(read) == {row.id : row \in read}

\* A row that is read back is known again, unless it shares its id.
Restart ==
  /\ \E read \in ReadBack :
       /\ total' = Ordered(read)
       /\ lists' = [t \in RecordType |-> Ordered({row \in read : row.type = t})]
       /\ id_mask' = BitsOfRows(read)
       /\ astray' = {row.id : row \in store \ read}
            \cup {id \in astray : \E a, b \in store : a # b /\ a.id = id /\ b.id = id}
  /\ work' = NoWork /\ alive' = TRUE /\ unwritten' = {}
  /\ UNCHANGED <<store, keyed, calls>>

Next ==
  \/ \E type \in RecordType : AddRecord(type)
  \/ DatastoreInsert
  \/ \E id \in 1..Limit : DeleteFromTotal(id)
  \/ \E type \in RecordType, id \in 1..Limit : DeleteFromType(type, id)
  \/ DatastoreDelete
  \/ Restart

Spec == Init /\ [][Next]_vars

-----------------------------------------------------------------------------
\* Properties

InLists == UNION {ToSet(lists[t]) : t \in RecordType}

\* An id below the limit is the id of one record, in the lists and in the table
\* together, whatever was deleted, popped, refused or read back: "the record with
\* this id" of a request means one record (:373-379, :645, :770).  A row that the
\* database kept back takes away that of its own id only, and until it is read
\* alone at a start of the process.
UniqueBelowLimit ==
  \A a, b \in ToSet(total) \cup InLists \cup store :
    a.id = b.id /\ a.id < Limit /\ a.id \notin astray => a = b

\* Between two handlers every record that is shown below the limit has its row:
\* it survives a restart (:473, voice_datastore.c:54).  Only the record whose own
\* INSERT was refused has none, and one whose id has a row that nobody knows of.
ShownIsStored ==
  alive /\ work = NoWork =>
    \A record \in ToSet(total) \ unwritten :
      record.id < Limit /\ record.id \notin astray => record \in store

\* LIST_ASSERT(item_is_in_ordered_list(list_ptr, item_to_pop_ptr)) (list.c:1249):
\* no request takes a node out of a list that it is not in, and goes through its
\* missing predecessor.
PopsWhatIsListed == alive
=============================================================================

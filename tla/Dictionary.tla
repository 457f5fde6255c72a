---------------------------- MODULE Dictionary ----------------------------
(***************************************************************************)
(* The dictionaries of one tenant: types and the data filed under them     *)
(* (service/dict_type_service.py, service/dict_data_service.py and the     *)
(* handlers of api/dict_type.py and api/dict_data.py).                     *)
(*                                                                         *)
(* A handler checks what it read and commits later; other handlers run in  *)
(* between.  The commit meets the constraints of the schema: the code and  *)
(* the name of a type are unique, and the type of every datum exists (the  *)
(* foreign key restricts deleting and renaming a type in use).             *)
(***************************************************************************)
EXTENDS Integers, FiniteSets

CONSTANTS Request,   \* concurrent requests
          Type,      \* ids of dictionary types
          Datum,     \* ids of dictionary data
          Word       \* values of dict_type and dict_name

VARIABLES type,      \* the live rows of sys_dict_type: their code and name
          datum,     \* the live rows of sys_dict_data: the code they refer to
          req        \* what each request is about to write

vars == <<type, datum, req>>

Idle == [op |-> "idle"]

CodesOf(types) == {types[t].code : t \in DOMAIN types}
NamesOf(types) == {types[t].name : t \in DOMAIN types}
Used(code) == \E d \in DOMAIN datum : datum[d] = code

Init ==
  /\ type = <<>>
  /\ datum = <<>>
  /\ req = [r \in Request |-> Idle]

Start(r, q) ==
  /\ req[r] = Idle
  /\ req' = [req EXCEPT ![r] = q]
  /\ UNCHANGED <<type, datum>>

(***************************************************************************)
(* What each handler reads before it writes; a refusal changes nothing.    *)
(***************************************************************************)
CheckCreateType(r) ==
  \E code \in Word \ CodesOf(type), name \in Word \ NamesOf(type) :
    Start(r, [op |-> "add_type", row |-> [code |-> code, name |-> name]])

\* An edit of a type checks neither uniqueness nor the data in use.
CheckUpdateType(r) ==
  \E t \in DOMAIN type, code \in Word, name \in Word :
    Start(r, [op |-> "put_type", id |-> t, row |-> [code |-> code, name |-> name]])

\* One type, or a batch: none of them may have data.
CheckDeleteTypes(r) ==
  \E ids \in SUBSET DOMAIN type \ {{}} :
    /\ \A t \in ids : ~Used(type[t].code)
    /\ Start(r, [op |-> "drop_types", ids |-> ids])

CheckCreateData(r) ==
  \E code \in CodesOf(type) : Start(r, [op |-> "add_data", code |-> code])

\* The new type is looked up only when it differs from the old one.
CheckUpdateData(r) ==
  \E d \in DOMAIN datum : \E code \in CodesOf(type) \cup {datum[d]} :
    Start(r, [op |-> "put_data", id |-> d, code |-> code])

-----------------------------------------------------------------------------
(***************************************************************************)
(* The constraints, as they hold of the rows a commit would leave.         *)
(***************************************************************************)
Unique(types) ==
  \A s, t \in DOMAIN types :
    s # t => types[s].code # types[t].code /\ types[s].name # types[t].name

\* Faulty variant: only the handlers' own checks guard the data.
NotReferenced(types, data) == TRUE

Referenced(types, data) == \A d \in DOMAIN data : data[d] \in CodesOf(types)

\* A commit applies all its rows or, when a constraint fails, none.
Commit(r, op, types, data) ==
  /\ req[r].op = op
  /\ req' = [req EXCEPT ![r] = Idle]
  /\ IF Unique(types) /\ Referenced(types, data)
     THEN type' = types /\ datum' = data
     ELSE UNCHANGED <<type, datum>>

Put(f, id, row) == [i \in DOMAIN f \cup {id} |-> IF i = id THEN row ELSE f[i]]
Keep(f, ids) == [i \in DOMAIN f \cap ids |-> f[i]]

\* An edit of a row that is gone writes nothing.
Edit(f, id, row) == IF id \in DOMAIN f THEN Put(f, id, row) ELSE f

AddType(r) ==
  \E t \in Type \ DOMAIN type :
    Commit(r, "add_type", Put(type, t, req[r].row), datum)

PutType(r) == Commit(r, "put_type", Edit(type, req[r].id, req[r].row), datum)

DropTypes(r) == Commit(r, "drop_types", Keep(type, Type \ req[r].ids), datum)

AddData(r) ==
  \E d \in Datum \ DOMAIN datum :
    Commit(r, "add_data", type, Put(datum, d, req[r].code))

PutData(r) == Commit(r, "put_data", type, Edit(datum, req[r].id, req[r].code))

\* Deleting data, one or a batch, needs no check.
DropData ==
  \E ids \in SUBSET DOMAIN datum \ {{}} :
    /\ datum' = Keep(datum, Datum \ ids)
    /\ UNCHANGED <<type, req>>

Next ==
  \/ \E r \in Request :
       \/ CheckCreateType(r) \/ CheckUpdateType(r) \/ CheckDeleteTypes(r)
       \/ CheckCreateData(r) \/ CheckUpdateData(r)
       \/ AddType(r) \/ PutType(r) \/ DropTypes(r) \/ AddData(r) \/ PutData(r)
  \/ DropData

Spec == Init /\ [][Next]_vars

-----------------------------------------------------------------------------
Row == [code : Word, name : Word]

Typed(types, data) ==
  /\ DOMAIN types \subseteq Type
  /\ \A t \in DOMAIN types : types[t] \in Row
  /\ DOMAIN data \subseteq Datum

TypeOK == Typed(type, datum)

\* Every datum keeps a type and no two types share a code, whatever was
\* created, renamed or deleted between a handler's check and its commit
\* (dict_type_service.delete: "data exists under the type, delete it first").
DictionaryIsWhole ==
  /\ \A d \in DOMAIN datum : datum[d] \in CodesOf(type)
  /\ Cardinality(CodesOf(type)) = Cardinality(DOMAIN type)

\* The inductive invariant behind it: the rows meet the constraints, and the
\* rows that requests are about to write are rows.
Inv ==
  /\ Typed(type, datum) /\ Unique(type) /\ Referenced(type, datum)
  /\ req = [r \in Request |-> req[r]]
  /\ \A r \in Request : req[r].op \in {"add_type", "put_type"} => req[r].row \in Row
=============================================================================

--------------------------- MODULE MongoFingerprint ---------------------------
(***************************************************************************)
(* The fingerprint of a document of system.profile: operation, collection, *)
(* database and the set of the query's keys, whatever their values and     *)
(* order.  Sorting, dropping duplicates and joining the keys make one name *)
(* of the set; here the set is that name.                                  *)
(*                                                                         *)
(* A value is [t, f]: of type "doc" with f a sequence of <<key, value>>,   *)
(* of type "array" with f a sequence of values, of type "str" with f the   *)
(* string, or any other type.                                              *)
(***************************************************************************)
EXTENDS Naturals, Sequences, Functions

CONSTANTS DollarKeys,  \* the keys that begin with "$"
          KeyFilters   \* the keys that the default filter skips

Has(fields, k) == \E e \in Range(fields) : e[1] = k
(* Map() keeps the last of several fields of one name. *)
Field(fields, k) ==
    fields[CHOOSE i \in DOMAIN fields :
             /\ fields[i][1] = k
             /\ \A j \in i + 1 .. Len(fields) : fields[j][1] # k][2]
Text(value) == IF value.t = "str" THEN value.f ELSE ""
Error == [err |-> TRUE]

(* getKeys of a nested document or array: no key filter and no limit of    *)
(* the depth there, for nested documents are primitive.D.                  *)
RECURSIVE GetKeys(_)
GetKeys(value) ==
    CASE value.t = "doc" ->
           UNION {({e[1]} \ DollarKeys) \cup GetKeys(e[2]) : e \in Range(value.f)}
      [] value.t = "array" -> UNION {GetKeys(v) : v \in Range(value.f)}
      [] OTHER -> {}
(* getKeys of the query itself, which is a primitive.M. *)
QueryKeys(fields) ==
    UNION {({e[1]} \ DollarKeys) \cup GetKeys(e[2]) :
             e \in {g \in Range(fields) : g[1] \notin KeyFilters}}

(* GetQueryFieldD: where the query is depends on the protocol, which is    *)
(* guessed from the document.                                              *)
AsMap(value) == IF value.t = "doc" THEN [err |-> FALSE, f |-> value.f] ELSE Error
Body(doc) == IF doc.command # <<>> THEN doc.command ELSE doc.query
GetQueryField(doc) ==
    LET body == Body(doc) IN
    CASE doc.command # <<>> /\ doc.op \in {"update", "remove"} ->
           IF Has(body, "q") THEN AsMap(Field(body, "q")) ELSE Error
      [] Has(body, "query") -> AsMap(Field(body, "query"))
      [] Has(body, "filter") -> AsMap(Field(body, "filter"))
      [] Len(body) = 1 /\ body[1][1] = "find" -> [err |-> FALSE, f |-> <<>>]
      [] OTHER -> [err |-> FALSE, f |-> body]

(* The keys of the fields of value that are named. *)
Sub(fields, names) ==
    UNION {GetKeys(Field(fields, k)) : k \in {n \in names : Has(fields, n)}}

Named(op, coll, db, ks) == [err |-> FALSE, op |-> op, coll |-> coll, db |-> db, keys |-> ks]

(* A command is named by its first key, and its collection is the value of *)
(* that key when it is a string.                                           *)
OfCommand(doc, found) ==
    LET body == Body(doc)
        op == body[1][1]
        coll == Text(body[1][2])
        db == doc.ns[1]
        group == AsMap(Field(body, "group"))
    IN  CASE body = <<>> -> Named("", doc.ns[2], db, found)
          [] body # <<>> /\ op = "group" ->
               IF group.err THEN Error
               ELSE Named(op, IF Has(group.f, "ns") /\ Field(group.f, "ns").t = "str"
                              THEN Text(Field(group.f, "ns")) ELSE coll,
                          db, Sub(group.f, {"key", "cond"}))
          [] body # <<>> /\ op = "distinct" ->
               Named(op, coll, db,
                     found \cup IF Has(body, "key") THEN {Text(Field(body, "key"))} \ {""}
                                ELSE {})
          [] body # <<>> /\ op = "aggregate" -> Named(op, coll, db, Sub(body, {"pipeline"}))
          [] body # <<>> /\ op = "explain" -> Named(op, "", "", {})
          [] body # <<>> /\ op = "$eval" -> Named("eval", "", db, {})
          [] body # <<>> /\ op \in {"geoNear", "drop", "createIndexes"} ->
               Named(op, coll, db, {})
          [] OTHER -> Named(op, coll, db, found)

(* The keys of the query and those it is sorted by. *)
FoundKeys(doc) == QueryKeys(GetQueryField(doc).f) \cup Sub(Body(doc), {"sort", "orderby"})

Fingerprint(doc) ==
    LET found == FoundKeys(doc)
        db == doc.ns[1]
        coll == doc.ns[2]
    IN  CASE GetQueryField(doc).err -> Error
          [] doc.op \in {"remove", "update"} -> Named(doc.op, coll, db, found)
          [] doc.op = "query" ->
               IF Has(doc.query, "$explain") THEN Named("explain", "", "", found)
               ELSE Named("find", coll, db, found)
          [] doc.op = "command" -> OfCommand(doc, found)
          [] OTHER -> Named(doc.op, coll, db, {})
=============================================================================

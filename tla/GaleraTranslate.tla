---------------------------- MODULE GaleraTranslate ----------------------------
(***************************************************************************)
(* The translation database of pt-galera-log-explainer                     *)
(* (translate/translate.go): which ip a node hash had, which names a hash  *)
(* or an ip had over time, and the lookups that turn a hash or an ip into  *)
(* the easiest information to read.  The database is a record of maps; a   *)
(* map is a function whose domain is its set of keys.                      *)
(*                                                                         *)
(* A lookup whose result depends on the order of a Go map returns the set  *)
(* of its possible results.                                                *)
(***************************************************************************)
EXTENDS Naturals, Sequences, FiniteSets, SequencesExt

NoMap == << >>
EmptyDB == [hashToIP |-> NoMap, hashToNames |-> NoMap,
            ipToNames |-> NoMap, ipToMethods |-> NoMap]

Unit(value, ts) == [value |-> value, ts |-> ts]
Earlier(a, b) == IF b < a THEN b ELSE a
Units(map, key) == IF key \in DOMAIN map THEN map[key] ELSE << >>

\* The first ip of a hash stays; the earliest proof of it is kept.
AddHashToIP(db, hash, ip, ts) ==
    [db EXCEPT !.hashToIP =
        (hash :> IF hash \in DOMAIN @ THEN [@[hash] EXCEPT !.ts = Earlier(@, ts)]
                                      ELSE Unit(ip, ts)) @@ @]

\* upsertToMap: a value is compared with the latest one only.
Upsert(map, key, value, ts) ==
    LET units == Units(map, key)
        n == Len(units)
    IN  (key :> IF n = 0 \/ units[n].value # value
                THEN Append(units, Unit(value, ts))
                ELSE [units EXCEPT ![n].ts = Earlier(@, ts)]) @@ map

AddHashToNodeName(db, hash, name, ts) ==
    [db EXCEPT !.hashToNames = Upsert(@, hash, name, ts)]
AddIPToNodeName(db, ip, name, ts) ==
    [db EXCEPT !.ipToNames = Upsert(@, ip, name, ts)]
AddIPToMethod(db, ip, method, ts) ==
    [db EXCEPT !.ipToMethods = Upsert(@, ip, method, ts)]

\* The first unit stored is the base; later units override it when they are
\* more recent and not after ts.
MostAppropriate(units, ts) ==
    FoldLeft(LAMBDA cur, unit :
                 IF unit.ts > cur.ts /\ unit.ts <= ts THEN unit ELSE cur,
             units[1], Tail(units))

\* The name in force at ts, or "" when the key has none.
NameAt(map, key, ts) ==
    IF Units(map, key) = << >> THEN "" ELSE MostAppropriate(map[key], ts).value

\* getHashSliceFromIP: the hashes of an ip by time; sort.Slice leaves hashes
\* of the same time in any order.
HashSlices(db, ip) ==
    LET hashes == {h \in DOMAIN db.hashToIP : db.hashToIP[h].value = ip}
    IN  {s \in SetToSeqs(hashes) : \A i, j \in DOMAIN s :
            i < j => db.hashToIP[s[i]].ts <= db.hashToIP[s[j]].ts}

HashFromIP(db, slice, ts) ==
    MostAppropriate([i \in DOMAIN slice |-> Unit(slice[i], db.hashToIP[slice[i]].ts)], ts).value

\* With stable ips (on premise) any hash of the ip may give the name; on
\* Kubernetes only the hash that had the ip at that time.
SimplestInfoFromIP(db, ip, ts, ipStable) ==
    LET NameOf(h) == NameAt(db.hashToNames, h, ts)
        FromHashes(slice) ==
            LET tried == IF ipStable \/ slice = << >> THEN slice
                         ELSE << HashFromIP(db, slice, ts) >>
                named == SelectSeq(tried, LAMBDA h : NameOf(h) # "")
            IN  IF named = << >> THEN ip ELSE NameOf(named[1])
        own == NameAt(db.ipToNames, ip, ts)
    IN  IF own # "" THEN {own} ELSE {FromHashes(s) : s \in HashSlices(db, ip)}

SimplestInfoFromHash(db, hash, ts, ipStable) ==
    LET name == NameAt(db.hashToNames, hash, ts)
    IN  IF name # "" THEN {name}
        ELSE IF hash \in DOMAIN db.hashToIP
        THEN SimplestInfoFromIP(db, db.hashToIP[hash].value, ts, ipStable)
        ELSE {hash}

IsNodeUUIDKnown(db, uuid) == uuid \in DOMAIN db.hashToIP \cup DOMAIN db.hashToNames

ValuesOf(map, key) == {Units(map, key)[i].value : i \in DOMAIN Units(map, key)}
KeysOf(map, value) == {k \in DOMAIN map : value \in ValuesOf(map, k)}

IsNodeNameKnown(db, name) ==
    KeysOf(db.hashToNames, name) \cup KeysOf(db.ipToNames, name) # {}

----------------------------------------------------------------------------
(* whois: what one identity leads to (translate/whois.go).                 *)

FilterDBUsingIP(db, ip) ==
    ({"uuid"} \X {h \in DOMAIN db.hashToIP : db.hashToIP[h].value = ip})
        \cup ({"nodename"} \X ValuesOf(db.ipToNames, ip))

\* Mutant of FilterDBUsingUUID: the ip is looked for only without names.
FilterDBUsingUUIDNames(db, uuid) ==
    IF Units(db.hashToNames, uuid) # << >> THEN {"nodename"} \X ValuesOf(db.hashToNames, uuid)
    ELSE {"ip"} \X {db.hashToIP[h].value : h \in {uuid} \cap DOMAIN db.hashToIP}

FilterDBUsingUUID(db, uuid) ==
    ({"nodename"} \X ValuesOf(db.hashToNames, uuid))
        \cup ({"ip"} \X {db.hashToIP[h].value : h \in {uuid} \cap DOMAIN db.hashToIP})

\* "unspecified" would bridge the whole graph: it leads nowhere.
FilterDBUsingNodeName(db, name) ==
    IF name = "unspecified" THEN {}
    ELSE ({"uuid"} \X KeysOf(db.hashToNames, name)) \cup ({"ip"} \X KeysOf(db.ipToNames, name))

Neighbours(db, identity) ==
    CASE identity[1] = "ip" -> FilterDBUsingIP(db, identity[2])
      [] identity[1] = "uuid" -> FilterDBUsingUUID(db, identity[2])
      [] identity[1] = "nodename" -> FilterDBUsingNodeName(db, identity[2])

============================================================================

--------------------------- MODULE MongoIndexCheck ---------------------------
(***************************************************************************)
(* pt-mongodb-index-check: for every collection of the chosen databases,   *)
(* the indexes without accesses and the pairs of indexes of which one is   *)
(* the prefix of the other.  All calls but two share one deadline of 20    *)
(* seconds; a call that fails is logged and its database or collection is  *)
(* left out of the answer.                                                 *)
(*                                                                         *)
(* An index is [name, key, ops]; a key is a sequence of fields <<s, f>>,   *)
(* s the code of the sign "+" or "-" and f the codes of the field's name.  *)
(***************************************************************************)
EXTENDS Naturals, Sequences, FiniteSets, SequencesExt

CONSTANTS Contents,     \* databases: name -> collection -> list of indexes
          IndexChecks,  \* command lines: [command, all, databases, collections]
          SystemDBs,    \* "admin", "config", "local"
          MaxRefused    \* bound on the calls refused before the deadline

ListedIndex == [name : STRING, key : Seq(Nat \X Seq(Nat)), ops : Nat]

\* The names of a collection's indexes are distinct.
ASSUME IndexCheckAssumption ==
    /\ MaxRefused \in Nat
    /\ \A c \in Contents : \A db \in DOMAIN c : \A coll \in DOMAIN c[db] :
          LET list == c[db][coll]
          IN  /\ list \in Seq(ListedIndex)
              /\ \A i, j \in DOMAIN list : list[i].name = list[j].name => i = j

VARIABLES content,     \* what the server holds
          ranks,       \* the places sort.Slice gives the indexes of a list
          request,     \* the command line
          ixPc,        \* "start", "check", "printed", "usage", "fatal"
          plan,        \* the calls to make: [pass, db, coll], coll "" to list
          expired,     \* the 20 seconds are over
          refused,     \* calls refused before
          unused,      \* resp.Unused: <<db, coll, index name>>
          duplicated,  \* resp.Duplicated: <<db, coll, name, container name>>
          checked      \* ghost: the calls that were answered

ixVars == <<content, ranks, request, ixPc, plan, expired, refused, unused,
            duplicated, checked>>

(* ComparableKey: all characters of all fields in one string; < on those.  *)
ComparableKey(ix) == FlattenSeq([i \in DOMAIN ix.key |-> <<ix.key[i][1]>> \o ix.key[i][2]])
KeyLess(x, y) ==
    LET s == ComparableKey(x)
        t == ComparableKey(y)
    IN  \/ IsStrictPrefix(s, t)
        \/ \E i \in DOMAIN s \cap DOMAIN t : s[i] < t[i] /\ \A j \in 1..i-1 : s[j] = t[j]

(* sort.Slice is not stable: equal keys come out in any order, the same one *)
(* for the same list.  SortedPlaces are the places it may give the indexes. *)
PlacesListed(list) == {[i \in DOMAIN list |-> i]}   \* mutant: the sort is dropped
SortedPlaces(list) ==
    {r \in [DOMAIN list -> DOMAIN list] :
        \A i, j \in DOMAIN list : /\ r[i] = r[j] => i = j
                                  /\ KeyLess(list[i], list[j]) => r[i] < r[j]}
AllLists(c) == UNION {{c[db][coll] : coll \in DOMAIN c[db]} : db \in DOMAIN c}
SortOrders(c) == {f \in [AllLists(c) -> UNION {SortedPlaces(l) : l \in AllLists(c)}] :
                     \A l \in AllLists(c) : f[l] \in SortedPlaces(l)}

IndexInit == /\ content \in Contents /\ ranks \in SortOrders(content)
             /\ request \in IndexChecks
             /\ ixPc = "start" /\ plan = <<>> /\ expired = FALSE /\ refused = 0
             /\ unused = {} /\ duplicated = {} /\ checked = {}

Passes == CASE request.command = "check-unused" -> <<"unused">>
            [] request.command = "check-duplicates" -> <<"duplicates">>
            [] request.command = "check-all" -> <<"unused", "duplicates">>
            [] OTHER -> <<>>
IndexCall(pass, db, coll) == [pass |-> pass, db |-> db, coll |-> coll]
CallsOn(pass, db, colls) == [i \in DOMAIN colls |-> IndexCall(pass, db, colls[i])]

(* One call per named collection in each database, or one that lists them. *)
DatabaseCalls(pass, dbs) ==
    FlattenSeq([i \in DOMAIN dbs |->
        CallsOn(pass, dbs[i], IF request.collections = <<>> THEN <<"">>
                              ELSE request.collections)])

(* main up to the checks: no connection, or no list of the databases, is   *)
(* fatal; any other command prints the usage.                              *)
StartCheck ==
    /\ ixPc = "start"
    /\ LET dbs == IF request.all THEN SetToSeq(DOMAIN content) ELSE request.databases
       IN  \/ /\ ixPc' = IF Passes = <<>> THEN "usage" ELSE "check"
              /\ plan' = FlattenSeq([i \in DOMAIN Passes |-> DatabaseCalls(Passes[i], dbs)])
              /\ UNCHANGED refused
           \/ /\ refused < MaxRefused /\ refused' = refused + 1
              /\ ixPc' = "fatal" /\ UNCHANGED plan
    /\ UNCHANGED <<content, ranks, request, expired, unused, duplicated, checked>>

Deadline == /\ ixPc = "check" /\ ~expired /\ expired' = TRUE
            /\ UNCHANGED <<content, ranks, request, ixPc, plan, refused, unused, duplicated, checked>>

(* A call with the shared context: after the deadline there is no answer. *)
Answered(ok) == /\ ok \in BOOLEAN
                /\ ok => ~expired
                /\ ~ok => expired \/ refused < MaxRefused
                /\ refused' = IF ok \/ expired THEN refused ELSE refused + 1

(* What the server answers about a database or a collection it lacks: nothing. *)
CollectionsOf(db) == IF db \in DOMAIN content THEN DOMAIN content[db] ELSE {}
ListOf(db, coll) == IF coll \in CollectionsOf(db) THEN content[db][coll] ELSE <<>>
IndexesOf(db, coll) == Range(ListOf(db, coll))

(* FindDuplicated sorts the list and compares each index with those behind. *)
FindDuplicated(db, coll) ==
    LET list == ListOf(db, coll) IN
    {<<db, coll, list[p[1]].name, list[p[2]].name>> :
        p \in {q \in (1 .. Len(list)) \X (1 .. Len(list)) :
                 /\ ranks[list][q[1]] < ranks[list][q[2]]
                 /\ IsPrefix(ComparableKey(list[q[1]]), ComparableKey(list[q[2]]))}}

(* FindUnused passes over the system databases without asking. *)
FindUnused(db, coll) ==
    {<<db, coll, ix.name>> : ix \in {i \in IndexesOf(db, coll) :
                                        i.ops = 0 /\ i.name # "_id_" /\ db \notin SystemDBs}}

ListCollections ==
    /\ ixPc = "check" /\ plan # <<>> /\ Head(plan).coll = ""
    /\ LET c == Head(plan)
           calls == CallsOn(c.pass, c.db, SetToSeq(CollectionsOf(c.db)))
       IN  \E ok \in BOOLEAN :
              /\ Answered(ok)
              /\ plan' = (IF ok THEN calls ELSE <<>>) \o Tail(plan)
              /\ checked' = IF ok THEN checked \cup {c} ELSE checked
    /\ UNCHANGED <<content, ranks, request, ixPc, expired, unused, duplicated>>

CheckUnused ==
    /\ ixPc = "check" /\ plan # <<>> /\ Head(plan).coll # "" /\ Head(plan).pass = "unused"
    /\ LET c == Head(plan) IN
       \E ok \in BOOLEAN :
          /\ IF c.db \in SystemDBs THEN ok /\ UNCHANGED refused ELSE Answered(ok)
          /\ unused' = IF ok THEN unused \cup FindUnused(c.db, c.coll) ELSE unused
          /\ checked' = IF ok THEN checked \cup {c} ELSE checked
    /\ plan' = Tail(plan)
    /\ UNCHANGED <<content, ranks, request, ixPc, expired, duplicated>>

(* The list of indexes has no deadline once its cursor is open, but an     *)
(* error while reading it is fatal.                                        *)
CheckDuplicated ==
    /\ ixPc = "check" /\ plan # <<>> /\ Head(plan).coll # "" /\ Head(plan).pass = "duplicates"
    /\ LET c == Head(plan) IN
       \E ok \in BOOLEAN : \E fatal \in {FALSE, ~ok /\ ~expired} :
          /\ Answered(ok)
          /\ duplicated' = IF ok THEN duplicated \cup FindDuplicated(c.db, c.coll)
                           ELSE duplicated
          /\ checked' = IF ok THEN checked \cup {c} ELSE checked
          /\ ixPc' = IF fatal THEN "fatal" ELSE ixPc
    /\ plan' = Tail(plan)
    /\ UNCHANGED <<content, ranks, request, expired, unused>>

Output == /\ ixPc = "check" /\ plan = <<>> /\ ixPc' = "printed"
          /\ UNCHANGED <<content, ranks, request, plan, expired, refused, unused, duplicated, checked>>

IndexMain == \/ StartCheck \/ ListCollections \/ CheckUnused \/ CheckDuplicated \/ Output
IndexNext == IndexMain \/ Deadline

-----------------------------------------------------------------------------
(* Of every collection whose calls were answered, the response has each    *)
(* index that nobody uses and each index whose fields are the first fields *)
(* of another (README.rst, "idx_02 is the prefix of idx_01"), of two with  *)
(* the same fields exactly one; and who drops all the indexes reported as  *)
(* duplicated keeps, for each of them, one that it was reported to be      *)
(* contained in (FindDuplicated, duplicated.go:94-113).                    *)
Contained(x, y) == IsPrefix(x.key, y.key)
Kept(db, coll) == {ix \in IndexesOf(db, coll) :
                     ~\E d \in duplicated : d[1] = db /\ d[2] = coll /\ d[3] = ix.name}
AllContainedFound(db, coll) ==
    \A x, y \in IndexesOf(db, coll) :
        LET reported(a, b) == <<db, coll, a.name, b.name>> \in duplicated IN
        /\ x # y /\ Contained(x, y) =>
             IF Contained(y, x) THEN reported(x, y) # reported(y, x) ELSE reported(x, y)
        /\ ~(reported(x, y) /\ reported(y, x))
SomeContainerKept(db, coll) ==
    \A d \in duplicated : d[1] = db /\ d[2] = coll =>
        \E ix \in Kept(db, coll) : <<db, coll, d[3], ix.name>> \in duplicated
RedundantIndexesFound ==
    ixPc = "printed" => \A c \in checked : c.coll # "" =>
        IF c.pass = "duplicates"
        THEN AllContainedFound(c.db, c.coll) /\ SomeContainerKept(c.db, c.coll)
        ELSE \A ix \in IndexesOf(c.db, c.coll) :
                ix.ops = 0 /\ ix.name # "_id_" /\ c.db \notin SystemDBs =>
                    <<c.db, c.coll, ix.name>> \in unused
=============================================================================

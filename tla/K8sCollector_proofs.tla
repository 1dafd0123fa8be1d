------------------------ MODULE K8sCollector_proofs ------------------------
(***************************************************************************)
(* Theorems about pt-k8s-debug-collector, for any namespaces, pods, labels *)
(* and options, and any number of failing calls:                           *)
(*                                                                         *)
(*   K8sTypeCorrect       the state keeps its types                        *)
(*   SummariesAreTheirPods                                                 *)
(*                        SummaryIsOfItsPod                                *)
(*   OnlyCertificatesGoUnnamed                                             *)
(*                        OnlyCertificatesMissSilently                     *)
(*                                                                         *)
(* The first property is about what listens on the local port when a       *)
(* summary is taken: PortInv says that only the youngest port-forward can, *)
(* and only while main is about to take the summary of its pod.  The       *)
(* second is about the end of the run: WorkInv says, at every moment of    *)
(* it, that what is not in the archive yet is still among the tasks.       *)
(***************************************************************************)
EXTENDS K8sCollector, TLAPS

K8sSpec == K8sInit /\ [][K8sNext]_k8sVars

----------------------------------------------------------------------------
(* Sequences of tasks *)

LEMMA HeadAndTail ==
    ASSUME NEW S, NEW q \in Seq(S), q # << >>
    PROVE  /\ Head(q) \in S /\ Tail(q) \in Seq(S)
           /\ Range(q) = {Head(q)} \cup Range(Tail(q))
<1>1. /\ Head(q) \in S /\ Head(q) = q[1]
      /\ Tail(q) \in Seq(S)
      /\ DOMAIN Tail(q) = 1 .. (Len(q) - 1)
      /\ \A i \in 1 .. (Len(q) - 1) : Tail(q)[i] = q[i + 1]
      /\ DOMAIN q = 1 .. Len(q)
      /\ Len(q) \in Nat /\ Len(q) >= 1
  OBVIOUS
<1>2. ASSUME NEW y \in Range(q) PROVE y \in {Head(q)} \cup Range(Tail(q))
  <2>1. PICK i \in 1 .. Len(q) : y = q[i]
    BY <1>1, <1>2 DEF Range
  <2>2. CASE i = 1
    BY <1>1, <2>1, <2>2
  <2>3. CASE i # 1
    <3>1. i - 1 \in DOMAIN Tail(q) /\ Tail(q)[i - 1] = q[i]
      BY <1>1, <2>1, <2>3
    <3>2. QED
      BY <2>1, <3>1 DEF Range
  <2>4. QED
    BY <2>2, <2>3
<1>3. ASSUME NEW y \in {Head(q)} \cup Range(Tail(q)) PROVE y \in Range(q)
  <2>1. CASE y = Head(q)
    BY <1>1, <2>1 DEF Range
  <2>2. CASE y \in Range(Tail(q))
    <3>1. PICK i \in 1 .. (Len(q) - 1) : y = Tail(q)[i]
      BY <1>1, <2>2 DEF Range
    <3>2. i + 1 \in DOMAIN q /\ y = q[i + 1]
      BY <1>1, <3>1
    <3>3. QED
      BY <3>2 DEF Range
  <2>3. QED
    BY <1>3, <2>1, <2>2
<1>4. QED
  BY <1>1, <1>2, <1>3

LEMMA Concatenation ==
    ASSUME NEW S, NEW p \in Seq(S), NEW q \in Seq(S)
    PROVE  p \o q \in Seq(S) /\ Range(p \o q) = Range(p) \cup Range(q)
<1>1. /\ p \o q \in Seq(S)
      /\ DOMAIN (p \o q) = 1 .. (Len(p) + Len(q))
      /\ \A i \in 1 .. Len(p) : (p \o q)[i] = p[i]
      /\ \A i \in (Len(p) + 1) .. (Len(p) + Len(q)) : (p \o q)[i] = q[i - Len(p)]
      /\ DOMAIN p = 1 .. Len(p) /\ DOMAIN q = 1 .. Len(q)
      /\ Len(p) \in Nat /\ Len(q) \in Nat
  OBVIOUS
<1>2. ASSUME NEW y \in Range(p \o q) PROVE y \in Range(p) \cup Range(q)
  <2>1. PICK i \in 1 .. (Len(p) + Len(q)) : y = (p \o q)[i]
    BY <1>1, <1>2 DEF Range
  <2>2. CASE i \in 1 .. Len(p)
    BY <1>1, <2>1, <2>2 DEF Range
  <2>3. CASE i \in (Len(p) + 1) .. (Len(p) + Len(q))
    <3>1. i - Len(p) \in DOMAIN q /\ y = q[i - Len(p)]
      BY <1>1, <2>1, <2>3
    <3>2. QED
      BY <3>1 DEF Range
  <2>4. QED
    BY <1>1, <2>1, <2>2, <2>3
<1>3. ASSUME NEW y \in Range(p) \cup Range(q) PROVE y \in Range(p \o q)
  <2>1. CASE y \in Range(p)
    <3>1. PICK i \in 1 .. Len(p) : y = p[i]
      BY <1>1, <2>1 DEF Range
    <3>2. i \in DOMAIN (p \o q) /\ y = (p \o q)[i]
      BY <1>1, <3>1
    <3>3. QED
      BY <3>2 DEF Range
  <2>2. CASE y \in Range(q)
    <3>1. PICK i \in 1 .. Len(q) : y = q[i]
      BY <1>1, <2>2 DEF Range
    <3>2. Len(p) + i \in DOMAIN (p \o q) /\ y = (p \o q)[Len(p) + i]
      BY <1>1, <3>1
    <3>3. QED
      BY <3>2 DEF Range
  <2>3. QED
    BY <1>3, <2>1, <2>2
<1>4. QED
  BY <1>1, <1>2, <1>3

----------------------------------------------------------------------------
(* Types *)

Ops == {"list", "logs", "resource", "certificates", "instance-secret", "credentials",
        "spawn", "summary", "file"}

\* The provers know no rule by which a literal is a string: those of the program
\* are listed.
Text == STRING \cup Ops \cup Typed
        \cup {"", "none", "auto/cluster", "pods", "events", "ssl", "mysqld-error.log",
              "nodes", "namespaces", "port-forward", "kill"}

Tasks == [op : Ops, ns : Text, pod : Text]

Archived == [at : Seq(Text), what : {"output", "nothing", "error"}, from : Text]

\* A goroutine whose process may yet start or listen, and all its states.
Alive == {"spawned", "running"}
ForwardStates == Alive \cup {"exited", "nostart", "killed", "exited-read", "nostart-read",
                             "killed-read", "over", "never"}

Forward == [pod : Text, state : ForwardStates, seen : SUBSET Seq(Text)]

K8sTypeOK ==
    /\ opts \in K8sOptions
    /\ k8sPc \in {"new", "namespaces", "dump", "done", "failed", "panic"}
    /\ crType \in Text
    /\ kinds \in Seq(Text)
    /\ todo \in Seq(Tasks)
    /\ archive \subseteq Archived
    /\ errors \subseteq Seq(Text)
    /\ forwards \in Seq(Forward)
    /\ faults \in Nat
    /\ \A t \in Range(todo) :
          /\ t.op = "list" => t.ns \in Range(Names)
          /\ t.op = "summary" => forwards # << >>
    /\ k8sPc \in {"new", "namespaces"} => forwards = << >> /\ archive = {}

LEMMA FunctionsAreSequences ==
    ASSUME NEW S, NEW n \in Nat, NEW f \in [1 .. n -> S]
    PROVE  f \in Seq(S)
  OBVIOUS

LEMMA ShortSequences ==
    ASSUME NEW S
    PROVE  << >> \in Seq(S) /\ \A x \in S : <<x>> \in Seq(S)
  OBVIOUS

LEMMA NamesOfKinds ==
    ASSUME NEW t \in Text
    PROVE  SecretsOf(t) \in Seq(Text) /\ FilesOf(t) \in Seq(Text)
<1>1. SecretsOf(t) = << >> \/ SecretsOf(t) = <<"ssl">>
  BY DEF SecretsOf
<1>2. FilesOf(t) = << >> \/ FilesOf(t) = <<"mysqld-error.log">>
  BY DEF FilesOf
<1>3. "ssl" \in Text /\ "mysqld-error.log" \in Text
  BY DEF Text
<1>4. << >> \in Seq(Text) /\ \A x \in Text : <<x>> \in Seq(Text)
  BY ShortSequences
<1>5. QED
  BY <1>1, <1>2, <1>3, <1>4

\* One task per name, and one per file of a pod.
LEMMA TasksPerName ==
    ASSUME NEW op \in Ops, NEW ns \in Text, NEW q \in Seq(Text)
    PROVE  LET tasks == [i \in DOMAIN q |-> Task(op, ns, q[i])]
           IN  /\ tasks \in Seq(Tasks)
               /\ Range(tasks) = {Task(op, ns, x) : x \in Range(q)}
<1> DEFINE tasks == [i \in DOMAIN q |-> Task(op, ns, q[i])]
<1>1. DOMAIN q = 1 .. Len(q) /\ Len(q) \in Nat
  OBVIOUS
<1>2. \A i \in DOMAIN q : q[i] \in Text /\ Task(op, ns, q[i]) \in Tasks
  BY <1>1 DEF Task, Tasks
<1>3. tasks \in Seq(Tasks)
  <2>1. tasks \in [1 .. Len(q) -> Tasks]
    BY <1>1, <1>2
  <2> HIDE DEF tasks
  <2>2. QED
    BY <1>1, <2>1, FunctionsAreSequences
<1>4. Range(tasks) = {Task(op, ns, x) : x \in Range(q)}
  BY DEF Range
<1>5. QED
  BY <1>3, <1>4

LEMMA TasksPerFile ==
    ASSUME NEW op \in Ops, NEW ns \in Text, NEW pod \in Text, NEW q \in Seq(Text)
    PROVE  LET tasks == [i \in DOMAIN q |-> Task(op, ns, pod)]
           IN  /\ tasks \in Seq(Tasks)
               /\ Range(tasks) \subseteq {Task(op, ns, pod)}
<1> DEFINE tasks == [i \in DOMAIN q |-> Task(op, ns, pod)]
<1>1. DOMAIN q = 1 .. Len(q) /\ Len(q) \in Nat
  OBVIOUS
<1>2. Task(op, ns, pod) \in Tasks
  BY DEF Task, Tasks
<1>3. tasks \in Seq(Tasks)
  <2>1. tasks \in [1 .. Len(q) -> Tasks]
    BY <1>1, <1>2
  <2> HIDE DEF tasks
  <2>2. QED
    BY <1>1, <2>1, FunctionsAreSequences
<1>4. QED
  BY <1>3 DEF Range

LEMMA WiderSequences ==
    ASSUME NEW S, NEW T, S \subseteq T, NEW q \in Seq(S)
    PROVE  q \in Seq(T)
<1>1. \A i \in 1 .. Len(q) : q[i] \in T
  OBVIOUS
<1>2. q \in [1 .. Len(q) -> T] /\ Len(q) \in Nat
  BY <1>1
<1>3. QED
  BY <1>2, FunctionsAreSequences

LEMMA Texts == ASSUME NEW q \in Seq(STRING) PROVE q \in Seq(Text)
<1>1. STRING \subseteq Text
  BY DEF Text
<1>2. QED
  BY <1>1, WiderSequences

LEMMA OptionFacts ==
    ASSUME K8sTypeOK
    PROVE  /\ opts.type \in Text /\ opts.cluster \in Text /\ opts.namespace \in Text
           /\ opts.skip \in BOOLEAN
<1>1. opts \in [type : STRING, cluster : STRING, namespace : STRING, skip : BOOLEAN]
  BY K8sAssumption DEF K8sTypeOK
<1>2. STRING \subseteq Text
  BY DEF Text
<1>3. QED
  BY <1>1, <1>2

LEMMA NameFacts ==
    ASSUME K8sTypeOK
    PROVE  /\ Names \in Seq(Text)
           /\ \A ns \in Range(Names) : ns \in Text /\ PodsOf[ns] \in Seq(Text)
<1>1. opts.namespace \in Text
  BY OptionFacts
<1>2. CASE opts.namespace = ""
  <2>1. Names = NamespaceSeq
    BY <1>2 DEF Names
  <2>2. NamespaceSeq \in Seq(Text)
    BY K8sAssumption, Texts
  <2>3. ASSUME NEW ns \in Range(NamespaceSeq) PROVE ns \in Text
    <3>1. PICK i \in DOMAIN NamespaceSeq : ns = NamespaceSeq[i]
      BY DEF Range
    <3>2. QED
      BY <2>2, <3>1
  <2>4. ASSUME NEW ns \in Range(NamespaceSeq) PROVE PodsOf[ns] \in Seq(Text)
    BY K8sAssumption, Texts
  <2>5. QED
    BY <2>1, <2>2, <2>3, <2>4
<1>3. CASE opts.namespace # ""
  <2>1. Names = <<opts.namespace>>
    BY <1>3 DEF Names
  <2>2. Range(Names) = {opts.namespace} /\ Names \in Seq(Text)
    BY <1>1, <2>1 DEF Range
  <2>3. PodsOf[opts.namespace] \in Seq(STRING)
    BY <1>3, K8sAssumption DEF K8sTypeOK
  <2>4. PodsOf[opts.namespace] \in Seq(Text)
    BY <2>3, Texts
  <2>5. QED
    BY <1>1, <2>2, <2>4
<1>4. QED
  BY <1>2, <1>3

\* Main takes the next task away and puts others in its place.
LEMMA Replacing ==
    ASSUME K8sTypeOK, todo # << >>, NEW tasks \in Seq(Tasks), Replace(tasks)
    PROVE  /\ todo' \in Seq(Tasks)
           /\ Head(todo) \in Tasks /\ Head(todo) \in Range(todo)
           /\ Tail(todo) \in Seq(Tasks)
           /\ Range(todo) = {Head(todo)} \cup Range(Tail(todo))
           /\ Range(todo') = Range(tasks) \cup Range(Tail(todo))
<1>1. todo \in Seq(Tasks)
  BY DEF K8sTypeOK
<1>2. /\ Head(todo) \in Tasks /\ Tail(todo) \in Seq(Tasks)
      /\ Range(todo) = {Head(todo)} \cup Range(Tail(todo))
  BY <1>1, HeadAndTail
<1>3. todo' = tasks \o Tail(todo)
  BY DEF Replace
<1> DEFINE rest == Tail(todo)
<1>4. rest \in Seq(Tasks)
  BY <1>2
<1> HIDE DEF rest
<1>5. tasks \o rest \in Seq(Tasks) /\ Range(tasks \o rest) = Range(tasks) \cup Range(rest)
  BY <1>4, Concatenation
<1>6. QED
  BY <1>2, <1>3, <1>5 DEF rest

LEMMA ShortTasks ==
    /\ << >> \in Seq(Tasks) /\ Range(<< >>) = {}
    /\ \A t \in Tasks : <<t>> \in Seq(Tasks) /\ Range(<<t>>) = {t}
  BY DEF Range

\* What the steps of main put in the place of their task, none of it a listing,
\* a port-forward or the summary that follows one.
LEMMA TasksOfNamespace ==
    ASSUME K8sTypeOK, NEW ns \in Range(Names)
    PROVE  LET pods == [i \in DOMAIN PodsOf[ns] |-> Task("logs", ns, PodsOf[ns][i])]
               rest == [i \in DOMAIN kinds |-> Task("resource", ns, kinds[i])]
                       \o [i \in DOMAIN SecretsOf(crType) |->
                             Task("certificates", ns, SecretsOf(crType)[i])]
           IN  /\ rest \in Seq(Tasks) /\ pods \o rest \in Seq(Tasks)
               /\ \A k \in Range(kinds) : Task("resource", ns, k) \in Range(pods \o rest)
               /\ \A t \in Range(rest) : t.op \in {"resource", "certificates"}
               /\ \A p \in Range(PodsOf[ns]) : Task("logs", ns, p) \in Range(pods \o rest)
               /\ \A t \in Range(pods \o rest) :
                    \/ t.op \in {"resource", "certificates"}
                    \/ t.op = "logs" /\ t.ns = ns
<1> DEFINE pods == [i \in DOMAIN PodsOf[ns] |-> Task("logs", ns, PodsOf[ns][i])]
           res == [i \in DOMAIN kinds |-> Task("resource", ns, kinds[i])]
           cert == [i \in DOMAIN SecretsOf(crType) |->
                      Task("certificates", ns, SecretsOf(crType)[i])]
<1>1. ns \in Text /\ PodsOf[ns] \in Seq(Text)
  BY NameFacts
<1>2. kinds \in Seq(Text) /\ SecretsOf(crType) \in Seq(Text)
  BY NamesOfKinds DEF K8sTypeOK
<1>3. {"logs", "resource", "certificates"} \subseteq Ops
  BY DEF Ops
<1>4. pods \in Seq(Tasks) /\ Range(pods) = {Task("logs", ns, p) : p \in Range(PodsOf[ns])}
  BY <1>1, <1>3, TasksPerName
<1>5. res \in Seq(Tasks) /\ Range(res) = {Task("resource", ns, k) : k \in Range(kinds)}
  BY <1>1, <1>2, <1>3, TasksPerName
<1>6. /\ cert \in Seq(Tasks)
      /\ Range(cert) = {Task("certificates", ns, s) : s \in Range(SecretsOf(crType))}
  BY <1>1, <1>2, <1>3, TasksPerName
<1> HIDE DEF pods, res, cert
<1>7. res \o cert \in Seq(Tasks) /\ Range(res \o cert) = Range(res) \cup Range(cert)
  BY <1>5, <1>6, Concatenation
<1>8. /\ pods \o (res \o cert) \in Seq(Tasks)
      /\ Range(pods \o (res \o cert)) = Range(pods) \cup Range(res \o cert)
  <2> DEFINE rest == res \o cert
  <2>1. rest \in Seq(Tasks)
    BY <1>7
  <2> HIDE DEF rest
  <2>2. pods \o rest \in Seq(Tasks) /\ Range(pods \o rest) = Range(pods) \cup Range(rest)
    BY <1>4, <2>1, Concatenation
  <2>3. QED
    BY <2>2 DEF rest
<1>9. \A t \in Range(res \o cert) : t.op \in {"resource", "certificates"}
  BY <1>5, <1>6, <1>7 DEF Task
<1>10. \A t \in Range(pods) : t.op = "logs" /\ t.ns = ns
  BY <1>4 DEF Task
<1>11. QED
  BY <1>4, <1>5, <1>7, <1>8, <1>9, <1>10 DEF pods, res, cert

\* The tasks of a pod with labels that follow its log are among those given.
Announced(ns, pod, tasks) ==
    /\ Matches(Labels[pod]) /\ ~opts.skip => Task("credentials", ns, pod) \in tasks
    /\ \A op \in {"instance-secret", "file"} :
         IsDue(op, Labels[pod]) => Task(op, ns, pod) \in tasks

LEMMA TasksAfterLogs ==
    ASSUME K8sTypeOK, NEW ns \in Text, NEW pod \in Text
    PROVE  /\ AfterLogs(ns, pod) \in Seq(Tasks)
           /\ \A t \in Range(AfterLogs(ns, pod)) :
                t.op \in {"instance-secret", "credentials", "file"}
           /\ Labels[pod].any => Announced(ns, pod, Range(AfterLogs(ns, pod)))
<1> DEFINE l == Labels[pod]
           secret == IF l.inst # "" /\ l.comp # ""
                     THEN <<Task("instance-secret", ns, pod)>> ELSE << >>
           summary == IF opts.skip THEN << >> ELSE <<Task("credentials", ns, pod)>>
           files == [i \in DOMAIN FilesOf(crType) |-> Task("file", ns, pod)]
           Known(q) == /\ q \in Seq(Tasks)
                       /\ \A t \in Range(q) : t.op \in {"instance-secret", "credentials", "file"}
<1>1. /\ Task("instance-secret", ns, pod) \in Tasks /\ Task("credentials", ns, pod) \in Tasks
      /\ \A op : Task(op, ns, pod).op = op
  BY DEF Task, Tasks, Ops
<1>2. /\ Known(secret) /\ Known(<< >>)
      /\ IsDue("instance-secret", l) => Task("instance-secret", ns, pod) \in Range(secret)
  BY <1>1, ShortTasks DEF IsDue
<1>3. Known(summary) /\ (~opts.skip => Task("credentials", ns, pod) \in Range(summary))
  BY <1>1, ShortTasks
<1>4. /\ Known(files)
      /\ IsDue("file", l) => Matches(l) /\ Task("file", ns, pod) \in Range(files)
  <2>1. FilesOf(crType) \in Seq(Text) /\ "file" \in Ops
    BY NamesOfKinds DEF Ops, K8sTypeOK
  <2>2. files \in Seq(Tasks) /\ Range(files) \subseteq {Task("file", ns, pod)}
    BY <2>1, TasksPerFile
  <2>3. ASSUME FilesOf(crType) # << >> PROVE Task("file", ns, pod) \in Range(files)
    <3> DEFINE q == FilesOf(crType)
    <3>1. q \in Seq(Text) /\ q # << >>
      BY <2>1, <2>3
    <3> HIDE DEF q
    <3>2. 1 \in DOMAIN q
      BY <3>1
    <3>3. 1 \in DOMAIN files /\ files[1] = Task("file", ns, pod)
      BY <3>2 DEF q
    <3>4. QED
      BY <3>3 DEF Range
  <2>4. QED
    BY <1>1, <2>2, <2>3 DEF IsDue
<1> HIDE DEF secret, summary, files
<1>5. /\ Known(summary \o files)
      /\ Range(summary \o files) = Range(summary) \cup Range(files)
  BY <1>3, <1>4, Concatenation
<1>6. /\ Known(secret \o (summary \o files))
      /\ Range(secret \o (summary \o files)) = Range(secret) \cup Range(summary) \cup Range(files)
  <2> DEFINE more == summary \o files
  <2>1. Known(more) /\ Range(more) = Range(summary) \cup Range(files)
    BY <1>5
  <2> HIDE DEF more
  <2>2. secret \o more \in Seq(Tasks) /\ Range(secret \o more) = Range(secret) \cup Range(more)
    BY <1>2, <2>1, Concatenation
  <2>3. /\ Known(secret \o more)
        /\ Range(secret \o more) = Range(secret) \cup Range(summary) \cup Range(files)
    BY <1>2, <2>1, <2>2
  <2>4. QED
    BY <2>3 DEF more
<1>7. Known(secret \o << >>) /\ Range(secret) \subseteq Range(secret \o << >>)
  BY <1>2, Concatenation
<1>8. AfterLogs(ns, pod) = IF ~l.any THEN << >>
                           ELSE secret \o (IF Matches(l) THEN summary \o files ELSE << >>)
  BY DEF AfterLogs, secret, summary, files
<1>9. CASE ~l.any
  BY <1>2, <1>8, <1>9
<1>10. CASE l.any /\ Matches(l)
  <2>1. AfterLogs(ns, pod) = secret \o (summary \o files)
    BY <1>8, <1>10
  <2>2. QED
    BY <1>2, <1>3, <1>4, <1>6, <2>1 DEF Announced
<1>11. CASE l.any /\ ~Matches(l)
  <2>1. AfterLogs(ns, pod) = secret \o << >>
    BY <1>8, <1>11
  <2>2. QED
    BY <1>2, <1>4, <1>7, <1>11, <2>1 DEF Announced
<1>12. QED
  BY <1>9, <1>10, <1>11

LEMMA OnTop ==
    ASSUME NEW q \in Seq(Tasks)
    PROVE  /\ << >> \o q = q
           /\ \A x \in Tasks : /\ <<x>> \o q # << >>
                              /\ Head(<<x>> \o q) = x /\ Tail(<<x>> \o q) = q
  OBVIOUS

\* Main's steps on one task keep the two facts about the tasks that are left.
LEMMA TodoStays ==
    ASSUME K8sTypeOK, todo # << >>, NEW tasks \in Seq(Tasks), Replace(tasks), opts' = opts,
           \A t \in Range(tasks) : /\ t.op # "list"
                                   /\ t.op = "summary" => forwards' # << >>,
           forwards # << >> => forwards' # << >>
    PROVE  /\ todo' \in Seq(Tasks)
           /\ \A t \in Range(todo)' : /\ t.op = "list" => t.ns \in Range(Names)'
                                      /\ t.op = "summary" => forwards' # << >>
<1>1. /\ todo' \in Seq(Tasks)
      /\ Range(todo) = {Head(todo)} \cup Range(Tail(todo))
      /\ Range(todo') = Range(tasks) \cup Range(Tail(todo))
  BY Replacing
<1>2. Range(todo)' = Range(todo') /\ Range(Names)' = Range(Names)
  BY DEF Range, Names
<1>3. \A t \in Range(Tail(todo)) : /\ t.op = "list" => t.ns \in Range(Names)
                                   /\ t.op = "summary" => forwards # << >>
  <2>1. \A t \in Range(todo) : /\ t.op = "list" => t.ns \in Range(Names)
                               /\ t.op = "summary" => forwards # << >>
    BY DEF K8sTypeOK
  <2>2. Range(Tail(todo)) \subseteq Range(todo)
    BY <1>1
  <2>3. QED
    BY <2>1, <2>2
<1>4. QED
  BY <1>1, <1>2, <1>3

LEMMA Places ==
    \A x, y, z \in Text : /\ <<x, y, z>> \in Seq(Text) /\ <<x, y>> \in Seq(Text)
                          /\ <<x>> \in Seq(Text)
  OBVIOUS

LEMMA EntriesAreArchived ==
    ASSUME NEW at \in Seq(Text), NEW what \in {"output", "nothing", "error"}, NEW from \in Text
    PROVE  /\ Entry(at, what, from) \in Archived
           /\ Entry(at, what, from).at = at
           /\ Entry(at, what, from).what = what
           /\ Entry(at, what, from).from = from
  BY DEF Entry, Archived

\* The task main is at, and what its step files under.
LEMMA CurrentTask ==
    ASSUME K8sTypeOK, todo # << >>
    PROVE  /\ Head(todo) \in Range(todo) /\ Head(todo) \in Tasks
           /\ Head(todo).ns \in Text /\ Head(todo).pod \in Text /\ Head(todo).op \in Ops
           /\ Head(todo) = Task(Head(todo).op, Head(todo).ns, Head(todo).pod)
<1>1. todo \in Seq(Tasks)
  BY DEF K8sTypeOK
<1>2. Head(todo) \in Tasks /\ Head(todo) \in Range(todo)
  BY <1>1, HeadAndTail
<1>3. QED
  BY <1>2 DEF Tasks, Task

LEMMA OpsAreTexts == /\ Ops \subseteq Text
                     /\ {"", "none", "auto/cluster", "nodes", "namespaces", "port-forward",
                         "kill"} \subseteq Text
  BY DEF Text

LEMMA Counting == ASSUME K8sTypeOK, NEW ok, Outcome(ok) PROVE faults' \in Nat /\ ok \in BOOLEAN
  BY DEF K8sTypeOK, Outcome

----------------------------------------------------------------------------
(* The port-forward goroutines *)

LEMMA Updated ==
    ASSUME NEW q \in Seq(Forward), NEW i \in DOMAIN q, NEW f \in Forward
    PROVE  /\ [q EXCEPT ![i] = f] \in Seq(Forward)
           /\ Len([q EXCEPT ![i] = f]) = Len(q)
           /\ \A j \in DOMAIN q : [q EXCEPT ![i] = f][j] = IF j = i THEN f ELSE q[j]
  OBVIOUS

\* How one goroutine may change: its pod stays, and what is over stays over.
Moves(f, g) == g.pod = f.pod /\ (g.state \in Alive => f.state \in Alive)

LEMMA OneMoves ==
    ASSUME K8sTypeOK, NEW i \in DOMAIN forwards, NEW f \in Forward, Moves(forwards[i], f),
           forwards' = [forwards EXCEPT ![i] = f]
    PROVE  /\ forwards' \in Seq(Forward) /\ Len(forwards') = Len(forwards)
           /\ \A j \in DOMAIN forwards : Moves(forwards[j], forwards'[j])
           /\ forwards'[i] = f
<1>1. forwards \in Seq(Forward)
  BY DEF K8sTypeOK
<1>2. /\ forwards' \in Seq(Forward) /\ Len(forwards') = Len(forwards)
      /\ \A j \in DOMAIN forwards : forwards'[j] = IF j = i THEN f ELSE forwards[j]
  BY <1>1, Updated
<1>3. QED
  BY <1>2 DEF Moves

LEMMA ForwardMoves ==
    ASSUME K8sTypeOK, NEW i \in DOMAIN forwards,
           ForwardStarts(i) \/ ForwardReads(i) \/ ForwardWrites(i)
    PROVE  /\ forwards' \in Seq(Forward) /\ Len(forwards') = Len(forwards)
           /\ \A j \in DOMAIN forwards : Moves(forwards[j], forwards'[j])
           /\ UNCHANGED <<opts, k8sPc, crType, kinds, todo, archive>>
           /\ errors' \subseteq Seq(Text) /\ faults' \in Nat
<1>1. /\ forwards \in Seq(Forward) /\ forwards[i] \in Forward /\ faults \in Nat
      /\ errors \subseteq Seq(Text)
  BY DEF K8sTypeOK
<1>2. /\ forwards[i].pod \in Text /\ forwards[i].state \in ForwardStates
      /\ forwards[i].seen \subseteq Seq(Text)
  BY <1>1 DEF Forward
<1>3. CASE ForwardStarts(i)
  <2>1. PICK s \in {"running", "exited", "nostart"} :
          /\ Outcome(s = "running" \/ Listening # {} \/ ~ForwardWants(crType))
          /\ forwards' = [forwards EXCEPT ![i].state = s]
    BY <1>3 DEF ForwardStarts
  <2> DEFINE f == [forwards[i] EXCEPT !.state = s]
  <2>2. f \in Forward /\ Moves(forwards[i], f)
    BY <1>1, <1>2, <1>3 DEF Forward, ForwardStates, Alive, Moves, ForwardStarts
  <2>3. forwards' = [forwards EXCEPT ![i] = f]
    BY <2>1
  <2> HIDE DEF f
  <2>4. faults' \in Nat
    BY <1>1, <2>1 DEF Outcome
  <2>5. QED
    BY <1>1, <1>3, <2>2, <2>3, <2>4, OneMoves DEF ForwardStarts
<1>4. CASE ForwardReads(i)
  <2> DEFINE s == [exited |-> "exited-read", nostart |-> "nostart-read",
                   killed |-> "killed-read"][forwards[i].state]
             f == [forwards[i] EXCEPT !.seen = errors, !.state = s]
  <2>1. s \in ForwardStates \ Alive
    BY <1>4 DEF ForwardReads, ForwardStates, Alive
  <2>2. forwards' = [forwards EXCEPT ![i] = f]
    BY <1>4 DEF ForwardReads
  <2> HIDE DEF s
  <2>3. f \in Forward /\ Moves(forwards[i], f)
    BY <1>1, <1>2, <2>1 DEF Forward, Moves
  <2> HIDE DEF f
  <2>4. QED
    BY <1>1, <1>4, <2>2, <2>3, OneMoves DEF ForwardReads
<1>5. CASE ForwardWrites(i)
  <2> DEFINE s == IF forwards[i].state = "nostart-read" THEN "never" ELSE "over"
             f == [forwards[i] EXCEPT !.seen = {}, !.state = s]
  <2>1. s \in ForwardStates \ Alive
    BY DEF ForwardStates, Alive
  <2>2. forwards' = [forwards EXCEPT ![i] = f]
    BY <1>5 DEF ForwardWrites
  <2> HIDE DEF s
  <2>3. f \in Forward /\ Moves(forwards[i], f)
    BY <1>1, <1>2, <2>1 DEF Forward, Moves
  <2> HIDE DEF f
  <2>4. <<"port-forward">> \in Seq(Text)
    BY OpsAreTexts, Places
  <2>5. errors' \subseteq Seq(Text)
    BY <1>1, <1>2, <1>5, <2>4 DEF ForwardWrites
  <2>6. QED
    BY <1>1, <1>5, <2>2, <2>3, <2>5, OneMoves DEF ForwardWrites
<1>6. QED
  BY <1>3, <1>4, <1>5

\* The deferred Kill leaves nothing of the youngest port-forward alive, or panics.
LEMMA KillMoves ==
    ASSUME K8sTypeOK, forwards # << >>, KillForward(Len(forwards))
    PROVE  /\ Len(forwards) \in DOMAIN forwards
           /\ k8sPc' \in {"dump", "panic"}
           /\ forwards' \in Seq(Forward) /\ Len(forwards') = Len(forwards)
           /\ \A j \in DOMAIN forwards : Moves(forwards[j], forwards'[j])
           /\ k8sPc' = "dump" => forwards'[Len(forwards)].state \notin Alive
<1> DEFINE i == Len(forwards)
<1>1. forwards \in Seq(Forward)
  BY DEF K8sTypeOK
<1>2. i \in DOMAIN forwards /\ forwards[i] \in Forward
  BY <1>1
<1>3. k8sPc' \in {"dump", "panic"}
  BY DEF KillForward
<1>4. CASE forwards[i].state = "running"
  <2> DEFINE f == [forwards[i] EXCEPT !.state = "killed"]
  <2>1. forwards' = [forwards EXCEPT ![i] = f]
    BY <1>4 DEF KillForward
  <2>2. f \in Forward /\ Moves(forwards[i], f) /\ f.state \notin Alive
    BY <1>2, <1>4 DEF Forward, ForwardStates, Alive, Moves
  <2> HIDE DEF f
  <2>3. QED
    BY <1>2, <1>3, <2>1, <2>2, OneMoves
<1>5. CASE forwards[i].state # "running"
  <2>1. forwards' = forwards
    BY <1>5 DEF KillForward
  <2>2. k8sPc' = "dump" => forwards[i].state # "spawned"
    BY DEF KillForward
  <2>3. QED
    BY <1>1, <1>2, <1>3, <1>5, <2>1, <2>2 DEF Moves, Alive
<1>6. QED
  BY <1>4, <1>5

----------------------------------------------------------------------------
(* Type correctness *)

LEMMA TypesAtFirst == K8sInit => K8sTypeOK
<1> SUFFICES ASSUME K8sInit PROVE K8sTypeOK
  OBVIOUS
<1>1. << >> \in Seq(Text) /\ << >> \in Seq(Tasks) /\ << >> \in Seq(Forward)
  BY ShortSequences
<1>2. crType \in Text
  BY OpsAreTexts DEF K8sInit
<1>3. Range(todo) = {}
  BY DEF K8sInit, Range
<1>4. QED
  BY <1>1, <1>2, <1>3 DEF K8sInit, K8sTypeOK

\* The facts about a step that the types need, for the steps of main on one task.
LEMMA TypesOfTaskStep ==
    ASSUME K8sTypeOK, k8sPc = "dump", todo # << >>, NEW tasks \in Seq(Tasks), Replace(tasks),
           \A t \in Range(tasks) : /\ t.op # "list"
                                   /\ t.op = "summary" => forwards' # << >>,
           forwards # << >> => forwards' # << >>,
           UNCHANGED <<opts, crType, kinds>>,
           k8sPc' \in {"dump", "panic"}, archive' \subseteq Archived,
           errors' \subseteq Seq(Text), forwards' \in Seq(Forward), faults' \in Nat
    PROVE  K8sTypeOK'
<1>1. /\ todo' \in Seq(Tasks)
      /\ \A t \in Range(todo)' : /\ t.op = "list" => t.ns \in Range(Names)'
                                 /\ t.op = "summary" => forwards' # << >>
  BY TodoStays
<1>2. opts \in K8sOptions /\ crType \in Text /\ kinds \in Seq(Text)
  BY DEF K8sTypeOK
<1>3. QED
  BY <1>1, <1>2 DEF K8sTypeOK

LEMMA NewTypes == K8sTypeOK /\ New => K8sTypeOK'
<1> SUFFICES ASSUME K8sTypeOK, New PROVE K8sTypeOK'
  OBVIOUS
<1> DEFINE t == ResourceType(opts.type, opts.cluster)
           auto == t = "auto"
           type == IF ~auto THEN t
                   ELSE IF ApiGroups = <<>> THEN "none" ELSE Last(ApiGroups)
           more == IF auto THEN ApiGroups ELSE IF t \in Typed THEN <<t>> ELSE << >>
<1>1. ApiGroups \in Seq(Text)
  BY K8sAssumption, Texts
<1>2. t \in Text
  BY OptionFacts, OpsAreTexts DEF ResourceType
<1>3. type \in Text
  <2>1. ApiGroups # << >> => Last(ApiGroups) \in Text
    BY <1>1 DEF Last
  <2>2. QED
    BY <1>2, <2>1, OpsAreTexts
<1>4. more \in Seq(Text)
  <2> HIDE DEF t
  <2>1. <<t>> \in Seq(Text) /\ << >> \in Seq(Text)
    BY <1>2, ShortSequences
  <2>2. QED
    BY <1>1, <2>1
<1>5. BaseKinds \in Seq(Text)
  <2>1. "pods" \in Text /\ "events" \in Text
    BY DEF Text
  <2>2. QED
    BY <2>1, Places DEF BaseKinds
<1>6. kinds' = BaseKinds \o more /\ crType' = type
  BY DEF New
<1> HIDE DEF more, type
<1>7. kinds' \in Seq(Text) /\ crType' \in Text
  BY <1>3, <1>4, <1>5, <1>6
<1>8. faults' \in Nat /\ k8sPc' \in {"namespaces", "panic"}
  BY DEF New, Outcome, K8sTypeOK
<1>9. UNCHANGED <<opts, todo, archive, errors, forwards>> /\ k8sPc = "new"
  BY DEF New
<1>10. Range(todo)' = Range(todo) /\ Range(Names)' = Range(Names)
  BY <1>9 DEF Range, Names
<1>11. QED
  BY <1>7, <1>8, <1>9, <1>10 DEF K8sTypeOK

LEMMA ListNamespacesSteps ==
    ASSUME K8sTypeOK, ListNamespaces
    PROVE  /\ K8sTypeOK'
           /\ \A x \in Range(todo') : x.op = "list" /\ x.ns \in Range(Names)
           /\ k8sPc' = "dump" =>
                \A ns \in Range(Names) : Task("list", ns, "") \in Range(todo')
<1> DEFINE tasks == [i \in DOMAIN Names |-> Task("list", Names[i], "")]
<1>1. Names \in Seq(Text) /\ Names' = Names
  BY NameFacts DEF ListNamespaces, Names
<1>2. DOMAIN Names = 1 .. Len(Names) /\ Len(Names) \in Nat
  BY <1>1
<1>3. \A i \in DOMAIN Names : Task("list", Names[i], "") \in Tasks
  <2>1. "list" \in Ops /\ "" \in Text
    BY OpsAreTexts DEF Ops
  <2>2. \A i \in DOMAIN Names : Names[i] \in Text
    BY <1>1
  <2>3. QED
    BY <2>1, <2>2 DEF Task, Tasks
<1>4. tasks \in Seq(Tasks)
  <2>1. tasks \in [1 .. Len(Names) -> Tasks]
    BY <1>2, <1>3
  <2> HIDE DEF tasks
  <2>2. QED
    BY <1>2, <2>1, FunctionsAreSequences
<1>5. ASSUME NEW x \in Range(tasks) PROVE x.op = "list" /\ x.ns \in Range(Names)
  <2>1. PICK i \in DOMAIN Names : x = Task("list", Names[i], "")
    BY <1>5 DEF Range
  <2>2. Names[i] \in Range(Names)
    BY DEF Range
  <2>3. QED
    BY <2>1, <2>2 DEF Task
<1>6. todo' \in {tasks, << >>} /\ (k8sPc' = "dump" => todo' = tasks)
  BY DEF ListNamespaces
<1>7. \A ns \in Range(Names) : Task("list", ns, "") \in Range(tasks)
  BY DEF Range
<1> HIDE DEF tasks
<1>8. todo' \in Seq(Tasks) /\ \A x \in Range(todo') : x.op = "list" /\ x.ns \in Range(Names)
  BY <1>4, <1>5, <1>6, ShortTasks
<1>9. Range(todo)' = Range(todo') /\ Range(Names)' = Range(Names)
  BY <1>1 DEF Range
<1>10. faults' \in Nat /\ k8sPc' \in {"dump", "failed"}
  <2>1. PICK ok \in BOOLEAN : Outcome(ok) /\ k8sPc' = IF ok THEN "dump" ELSE "failed"
    BY DEF ListNamespaces
  <2>2. QED
    BY <2>1, Counting
<1>11. errors' \subseteq Seq(Text)
  <2>1. <<"namespaces">> \in Seq(Text)
    BY OpsAreTexts, Places
  <2>2. QED
    BY <2>1 DEF ListNamespaces, K8sTypeOK
<1>12. UNCHANGED <<opts, crType, kinds, archive, forwards>>
  BY DEF ListNamespaces
<1>13. K8sTypeOK'
  BY <1>8, <1>9, <1>10, <1>11, <1>12 DEF K8sTypeOK
<1>14. QED
  BY <1>6, <1>8, <1>13, <1>7

\* What each step of main does to the tasks, the archive and the errors.
LEMMA ListPodsSteps ==
    ASSUME K8sTypeOK, ListPods
    PROVE  LET ns == Head(todo).ns
               added == Range(todo') \ Range(Tail(todo))
           IN  /\ K8sTypeOK' /\ Range(Tail(todo)) \subseteq Range(todo')
               /\ \A t \in added : t.op \in {"resource", "certificates", "logs"}
               /\ \/ /\ \A t \in added : t.op = "logs" => t.ns = ns
                     /\ \A k \in Range(kinds) : Task("resource", ns, k) \in Range(todo')
                     /\ \A p \in Range(PodsOf[ns]) : Task("logs", ns, p) \in Range(todo')
                  \/ /\ \A t \in added : t.op # "logs"
                     /\ <<"list", ns>> \in errors'
               /\ errors \subseteq errors'
<1> DEFINE ns == Head(todo).ns
           pods == [i \in DOMAIN PodsOf[ns] |-> Task("logs", ns, PodsOf[ns][i])]
           rest == [i \in DOMAIN kinds |-> Task("resource", ns, kinds[i])]
                   \o [i \in DOMAIN SecretsOf(crType) |->
                         Task("certificates", ns, SecretsOf(crType)[i])]
           tasks(got) == CASE got = "pods" -> pods \o rest
                           [] got = "garbage" -> rest
                           [] got = "error" -> << >>
<1>1. k8sPc = "dump" /\ todo # << >> /\ Head(todo).op = "list"
  BY DEF ListPods, Doing
<1>2. Head(todo) \in Range(todo) /\ ns \in Text
  BY <1>1, CurrentTask
<1>3. ns \in Range(Names)
  BY <1>1, <1>2 DEF K8sTypeOK
<1>4. PICK got \in {"pods", "garbage", "error"} :
        /\ Outcome(got = "pods")
        /\ errors' = IF got = "pods" THEN errors ELSE errors \cup {<<"list", ns>>}
        /\ Replace(tasks(got))
  BY DEF ListPods
<1>5. /\ rest \in Seq(Tasks) /\ pods \o rest \in Seq(Tasks)
      /\ \A t \in Range(rest) : t.op \in {"resource", "certificates"}
      /\ \A t \in Range(pods \o rest) : \/ t.op \in {"resource", "certificates"}
                                        \/ t.op = "logs" /\ t.ns = ns
      /\ \A k \in Range(kinds) : Task("resource", ns, k) \in Range(pods \o rest)
      /\ \A p \in Range(PodsOf[ns]) : Task("logs", ns, p) \in Range(pods \o rest)
  BY <1>3, TasksOfNamespace
<1> HIDE DEF pods, rest
<1>6. /\ tasks(got) \in Seq(Tasks)
      /\ \A t \in Range(tasks(got)) : t.op \in {"resource", "certificates", "logs"}
      /\ got = "pods" =>
           /\ \A t \in Range(tasks(got)) : t.op = "logs" => t.ns = ns
           /\ \A k \in Range(kinds) : Task("resource", ns, k) \in Range(tasks(got))
           /\ \A p \in Range(PodsOf[ns]) : Task("logs", ns, p) \in Range(tasks(got))
      /\ got # "pods" => \A t \in Range(tasks(got)) : t.op # "logs"
  <2>1. \/ got = "pods" /\ tasks(got) = pods \o rest
        \/ got # "pods" /\ tasks(got) = rest
        \/ got # "pods" /\ tasks(got) = << >>
    BY <1>4
  <2>2. CASE got = "pods" /\ tasks(got) = pods \o rest
    <3> HIDE DEF tasks
    <3>1. QED
      BY <1>5, <2>2
  <2>3. CASE got # "pods" /\ tasks(got) = rest
    <3> HIDE DEF tasks
    <3>1. QED
      BY <1>5, <2>3
  <2>4. CASE got # "pods" /\ tasks(got) = << >>
    <3> HIDE DEF tasks
    <3>1. QED
      BY ShortTasks, <2>4
  <2> HIDE DEF tasks
  <2>5. QED
    BY <2>1, <2>2, <2>3, <2>4
<1> HIDE DEF tasks
<1>7. errors' \subseteq Seq(Text)
  <2>1. "list" \in Text
    BY OpsAreTexts DEF Ops
  <2>2. <<"list", ns>> \in Seq(Text)
    BY <1>2, <2>1, Places
  <2>3. QED
    BY <1>4, <2>2 DEF K8sTypeOK
<1>8. faults' \in Nat
  BY <1>4, Counting
<1>9. UNCHANGED <<opts, crType, kinds, k8sPc, archive, forwards>>
  BY DEF ListPods, Keep
<1>10. archive' \subseteq Archived /\ forwards' \in Seq(Forward)
  BY <1>9 DEF K8sTypeOK
<1>11. K8sTypeOK'
  BY <1>1, <1>4, <1>6, <1>7, <1>8, <1>9, <1>10, TypesOfTaskStep
<1>12. Range(todo') = Range(tasks(got)) \cup Range(Tail(todo))
  BY <1>1, <1>4, <1>6, Replacing
<1>13. CASE got = "pods"
  BY <1>4, <1>6, <1>11, <1>12, <1>13
<1>14. CASE got # "pods"
  BY <1>4, <1>6, <1>11, <1>12, <1>14
<1>15. QED
  BY <1>13, <1>14

LEMMA PodLogsSteps ==
    ASSUME K8sTypeOK, PodLogs
    PROVE  LET t == Head(todo)
               at == <<t.ns, "logs", t.pod>>
           IN  /\ K8sTypeOK' /\ Range(Tail(todo)) \subseteq Range(todo')
               /\ \A x \in Range(todo') \ Range(Tail(todo)) :
                    x.op \in {"instance-secret", "credentials", "file"}
               /\ \/ archive' = archive \cup {Entry(at, "error", t.pod)}
                  \/ /\ archive' = archive \cup {Entry(at, "output", t.pod)}
                     /\ Labels[t.pod].any => Announced(t.ns, t.pod, Range(todo'))
               /\ errors \subseteq errors'
<1> DEFINE t == Head(todo)
           tasks(ok) == IF ok THEN AfterLogs(t.ns, t.pod) ELSE << >>
<1>1. k8sPc = "dump" /\ todo # << >> /\ t.op = "logs"
  BY DEF PodLogs, Doing
<1>2. t.ns \in Text /\ t.pod \in Text
  BY <1>1, CurrentTask
<1>3. PICK ok \in BOOLEAN :
        /\ Outcome(ok)
        /\ archive' = archive \cup {Entry(<<t.ns, "logs", t.pod>>,
                                          IF ok THEN "output" ELSE "error", t.pod)}
        /\ errors' = IF ok THEN errors ELSE errors \cup {<<"logs", t.pod>>}
        /\ Replace(tasks(ok))
  BY DEF PodLogs
<1>4. /\ tasks(ok) \in Seq(Tasks)
      /\ \A x \in Range(tasks(ok)) : x.op \in {"instance-secret", "credentials", "file"}
      /\ ok /\ Labels[t.pod].any => Announced(t.ns, t.pod, Range(tasks(ok)))
  <2>1. CASE ok
    <3>1. tasks(ok) = AfterLogs(t.ns, t.pod)
      BY <2>1
    <3> HIDE DEF tasks
    <3>2. /\ AfterLogs(t.ns, t.pod) \in Seq(Tasks)
          /\ \A x \in Range(AfterLogs(t.ns, t.pod)) :
               x.op \in {"instance-secret", "credentials", "file"}
          /\ Labels[t.pod].any => Announced(t.ns, t.pod, Range(AfterLogs(t.ns, t.pod)))
      BY <1>2, TasksAfterLogs
    <3>3. QED
      BY <3>1, <3>2
  <2>2. CASE ~ok
    <3>1. tasks(ok) = << >>
      BY <2>2
    <3> HIDE DEF tasks
    <3>2. QED
      BY <2>2, <3>1, ShortTasks
  <2>3. QED
    BY <2>1, <2>2
<1> HIDE DEF tasks
<1>5. "logs" \in Text
  BY OpsAreTexts DEF Ops
<1>6. errors' \subseteq Seq(Text)
  <2>1. <<"logs", t.pod>> \in Seq(Text)
    BY <1>2, <1>5, Places
  <2>2. QED
    BY <1>3, <2>1 DEF K8sTypeOK
<1>7. archive' \subseteq Archived
  <2>1. <<t.ns, "logs", t.pod>> \in Seq(Text)
    BY <1>2, <1>5, Places
  <2>2. Entry(<<t.ns, "logs", t.pod>>, IF ok THEN "output" ELSE "error", t.pod) \in Archived
    BY <1>2, <2>1, EntriesAreArchived
  <2>3. QED
    BY <1>3, <2>2 DEF K8sTypeOK
<1>8. faults' \in Nat
  BY <1>3, Counting
<1>9. UNCHANGED <<opts, crType, kinds, k8sPc, forwards>>
  BY DEF PodLogs, Keep
<1>10. forwards' \in Seq(Forward)
  BY <1>9 DEF K8sTypeOK
<1>11. K8sTypeOK'
  BY <1>1, <1>3, <1>4, <1>6, <1>7, <1>8, <1>9, <1>10, TypesOfTaskStep
<1>12. Range(todo') = Range(tasks(ok)) \cup Range(Tail(todo))
  BY <1>1, <1>3, <1>4, Replacing
<1>13. CASE ok
  <2>1. archive' = archive \cup {Entry(<<t.ns, "logs", t.pod>>, "output", t.pod)}
    BY <1>3, <1>13
  <2>2. Labels[t.pod].any => Announced(t.ns, t.pod, Range(todo'))
    <3> DEFINE some == Range(tasks(ok))
               all == Range(todo')
    <3>1. some \subseteq all /\ (Labels[t.pod].any => Announced(t.ns, t.pod, some))
      BY <1>4, <1>12, <1>13
    <3> HIDE DEF some, all
    <3>2. Labels[t.pod].any => Announced(t.ns, t.pod, all)
      BY <3>1 DEF Announced
    <3>3. QED
      BY <3>2 DEF all
  <2>3. QED
    BY <1>3, <1>4, <1>11, <1>12, <1>13, <2>1, <2>2
<1>14. CASE ~ok
  <2>1. archive' = archive \cup {Entry(<<t.ns, "logs", t.pod>>, "error", t.pod)}
    BY <1>3, <1>14
  <2>2. QED
    BY <1>3, <1>4, <1>11, <1>12, <2>1
<1>15. QED
  BY <1>13, <1>14

LEMMA CollectSteps ==
    ASSUME K8sTypeOK, Collect
    PROVE  LET t == Head(todo)
           IN  /\ K8sTypeOK' /\ todo' = Tail(todo)
               /\ \E what \in {"output", "nothing", "error"} :
                    archive' = archive \cup Filing(t, what)
               /\ errors \subseteq errors'
<1> DEFINE t == Head(todo)
<1>1. k8sPc = "dump" /\ todo # << >> /\ Replace(<< >>)
  BY DEF Collect, Doing
<1>2. t.ns \in Text /\ t.pod \in Text /\ t.op \in Text
  BY <1>1, CurrentTask, OpsAreTexts
<1>3. PICK what \in {"output", "nothing", "error"} :
        /\ Outcome(what = "output")
        /\ archive' = archive \cup Filing(t, what)
        /\ errors' = IF what # "error" \/ t.op = "certificates" THEN errors
                     ELSE errors \cup {<<t.op, t.pod>>}
  BY DEF Collect
<1>4. errors' \subseteq Seq(Text)
  <2>1. <<t.op, t.pod>> \in Seq(Text)
    BY <1>2, Places
  <2>2. QED
    BY <1>3, <2>1 DEF K8sTypeOK
<1>5. Filing(t, what) \subseteq Archived
  <2>1. /\ <<t.ns, t.op, t.pod>> \in Seq(Text)
        /\ <<t.ns, t.pod>> \in Seq(Text)
    BY <1>2, Places
  <2>2. /\ Entry(Place(t), what, t.pod) \in Archived
        /\ Entry(<<t.ns, t.pod>>, what, t.pod) \in Archived
    <3>1. \A at \in Seq(Text) : Entry(at, what, t.pod) \in Archived
      BY <1>2, EntriesAreArchived
    <3>2. Place(t) \in Seq(Text)
      BY <2>1 DEF Place
    <3>3. QED
      BY <2>1, <3>1, <3>2
  <2>3. QED
    BY <2>2 DEF Filing
<1>6. archive' \subseteq Archived
  BY <1>3, <1>5 DEF K8sTypeOK
<1>7. faults' \in Nat
  BY <1>3, Counting
<1>8. UNCHANGED <<opts, crType, kinds, k8sPc, forwards>>
  BY DEF Collect, Keep
<1>9. forwards' \in Seq(Forward)
  BY <1>8 DEF K8sTypeOK
<1>10. K8sTypeOK'
  BY <1>1, <1>4, <1>6, <1>7, <1>8, <1>9, ShortTasks, TypesOfTaskStep
<1>11. Tail(todo) \in Seq(Tasks)
  BY <1>1, HeadAndTail DEF K8sTypeOK
<1>12. todo' = Tail(todo)
  BY <1>1, <1>11, OnTop DEF Replace
<1>13. QED
  BY <1>3, <1>10, <1>12

LEMMA CredentialsSteps ==
    ASSUME K8sTypeOK, Credentials
    PROVE  LET t == Head(todo)
               spawn == Task("spawn", t.ns, t.pod)
           IN  /\ K8sTypeOK'
               /\ \/ /\ todo' # << >> /\ Head(todo') = spawn /\ Tail(todo') = Tail(todo)
                     /\ archive' = archive
                  \/ /\ todo' = Tail(todo)
                     /\ archive' = archive \cup {Entry(<<t.ns, "summary", t.pod>>, "error", t.pod)}
               /\ errors \subseteq errors'
<1> DEFINE t == Head(todo)
           tasks(ok) == IF ok THEN <<Task("spawn", t.ns, t.pod)>> ELSE << >>
<1>1. k8sPc = "dump" /\ todo # << >>
  BY DEF Credentials, Doing
<1>2. t.ns \in Text /\ t.pod \in Text
  BY <1>1, CurrentTask
<1>3. PICK ok \in BOOLEAN :
        /\ Outcome(ok)
        /\ archive' = IF ok THEN archive
                      ELSE archive \cup {Entry(<<t.ns, "summary", t.pod>>, "error", t.pod)}
        /\ errors' = IF ok THEN errors ELSE errors \cup {<<"summary", t.pod>>}
        /\ Replace(tasks(ok))
  BY DEF Credentials
<1>4. Tail(todo) \in Seq(Tasks)
  BY <1>1, HeadAndTail DEF K8sTypeOK
<1>5. /\ tasks(ok) \in Seq(Tasks)
      /\ \A x \in Range(tasks(ok)) : x.op # "list" /\ x.op # "summary"
      /\ \/ /\ ok
            /\ tasks(ok) \o Tail(todo) # << >>
            /\ Head(tasks(ok) \o Tail(todo)) = Task("spawn", t.ns, t.pod)
            /\ Tail(tasks(ok) \o Tail(todo)) = Tail(todo)
         \/ ~ok /\ tasks(ok) \o Tail(todo) = Tail(todo)
  <2>1. Task("spawn", t.ns, t.pod) \in Tasks /\ Task("spawn", t.ns, t.pod).op = "spawn"
    BY <1>2 DEF Task, Tasks, Ops
  <2>2. CASE ok
    <3>1. PICK x \in Tasks : x = Task("spawn", t.ns, t.pod) /\ x.op = "spawn" /\ tasks(ok) = <<x>>
      BY <2>1, <2>2
    <3> HIDE DEF tasks
    <3>2. tasks(ok) \in Seq(Tasks) /\ Range(tasks(ok)) = {x}
      BY <3>1, ShortTasks
    <3>3. /\ tasks(ok) \o Tail(todo) # << >>
          /\ Head(tasks(ok) \o Tail(todo)) = x /\ Tail(tasks(ok) \o Tail(todo)) = Tail(todo)
      BY <1>4, <3>1, OnTop
    <3>4. QED
      BY <2>2, <3>1, <3>2, <3>3
  <2>3. CASE ~ok
    <3>1. tasks(ok) = << >>
      BY <2>3
    <3> HIDE DEF tasks
    <3>2. QED
      BY <1>4, <2>3, <3>1, ShortTasks, OnTop
  <2>4. QED
    BY <2>2, <2>3
<1> HIDE DEF tasks
<1>6. "summary" \in Text
  BY OpsAreTexts DEF Ops
<1>7. errors' \subseteq Seq(Text)
  <2>1. <<"summary", t.pod>> \in Seq(Text)
    BY <1>2, <1>6, Places
  <2>2. QED
    BY <1>3, <2>1 DEF K8sTypeOK
<1>8. archive' \subseteq Archived
  <2>1. <<t.ns, "summary", t.pod>> \in Seq(Text)
    BY <1>2, <1>6, Places
  <2>2. Entry(<<t.ns, "summary", t.pod>>, "error", t.pod) \in Archived
    BY <1>2, <2>1, EntriesAreArchived
  <2>3. QED
    BY <1>3, <2>2 DEF K8sTypeOK
<1>9. faults' \in Nat
  BY <1>3, Counting
<1>10. UNCHANGED <<opts, crType, kinds, k8sPc, forwards>>
  BY DEF Credentials, Keep
<1>11. forwards' \in Seq(Forward)
  BY <1>10 DEF K8sTypeOK
<1>12. K8sTypeOK'
  BY <1>1, <1>3, <1>5, <1>7, <1>8, <1>9, <1>10, <1>11, TypesOfTaskStep
<1>13. todo' = tasks(ok) \o Tail(todo)
  BY <1>3 DEF Replace
<1>14. QED
  BY <1>3, <1>5, <1>12, <1>13

LEMMA SpawnSteps ==
    ASSUME K8sTypeOK, Spawn
    PROVE  /\ K8sTypeOK'
           /\ todo' # << >> /\ Tail(todo') = Tail(todo)
           /\ Head(todo') = Task("summary", Head(todo).ns, Head(todo).pod)
           /\ Len(forwards') = Len(forwards) + 1
           /\ \A i \in DOMAIN forwards : forwards'[i] = forwards[i]
           /\ forwards'[Len(forwards) + 1].pod = Head(todo).pod
           /\ forwards'[Len(forwards) + 1].state = "spawned"
<1> DEFINE t == Head(todo)
           f == [pod |-> t.pod, state |-> "spawned", seen |-> {}]
           s == Task("summary", t.ns, t.pod)
<1>1. k8sPc = "dump" /\ todo # << >>
  BY DEF Spawn, Doing
<1>2. t.ns \in Text /\ t.pod \in Text
  BY <1>1, CurrentTask
<1>3. s \in Tasks /\ s.op = "summary"
  BY <1>2 DEF Task, Tasks, Ops
<1>4. f \in Forward /\ f.pod = t.pod /\ f.state = "spawned"
  BY <1>2 DEF Forward, ForwardStates, Alive
<1>5. forwards' = Append(forwards, f) /\ Replace(<<s>>) /\ forwards \in Seq(Forward)
  BY DEF Spawn, K8sTypeOK
<1> HIDE DEF f, s
<1>6. /\ forwards' \in Seq(Forward) /\ forwards' # << >>
      /\ Len(forwards') = Len(forwards) + 1
      /\ \A i \in DOMAIN forwards : forwards'[i] = forwards[i]
      /\ forwards'[Len(forwards) + 1] = f
  BY <1>4, <1>5
<1>7. UNCHANGED <<opts, crType, kinds, k8sPc, archive, errors, faults>>
  BY DEF Spawn, Keep
<1>8. archive' \subseteq Archived /\ errors' \subseteq Seq(Text) /\ faults' \in Nat
  BY <1>7 DEF K8sTypeOK
<1>9. <<s>> \in Seq(Tasks) /\ \A x \in Range(<<s>>) : x.op # "list"
  BY <1>3, ShortTasks
<1>10. K8sTypeOK'
  BY <1>1, <1>5, <1>6, <1>7, <1>8, <1>9, TypesOfTaskStep
<1>11. Tail(todo) \in Seq(Tasks) /\ todo' = <<s>> \o Tail(todo)
  BY <1>1, <1>5, HeadAndTail DEF K8sTypeOK, Replace
<1>12. todo' # << >> /\ Tail(todo') = Tail(todo) /\ Head(todo') = s
  BY <1>3, <1>11, OnTop
<1>13. QED
  BY <1>4, <1>6, <1>10, <1>12 DEF s

\* What the summary of a pod leaves in the archive, and of the port-forward.
LEMMA SummarySteps ==
    ASSUME K8sTypeOK, Summary
    PROVE  /\ K8sTypeOK'
           /\ forwards # << >> /\ Len(forwards') = Len(forwards)
           /\ \A j \in DOMAIN forwards : Moves(forwards[j], forwards'[j])
           /\ k8sPc' = "dump" => forwards'[Len(forwards)].state \notin Alive
           /\ errors \subseteq errors' /\ todo' = Tail(todo)
           /\ \/ archive' = archive /\ k8sPc' = "panic"
              \/ \E pod \in Answering(Head(todo).pod) :
                   archive' = archive \cup
                     {Entry(<<Head(todo).ns, "summary", Head(todo).pod>>, "output", pod)}
              \/ archive' = archive \cup
                   {Entry(<<Head(todo).ns, "summary", Head(todo).pod>>, "error", Head(todo).pod)}
<1> DEFINE t == Head(todo)
           at == <<t.ns, "summary", t.pod>>
           kill == IF forwards[Len(forwards)].state \in {"exited", "exited-read", "over"}
                   THEN {<<"kill">>} ELSE {}
<1>1. k8sPc = "dump" /\ todo # << >> /\ t.op = "summary" /\ Replace(<< >>)
  BY DEF Summary, Doing
<1>2. t.ns \in Text /\ t.pod \in Text /\ t \in Range(todo)
  BY <1>1, CurrentTask
<1>3. forwards # << >>
  BY <1>1, <1>2 DEF K8sTypeOK
<1>4. KillForward(Len(forwards))
  BY DEF Summary
<1>5. /\ k8sPc' \in {"dump", "panic"}
      /\ forwards' \in Seq(Forward) /\ Len(forwards') = Len(forwards)
      /\ \A j \in DOMAIN forwards : Moves(forwards[j], forwards'[j])
      /\ k8sPc' = "dump" => forwards'[Len(forwards)].state \notin Alive
  BY <1>3, <1>4, KillMoves
<1>6. "summary" \in Text /\ <<"kill">> \in Seq(Text)
  BY OpsAreTexts, Places DEF Ops
<1>7. at \in Seq(Text) /\ <<"summary", t.pod>> \in Seq(Text)
  BY <1>2, <1>6, Places
<1>8. kill \subseteq Seq(Text)
  BY <1>6
<1>9. \A pod \in Answering(t.pod) : pod \in Text
  <2>1. ASSUME NEW i \in DOMAIN forwards PROVE forwards[i].pod \in Text
    <3>1. forwards[i] \in Forward
      BY DEF K8sTypeOK
    <3>2. QED
      BY <3>1 DEF Forward
  <2>2. QED
    BY <1>2, <2>1 DEF Answering, Listening
<1>10. \/ \E pod \in Answering(t.pod) :
            /\ archive' = IF k8sPc' = "panic" THEN archive
                          ELSE archive \cup {Entry(at, "output", pod)}
            /\ errors' = errors \cup kill
            /\ UNCHANGED faults
       \/ /\ Outcome(Answering(t.pod) = {})
          /\ errors' = errors \cup kill \cup {<<"summary", t.pod>>}
          /\ archive' = IF k8sPc' = "panic" THEN archive
                        ELSE archive \cup {Entry(at, "error", t.pod)}
  BY DEF Summary
<1> HIDE DEF kill, at
<1>11. errors \subseteq errors' /\ errors' \subseteq Seq(Text)
  BY <1>7, <1>8, <1>10 DEF K8sTypeOK
<1>12. faults' \in Nat
  BY <1>10, Counting DEF K8sTypeOK
<1>13. \/ archive' = archive /\ k8sPc' = "panic"
       \/ \E pod \in Answering(t.pod) : archive' = archive \cup {Entry(at, "output", pod)}
       \/ archive' = archive \cup {Entry(at, "error", t.pod)}
  BY <1>10
<1>14. archive' \subseteq Archived
  <2>1. Entry(at, "error", t.pod) \in Archived
    BY <1>2, <1>7, EntriesAreArchived
  <2>2. \A pod \in Answering(t.pod) : Entry(at, "output", pod) \in Archived
    BY <1>7, <1>9, EntriesAreArchived
  <2>3. archive \subseteq Archived
    BY DEF K8sTypeOK
  <2>4. QED
    BY <1>13, <2>1, <2>2, <2>3
<1>15. UNCHANGED <<opts, crType, kinds>>
  BY DEF Summary, Keep
<1>16. forwards' # << >>
  BY <1>3, <1>5 DEF K8sTypeOK
<1>17. K8sTypeOK'
  BY <1>1, <1>5, <1>11, <1>12, <1>14, <1>15, <1>16, ShortTasks, TypesOfTaskStep
<1>18. Tail(todo) \in Seq(Tasks)
  BY <1>1, HeadAndTail DEF K8sTypeOK
<1>19. todo' = Tail(todo)
  BY <1>1, <1>18, OnTop DEF Replace
<1>20. QED
  BY <1>3, <1>5, <1>11, <1>13, <1>17, <1>19 DEF at

LEMMA NodesTypes == K8sTypeOK /\ Nodes => K8sTypeOK'
<1> SUFFICES ASSUME K8sTypeOK, Nodes PROVE K8sTypeOK'
  OBVIOUS
<1>1. PICK ok \in BOOLEAN :
        /\ Outcome(ok)
        /\ archive' = archive \cup
             {Entry(<<"nodes">>, IF ok THEN "output" ELSE "error", "")}
        /\ errors' = IF ok THEN errors ELSE errors \cup {<<"nodes">>}
  BY DEF Nodes
<1>2. "" \in Text /\ <<"nodes">> \in Seq(Text)
  BY OpsAreTexts, Places
<1>3. Entry(<<"nodes">>, IF ok THEN "output" ELSE "error", "") \in Archived
  BY <1>2, EntriesAreArchived
<1>4. archive' \subseteq Archived /\ errors' \subseteq Seq(Text)
  BY <1>1, <1>2, <1>3 DEF K8sTypeOK
<1>5. faults' \in Nat
  BY <1>1, Counting
<1>6. UNCHANGED <<opts, crType, kinds, todo, forwards>> /\ k8sPc' = "done"
  BY DEF Nodes
<1>7. Range(todo)' = Range(todo) /\ Range(Names)' = Range(Names)
  BY <1>6 DEF Range, Names
<1>8. QED
  BY <1>4, <1>5, <1>6, <1>7 DEF K8sTypeOK

LEMMA GoroutineTypes == K8sTypeOK /\ K8sForward => K8sTypeOK'
<1> SUFFICES ASSUME K8sTypeOK, K8sForward PROVE K8sTypeOK'
  OBVIOUS
<1>1. PICK i \in DOMAIN forwards : ForwardStarts(i) \/ ForwardReads(i) \/ ForwardWrites(i)
  BY DEF K8sForward
<1>2. /\ forwards' \in Seq(Forward) /\ Len(forwards') = Len(forwards)
      /\ UNCHANGED <<opts, k8sPc, crType, kinds, todo, archive>>
      /\ errors' \subseteq Seq(Text) /\ faults' \in Nat
  BY <1>1, ForwardMoves
<1>3. forwards # << >> /\ forwards' # << >>
  BY <1>1, <1>2 DEF K8sTypeOK
<1>4. Range(todo)' = Range(todo) /\ Range(Names)' = Range(Names)
  BY <1>2 DEF Range, Names
<1>5. QED
  BY <1>2, <1>3, <1>4 DEF K8sTypeOK

LEMMA NextKeepsTypes == K8sTypeOK /\ [K8sNext]_k8sVars => K8sTypeOK'
<1> SUFFICES ASSUME K8sTypeOK, [K8sNext]_k8sVars PROVE K8sTypeOK'
  OBVIOUS
<1>1. CASE K8sMain
  BY <1>1, NewTypes, ListNamespacesSteps, ListPodsSteps, PodLogsSteps, CollectSteps,
     CredentialsSteps, SpawnSteps, SummarySteps, NodesTypes DEF K8sMain
<1>2. CASE K8sForward
  BY <1>2, GoroutineTypes
<1>3. CASE UNCHANGED k8sVars
  <2>1. Range(todo)' = Range(todo) /\ Range(Names)' = Range(Names)
    BY <1>3 DEF k8sVars, Range, Names
  <2>2. QED
    BY <1>3, <2>1 DEF k8sVars, K8sTypeOK
<1>4. QED
  BY <1>1, <1>2, <1>3 DEF K8sNext

\* The collector keeps its state within its types, whichever calls fail.
THEOREM K8sTypeCorrect == K8sSpec => []K8sTypeOK
  BY TypesAtFirst, NextKeepsTypes, PTL DEF K8sSpec

----------------------------------------------------------------------------
(* Whose port-forward answers *)

\* No task of q starts a port-forward or takes a summary.
Calm(q) == \A t \in Range(q) : t.op \notin {"spawn", "summary"}

\* Only the head of the tasks may be about a port-forward; a port-forward that
\* may be listening is the youngest one, and the head is the summary of its pod.
PortInv ==
    /\ SummaryIsOfItsPod
    /\ k8sPc = "dump" =>
         /\ todo # << >> => Calm(Tail(todo))
         /\ \A i \in DOMAIN forwards : forwards[i].state \in Alive =>
              i = Len(forwards) /\ todo # << >> /\ Head(todo).op = "summary"
         /\ todo # << >> /\ Head(todo).op = "summary" =>
              forwards # << >> /\ forwards[Len(forwards)].pod = Head(todo).pod

\* An entry that is no summary, or the summary of its own pod.
Honest(e) == Len(e.at) = 3 /\ e.at[2] = "summary" /\ e.what = "output" => e.from = e.at[3]

LEMMA HonestEntries ==
    \A ns, pod, op, what, from :
        /\ what = "error" => Honest(Entry(ns, what, from))
        /\ op # "summary" => Honest(Entry(<<ns, op, pod>>, what, from))
        /\ from = pod => Honest(Entry(<<ns, op, pod>>, what, from))
        /\ Honest(Entry(<<ns, pod>>, what, from)) /\ Honest(Entry(<<ns>>, what, from))
  BY DEF Honest, Entry

LEMMA FilingStaysHonest ==
    ASSUME SummaryIsOfItsPod, NEW more, archive' = archive \cup more,
           \A e \in more : Honest(e)
    PROVE  SummaryIsOfItsPod'
<1>1. \A e \in archive : Honest(e)
  BY DEF SummaryIsOfItsPod, Honest
<1>2. \A e \in archive' : Honest(e)
  BY <1>1
<1>3. QED
  BY <1>2 DEF SummaryIsOfItsPod, Honest

LEMMA FilingOneStaysHonest ==
    ASSUME SummaryIsOfItsPod, NEW e, archive' = archive \cup {e}, Honest(e)
    PROVE  SummaryIsOfItsPod'
<1> DEFINE more == {e}
<1>1. archive' = archive \cup more /\ \A x \in more : Honest(x)
  OBVIOUS
<1> HIDE DEF more
<1>2. QED
  BY <1>1, FilingStaysHonest

LEMMA SameArchiveStaysHonest ==
    ASSUME SummaryIsOfItsPod, archive' = archive PROVE SummaryIsOfItsPod'
  BY DEF SummaryIsOfItsPod

\* After the head of a calm rest everything is calm.
LEMMA CalmTasks ==
    ASSUME NEW q \in Seq(Tasks), Calm(q)
    PROVE  q # << >> => Calm(Tail(q)) /\ Head(q).op \notin {"spawn", "summary"}
  BY HeadAndTail DEF Calm

LEMMA CalmAtFirst == K8sInit => PortInv
  BY DEF K8sInit, PortInv, SummaryIsOfItsPod

\* A step that leaves the port-forwards alone, and calm tasks only.
LEMMA CalmStep ==
    ASSUME K8sTypeOK, K8sTypeOK', PortInv, k8sPc = "dump", todo # << >>,
           Head(todo).op # "summary", forwards' = forwards, Calm(todo'), SummaryIsOfItsPod'
    PROVE  PortInv'
<1>1. \A i \in DOMAIN forwards' : forwards'[i].state \notin Alive
  BY DEF PortInv
<1>2. todo' \in Seq(Tasks)
  BY DEF K8sTypeOK
<1>3. todo' # << >> => Calm(Tail(todo')) /\ Head(todo').op \notin {"spawn", "summary"}
  BY <1>2, CalmTasks
<1>4. Calm(Tail(todo))' <=> Calm(Tail(todo'))
  BY DEF Calm, Range
<1>5. QED
  BY <1>1, <1>3, <1>4 DEF PortInv

LEMMA MainKeepsPort ==
    ASSUME K8sTypeOK, K8sTypeOK', PortInv, K8sMain
    PROVE  PortInv'
<1> USE DEF PortInv
<1>1. CASE New
  BY <1>1, SameArchiveStaysHonest DEF New
<1>2. CASE ListNamespaces
  <2>1. /\ \A x \in Range(todo') : x.op = "list"
        /\ forwards' = forwards /\ archive' = archive /\ k8sPc = "namespaces"
    BY <1>2, ListNamespacesSteps DEF ListNamespaces
  <2>2. forwards' = << >>
    BY <2>1 DEF K8sTypeOK
  <2>3. todo' \in Seq(Tasks) /\ Calm(todo')
    BY <2>1 DEF K8sTypeOK, Calm
  <2>4. todo' # << >> => Calm(Tail(todo')) /\ Head(todo').op \notin {"spawn", "summary"}
    BY <2>3, CalmTasks
  <2>5. Calm(Tail(todo))' <=> Calm(Tail(todo'))
    BY DEF Calm, Range
  <2>6. QED
    BY <2>1, <2>2, <2>4, <2>5, SameArchiveStaysHonest
<1>3. CASE ListPods
  <2>1. /\ k8sPc = "dump" /\ todo # << >> /\ Head(todo).op = "list"
        /\ archive' = archive /\ forwards' = forwards
    BY <1>3 DEF ListPods, Doing, Keep
  <2>2. Calm(todo')
    BY <1>3, <2>1, ListPodsSteps DEF Calm
  <2>3. QED
    BY <2>1, <2>2, CalmStep, SameArchiveStaysHonest
<1>4. CASE PodLogs
  <2>1. /\ k8sPc = "dump" /\ todo # << >> /\ Head(todo).op = "logs" /\ forwards' = forwards
    BY <1>4 DEF PodLogs, Doing, Keep
  <2>2. Calm(todo')
    BY <1>4, <2>1, PodLogsSteps DEF Calm
  <2> DEFINE at == <<Head(todo).ns, "logs", Head(todo).pod>>
  <2>3. PICK what : archive' = archive \cup {Entry(at, what, Head(todo).pod)}
    BY <1>4, PodLogsSteps
  <2>4. Honest(Entry(at, what, Head(todo).pod))
    BY HonestEntries
  <2>5. SummaryIsOfItsPod'
    BY <2>3, <2>4, FilingOneStaysHonest
  <2>6. QED
    BY <2>1, <2>2, <2>5, CalmStep
<1>5. CASE Collect
  <2> DEFINE t == Head(todo)
  <2>1. /\ k8sPc = "dump" /\ todo # << >> /\ t.op # "summary" /\ forwards' = forwards
    BY <1>5 DEF Collect, Doing, Keep
  <2>2. todo' = Tail(todo)
    BY <1>5, CollectSteps
  <2>3. Calm(todo')
    BY <2>1, <2>2
  <2>4. PICK what \in {"output", "nothing", "error"} : archive' = archive \cup Filing(t, what)
    BY <1>5, CollectSteps
  <2>5. \A e \in Filing(t, what) : Honest(e)
    <3>1. /\ Honest(Entry(Place(t), what, t.pod))
          /\ Honest(Entry(<<t.ns, t.pod>>, what, t.pod))
      BY HonestEntries DEF Place
    <3>2. QED
      BY <3>1 DEF Filing
  <2>6. SummaryIsOfItsPod'
    BY <2>4, <2>5, FilingStaysHonest
  <2>7. QED
    BY <2>1, <2>3, <2>6, CalmStep
<1>6. CASE Credentials
  <2> DEFINE t == Head(todo)
  <2>1. /\ k8sPc = "dump" /\ todo # << >> /\ t.op # "summary" /\ forwards' = forwards
        /\ k8sPc' = k8sPc
    BY <1>6 DEF Credentials, Doing, Keep
  <2>2. CASE /\ todo' # << >> /\ Head(todo') = Task("spawn", t.ns, t.pod)
             /\ Tail(todo') = Tail(todo) /\ archive' = archive
    <3>1. Head(todo').op = "spawn"
      BY <2>2 DEF Task
    <3>2. Calm(Tail(todo))' <=> Calm(Tail(todo))
      BY <2>2 DEF Calm, Range
    <3>3. \A i \in DOMAIN forwards' : forwards'[i].state \notin Alive
      BY <2>1
    <3>4. QED
      BY <2>1, <2>2, <3>1, <3>2, <3>3, SameArchiveStaysHonest
  <2>3. CASE /\ todo' = Tail(todo)
             /\ archive' = archive \cup {Entry(<<t.ns, "summary", t.pod>>, "error", t.pod)}
    <3> DEFINE e == Entry(<<t.ns, "summary", t.pod>>, "error", t.pod)
    <3>1. Honest(e)
      BY HonestEntries
    <3>2. SummaryIsOfItsPod'
      BY <2>3, <3>1, FilingOneStaysHonest
    <3>3. Calm(todo')
      BY <2>1, <2>3
    <3>4. QED
      BY <2>1, <3>2, <3>3, CalmStep
  <2>4. QED
    BY <1>6, <2>2, <2>3, CredentialsSteps
<1>7. CASE Spawn
  <2>1. /\ k8sPc = "dump" /\ todo # << >> /\ Head(todo).op = "spawn"
        /\ archive' = archive
    BY <1>7 DEF Spawn, Doing, Keep
  <2>2. /\ todo' # << >> /\ Tail(todo') = Tail(todo)
        /\ Head(todo') = Task("summary", Head(todo).ns, Head(todo).pod)
        /\ Len(forwards') = Len(forwards) + 1
        /\ \A i \in DOMAIN forwards : forwards'[i] = forwards[i]
        /\ forwards'[Len(forwards) + 1].pod = Head(todo).pod
    BY <1>7, SpawnSteps
  <2>3. Head(todo').op = "summary" /\ Head(todo').pod = Head(todo).pod
    BY <2>2 DEF Task
  <2>4. forwards \in Seq(Forward) /\ forwards' \in Seq(Forward)
    BY DEF K8sTypeOK
  <2>5. forwards' # << >> /\ forwards'[Len(forwards')].pod = Head(todo').pod
    BY <2>2, <2>3, <2>4
  <2>6. \A i \in DOMAIN forwards' : forwards'[i].state \in Alive => i = Len(forwards')
    <3>1. \A i \in DOMAIN forwards : forwards[i].state \notin Alive
      BY <2>1
    <3>2. \A i \in DOMAIN forwards' : i = Len(forwards') \/ i \in DOMAIN forwards
      BY <2>2, <2>4
    <3>3. QED
      BY <2>2, <3>1, <3>2
  <2>7. Calm(Tail(todo))' <=> Calm(Tail(todo))
    BY <2>2 DEF Calm, Range
  <2>8. QED
    BY <2>1, <2>2, <2>3, <2>5, <2>6, <2>7, SameArchiveStaysHonest
<1>8. CASE Summary
  <2> DEFINE t == Head(todo)
  <2>1. k8sPc = "dump" /\ todo # << >> /\ t.op = "summary"
    BY <1>8 DEF Summary, Doing
  <2>2. /\ forwards # << >> /\ Len(forwards') = Len(forwards) /\ todo' = Tail(todo)
        /\ \A j \in DOMAIN forwards : Moves(forwards[j], forwards'[j])
        /\ k8sPc' = "dump" => forwards'[Len(forwards)].state \notin Alive
        /\ \/ archive' = archive
           \/ \E pod \in Answering(t.pod) :
                archive' = archive \cup {Entry(<<t.ns, "summary", t.pod>>, "output", pod)}
           \/ archive' = archive \cup {Entry(<<t.ns, "summary", t.pod>>, "error", t.pod)}
    BY <1>8, SummarySteps
  <2>3. \A pod \in Answering(t.pod) : pod = t.pod
    BY <2>1 DEF Answering, Listening, Alive
  <2>4. SummaryIsOfItsPod'
    <3>1. /\ Honest(Entry(<<t.ns, "summary", t.pod>>, "output", t.pod))
          /\ Honest(Entry(<<t.ns, "summary", t.pod>>, "error", t.pod))
      BY HonestEntries
    <3>2. CASE archive' = archive
      BY <3>2, SameArchiveStaysHonest
    <3>3. CASE archive' = archive \cup {Entry(<<t.ns, "summary", t.pod>>, "output", t.pod)}
      BY <3>1, <3>3, FilingOneStaysHonest
    <3>4. CASE archive' = archive \cup {Entry(<<t.ns, "summary", t.pod>>, "error", t.pod)}
      BY <3>1, <3>4, FilingOneStaysHonest
    <3>5. QED
      BY <2>2, <2>3, <3>2, <3>3, <3>4
  <2>5. todo' \in Seq(Tasks) /\ Calm(todo')
    BY <2>1, <2>2 DEF K8sTypeOK
  <2>6. todo' # << >> => Calm(Tail(todo')) /\ Head(todo').op \notin {"spawn", "summary"}
    BY <2>5, CalmTasks
  <2>7. Calm(Tail(todo))' <=> Calm(Tail(todo'))
    BY DEF Calm, Range
  <2>8. k8sPc' = "dump" => \A i \in DOMAIN forwards' : forwards'[i].state \notin Alive
    <3>1. forwards \in Seq(Forward) /\ forwards' \in Seq(Forward)
      BY DEF K8sTypeOK
    <3>2. \A i \in DOMAIN forwards : i # Len(forwards) => forwards[i].state \notin Alive
      BY <2>1
    <3>3. DOMAIN forwards' = DOMAIN forwards
      BY <2>2, <3>1
    <3>4. QED
      BY <2>1, <2>2, <3>3 DEF Moves
  <2>9. QED
    BY <2>4, <2>6, <2>7, <2>8
<1>9. CASE Nodes
  <2>1. k8sPc' = "done"
    BY <1>9 DEF Nodes
  <2>2. PICK what : archive' = archive \cup {Entry(<<"nodes">>, what, "")}
    BY <1>9 DEF Nodes
  <2>3. Honest(Entry(<<"nodes">>, what, ""))
    BY HonestEntries
  <2>4. SummaryIsOfItsPod'
    BY <2>2, <2>3, FilingOneStaysHonest
  <2>5. QED
    BY <2>1, <2>4
<1>10. QED
  BY <1>1, <1>2, <1>3, <1>4, <1>5, <1>6, <1>7, <1>8, <1>9 DEF K8sMain

LEMMA GoroutinesKeepPort ==
    ASSUME K8sTypeOK, K8sTypeOK', PortInv, K8sForward
    PROVE  PortInv'
<1>1. PICK i \in DOMAIN forwards : ForwardStarts(i) \/ ForwardReads(i) \/ ForwardWrites(i)
  BY DEF K8sForward
<1>2. /\ Len(forwards') = Len(forwards)
      /\ \A j \in DOMAIN forwards : Moves(forwards[j], forwards'[j])
      /\ UNCHANGED <<k8sPc, todo, archive>>
  BY <1>1, ForwardMoves
<1>3. forwards \in Seq(Forward) /\ forwards' \in Seq(Forward)
  BY DEF K8sTypeOK
<1>4. DOMAIN forwards' = DOMAIN forwards
      /\ (forwards # << >> => forwards' # << >> /\ Len(forwards) \in DOMAIN forwards)
  BY <1>2, <1>3
<1>5. SummaryIsOfItsPod'
  BY <1>2, SameArchiveStaysHonest DEF PortInv
<1>6. Calm(Tail(todo))' <=> Calm(Tail(todo))
  BY <1>2 DEF Calm, Range
<1>7. \A j \in DOMAIN forwards' : forwards'[j].state \in Alive => forwards[j].state \in Alive
  BY <1>2, <1>4 DEF Moves
<1>8. forwards # << >> => forwards'[Len(forwards)].pod = forwards[Len(forwards)].pod
  BY <1>2, <1>4 DEF Moves
<1>9. QED
  BY <1>2, <1>4, <1>5, <1>6, <1>7, <1>8 DEF PortInv

\* A summary in the archive was taken from the pod it is filed under: no
\* port-forward of an earlier pod is left to answer on the local port
\* (getPodSummary and its deferred Process.Kill).
THEOREM SummariesAreTheirPods == K8sSpec => []SummaryIsOfItsPod
<1>1. K8sInit => K8sTypeOK /\ PortInv
  BY TypesAtFirst, CalmAtFirst
<1>2. K8sTypeOK /\ PortInv /\ [K8sNext]_k8sVars => (K8sTypeOK /\ PortInv)'
  <2> SUFFICES ASSUME K8sTypeOK, PortInv, [K8sNext]_k8sVars
               PROVE  K8sTypeOK' /\ PortInv'
    OBVIOUS
  <2>1. K8sTypeOK'
    BY NextKeepsTypes
  <2>2. CASE K8sMain
    BY <2>1, <2>2, MainKeepsPort
  <2>3. CASE K8sForward
    BY <2>1, <2>3, GoroutinesKeepPort
  <2>4. CASE UNCHANGED k8sVars
    <3>1. Calm(Tail(todo))' <=> Calm(Tail(todo))
      BY <2>4 DEF k8sVars, Calm, Range
    <3>2. QED
      BY <2>1, <2>4, <3>1, SameArchiveStaysHonest DEF PortInv, k8sVars
  <2>5. QED
    BY <2>1, <2>2, <2>3, <2>4 DEF K8sNext
<1>3. PortInv => SummaryIsOfItsPod
  BY DEF PortInv
<1>4. QED
  BY <1>1, <1>2, <1>3, PTL DEF K8sSpec

----------------------------------------------------------------------------
(* Nothing gets lost on the way to the archive *)

\* A task of this kind is still to be done.
Left(op, ns, pod) == Task(op, ns, pod) \in Range(todo)

Behind(ns, pod) == ~Labels[pod].any \/ LogFailed(ns, pod)

SummarySettled(ns, pod) ==
    \/ Behind(ns, pod) \/ SummaryFiled(ns, pod)
    \/ \E op \in {"credentials", "spawn", "summary"} : Left(op, ns, pod)

PieceSettled(op, ns, pod) ==
    \/ Behind(ns, pod) \/ ~IsDue(op, Labels[pod]) \/ PieceFiled(op, ns, pod)
    \/ Left(op, ns, pod)

Pieces == {"instance-secret", "file"}

PodTracked(ns, pod) ==
    \/ Left("logs", ns, pod)
    \/ /\ Filed(<<ns, "logs", pod>>)
       /\ SummarySettled(ns, pod) /\ \A op \in Pieces : PieceSettled(op, ns, pod)

\* Whatever is wanted of the namespace is in the archive or still to be done.
Tracked(ns) ==
    /\ \A k \in Range(kinds) : Left("resource", ns, k) \/ Filed(<<ns, "resource", k>>)
    /\ \A pod \in Range(PodsOf[ns]) : PodTracked(ns, pod)

\* The pods of the namespace are not known to main.
Untouched(ns) ==
    \A pod \in Range(PodsOf[ns]) : ~Left("logs", ns, pod) /\ ~Filed(<<ns, "logs", pod>>)

\* A namespace that is not tracked has lost its pods to a failed listing, and the
\* line of errors.txt that says so can only be missing after a port-forward.
WorkInv ==
    /\ OnlyCertificatesMissSilently
    /\ k8sPc = "dump" =>
         \A ns \in Range(Names) :
           /\ \/ Left("list", ns, "") \/ <<"list", ns>> \in errors
              \/ Tracked(ns) \/ forwards # << >>
           /\ Tracked(ns) \/ Untouched(ns)

LEMMA LeftAfter ==
    ASSUME NEW op, NEW ns, NEW pod
    PROVE  Left(op, ns, pod)' <=> Task(op, ns, pod) \in Range(todo')
  BY DEF Left, Range, Task

LEMMA FiledAfter ==
    ASSUME NEW at PROVE Filed(at)' <=> \E e \in archive' : e.at = at
  BY DEF Filed

LEMMA BehindAfter ==
    ASSUME NEW ns, NEW pod
    PROVE  Behind(ns, pod)' <=>
             ~Labels[pod].any \/ Entry(<<ns, "logs", pod>>, "error", pod) \in archive'
  BY DEF Behind, LogFailed, Entry

LEMMA SettledAfter ==
    ASSUME NEW ns, NEW pod, UNCHANGED <<opts, crType>>
    PROVE  SummarySettled(ns, pod)' <=>
             \/ Behind(ns, pod)'
             \/ opts.skip \/ ~Matches(Labels[pod]) \/ Filed(<<ns, "summary", pod>>)'
             \/ \E op \in {"credentials", "spawn", "summary"} : Left(op, ns, pod)'
  BY DEF SummarySettled, SummaryFiled, Matches

LEMMA SameDue ==
    ASSUME NEW op, NEW l, UNCHANGED crType PROVE IsDue(op, l)' <=> IsDue(op, l)
  BY DEF IsDue, Matches

LEMMA PieceAfter ==
    ASSUME NEW op, NEW ns, NEW pod, UNCHANGED crType
    PROVE  PieceSettled(op, ns, pod)' <=>
             \/ Behind(ns, pod)' \/ ~IsDue(op, Labels[pod])
             \/ PieceFiled(op, ns, pod)' \/ Left(op, ns, pod)'
<1>1. IsDue(op, Labels[pod])' <=> IsDue(op, Labels[pod])
  BY DEF IsDue, Matches
<1>2. QED
  BY <1>1 DEF PieceSettled

LEMMA PodAfter ==
    ASSUME NEW ns, NEW pod
    PROVE  PodTracked(ns, pod)' <=>
             \/ Left("logs", ns, pod)'
             \/ /\ Filed(<<ns, "logs", pod>>)'
                /\ SummarySettled(ns, pod)' /\ \A op \in Pieces : PieceSettled(op, ns, pod)'
  BY DEF PodTracked

LEMMA TrackedAfter ==
    ASSUME NEW ns, kinds' = kinds
    PROVE  Tracked(ns)' <=>
             /\ \A k \in Range(kinds) :
                  Left("resource", ns, k)' \/ Filed(<<ns, "resource", k>>)'
             /\ \A pod \in Range(PodsOf[ns]) : PodTracked(ns, pod)'
<1>1. Range(kinds)' = Range(kinds) /\ Range(PodsOf[ns])' = Range(PodsOf[ns])
  BY DEF Range
<1>2. QED
  BY <1>1 DEF Tracked

LEMMA UntouchedAfter ==
    ASSUME NEW ns
    PROVE  Untouched(ns)' <=>
             \A pod \in Range(PodsOf[ns]) :
               ~Left("logs", ns, pod)' /\ ~Filed(<<ns, "logs", pod>>)'
<1>1. Range(PodsOf[ns])' = Range(PodsOf[ns])
  BY DEF Range
<1>2. QED
  BY <1>1 DEF Untouched

\* The archive grows, and the only task that goes is t, done.
Proceeds(t) ==
    /\ UNCHANGED <<opts, crType, kinds>>
    /\ archive \subseteq archive'
    /\ \A x \in Range(todo) : x = t \/ x \in Range(todo')
    /\ t.op = "resource" => Filed(<<t.ns, "resource", t.pod>>)'
    /\ t.op = "logs" => PodTracked(t.ns, t.pod)'
    /\ t.op \in {"credentials", "spawn", "summary"} => SummarySettled(t.ns, t.pod)'
    /\ t.op \in Pieces => PieceFiled(t.op, t.ns, t.pod)'

LEMMA StaysFiled ==
    ASSUME archive \subseteq archive', NEW at, Filed(at) PROVE Filed(at)'
  BY DEF Filed

LEMMA StaysBehind ==
    ASSUME archive \subseteq archive', NEW ns, NEW pod, Behind(ns, pod)
    PROVE  Behind(ns, pod)'
  BY BehindAfter DEF Behind, LogFailed

LEMMA StaysLeft ==
    ASSUME NEW t, Proceeds(t), NEW op, NEW ns, NEW pod, Left(op, ns, pod)
    PROVE  \/ Left(op, ns, pod)'
           \/ t.op = op /\ t.ns = ns /\ t.pod = pod
<1>1. Task(op, ns, pod) = t \/ Task(op, ns, pod) \in Range(todo')
  BY DEF Proceeds, Left
<1>2. QED
  BY <1>1, LeftAfter DEF Task

LEMMA StaysSettled ==
    ASSUME NEW t, Proceeds(t), NEW ns, NEW pod, SummarySettled(ns, pod)
    PROVE  SummarySettled(ns, pod)'
<1>1. UNCHANGED <<opts, crType>> /\ archive \subseteq archive'
  BY DEF Proceeds
<1>2. CASE Behind(ns, pod) \/ opts.skip \/ ~Matches(Labels[pod])
  BY <1>1, <1>2, SettledAfter, StaysBehind
<1>3. CASE Filed(<<ns, "summary", pod>>)
  <2>1. Filed(<<ns, "summary", pod>>)'
    BY <1>1, <1>3, StaysFiled
  <2>2. QED
    BY <1>1, <2>1, SettledAfter
<1>4. ASSUME NEW op \in {"credentials", "spawn", "summary"}, Left(op, ns, pod)
      PROVE  SummarySettled(ns, pod)'
  <2>1. CASE Left(op, ns, pod)'
    BY <1>1, <2>1, SettledAfter
  <2>2. CASE t.op = op /\ t.ns = ns /\ t.pod = pod
    BY <2>2 DEF Proceeds
  <2>3. QED
    BY <1>4, <2>1, <2>2, StaysLeft
<1>5. QED
  BY <1>2, <1>3, <1>4 DEF SummarySettled, SummaryFiled

LEMMA StaysInPieces ==
    ASSUME NEW t, Proceeds(t), NEW ns, NEW pod, NEW op \in Pieces, PieceSettled(op, ns, pod)
    PROVE  PieceSettled(op, ns, pod)'
<1>1. UNCHANGED crType /\ archive \subseteq archive'
  BY DEF Proceeds
<1>2. CASE Behind(ns, pod) \/ ~IsDue(op, Labels[pod])
  BY <1>1, <1>2, PieceAfter, StaysBehind
<1>3. CASE PieceFiled(op, ns, pod)
  <2>1. PieceFiled(op, ns, pod)'
    BY <1>1, <1>3, StaysFiled DEF PieceFiled
  <2>2. QED
    BY <1>1, <2>1, PieceAfter
<1>4. CASE Left(op, ns, pod)
  <2>1. CASE Left(op, ns, pod)'
    BY <1>1, <2>1, PieceAfter
  <2>2. CASE t.op = op /\ t.ns = ns /\ t.pod = pod
    BY <1>1, <2>2, PieceAfter DEF Proceeds
  <2>3. QED
    BY <1>4, <2>1, <2>2, StaysLeft
<1>5. QED
  BY <1>2, <1>3, <1>4 DEF PieceSettled

LEMMA StaysTracked ==
    ASSUME NEW t, Proceeds(t), NEW ns, Tracked(ns)
    PROVE  Tracked(ns)'
<1>1. kinds' = kinds /\ archive \subseteq archive'
  BY DEF Proceeds
<1>2. ASSUME NEW k \in Range(kinds)
      PROVE  Left("resource", ns, k)' \/ Filed(<<ns, "resource", k>>)'
  <2>1. CASE Filed(<<ns, "resource", k>>)
    BY <1>1, <2>1, StaysFiled
  <2>2. CASE Left("resource", ns, k)
    <3>1. Left("resource", ns, k)' \/ (t.op = "resource" /\ t.ns = ns /\ t.pod = k)
      BY <2>2, StaysLeft
    <3>2. QED
      BY <3>1 DEF Proceeds
  <2>3. QED
    BY <1>2, <2>1, <2>2 DEF Tracked
<1>3. ASSUME NEW pod \in Range(PodsOf[ns])
      PROVE  PodTracked(ns, pod)'
  <2>1. CASE Left("logs", ns, pod)
    <3>1. Left("logs", ns, pod)' \/ (t.op = "logs" /\ t.ns = ns /\ t.pod = pod)
      BY <2>1, StaysLeft
    <3>2. CASE Left("logs", ns, pod)'
      BY <3>2, PodAfter
    <3>3. CASE t.op = "logs" /\ t.ns = ns /\ t.pod = pod
      BY <3>3 DEF Proceeds
    <3>4. QED
      BY <3>1, <3>2, <3>3
  <2>2. CASE /\ Filed(<<ns, "logs", pod>>) /\ SummarySettled(ns, pod)
             /\ \A op \in Pieces : PieceSettled(op, ns, pod)
    <3>1. /\ Filed(<<ns, "logs", pod>>)' /\ SummarySettled(ns, pod)'
          /\ \A op \in Pieces : PieceSettled(op, ns, pod)'
      BY <1>1, <2>2, StaysFiled, StaysSettled, StaysInPieces
    <3>2. QED
      BY <3>1, PodAfter
  <2>3. QED
    BY <1>3, <2>1, <2>2 DEF Tracked, PodTracked
<1>4. QED
  BY <1>1, <1>2, <1>3, TrackedAfter

LEMMA StaysUntouched ==
    ASSUME NEW ns, Untouched(ns),
           \A x \in Range(todo') : x.op = "logs" /\ x.ns = ns => x \in Range(todo),
           \A e \in archive' : \/ e \in archive
                               \/ \A pod \in Range(PodsOf[ns]) : e.at # <<ns, "logs", pod>>
    PROVE  Untouched(ns)'
<1>1. ASSUME NEW pod \in Range(PodsOf[ns]), Left("logs", ns, pod)' PROVE FALSE
  <2>1. Task("logs", ns, pod) \in Range(todo')
    BY <1>1, LeftAfter
  <2>2. Task("logs", ns, pod).op = "logs" /\ Task("logs", ns, pod).ns = ns
    BY DEF Task
  <2>3. Left("logs", ns, pod)
    BY <2>1, <2>2 DEF Left
  <2>4. QED
    BY <1>1, <2>3 DEF Untouched
<1>2. ASSUME NEW pod \in Range(PodsOf[ns]), Filed(<<ns, "logs", pod>>)' PROVE FALSE
  <2>1. PICK e \in archive' : e.at = <<ns, "logs", pod>>
    BY <1>2, FiledAfter
  <2>2. e \in archive
    BY <1>2, <2>1
  <2>3. QED
    BY <1>2, <2>1, <2>2 DEF Filed, Untouched
<1>3. QED
  BY <1>1, <1>2, UntouchedAfter

LEMMA SameWork ==
    ASSUME UNCHANGED <<opts, crType, kinds, todo, archive>>, NEW ns
    PROVE  (Tracked(ns) => Tracked(ns)') /\ (Untouched(ns) => Untouched(ns)')
<1>1. \A op, n, pod : Left(op, n, pod)' <=> Left(op, n, pod)
  BY DEF Left, Range, Task
<1>2. \A at : Filed(at)' <=> Filed(at)
  BY DEF Filed
<1>2a. \A pod : Behind(ns, pod) => Behind(ns, pod)'
  BY StaysBehind
<1>3. \A pod : SummarySettled(ns, pod) => SummarySettled(ns, pod)'
  <2>1. ASSUME NEW pod, SummarySettled(ns, pod) PROVE SummarySettled(ns, pod)'
    BY <1>1, <1>2, <1>2a, <2>1, SettledAfter DEF SummarySettled, SummaryFiled
  <2>2. QED
    BY <2>1
<1>3a. \A pod : \A op \in Pieces : PieceSettled(op, ns, pod) => PieceSettled(op, ns, pod)'
  <2>1. ASSUME NEW pod, NEW op \in Pieces, PieceSettled(op, ns, pod)
        PROVE  PieceSettled(op, ns, pod)'
    <3>1. PieceFiled(op, ns, pod) => PieceFiled(op, ns, pod)'
      BY <1>2 DEF PieceFiled
    <3>2. QED
      BY <1>1, <1>2a, <2>1, <3>1, PieceAfter DEF PieceSettled
  <2>2. QED
    BY <2>1
<1>4. \A pod : PodTracked(ns, pod) => PodTracked(ns, pod)'
  BY <1>1, <1>2, <1>3, <1>3a, PodAfter DEF PodTracked
<1>5. Tracked(ns) => Tracked(ns)'
  BY <1>1, <1>2, <1>4, TrackedAfter DEF Tracked
<1>6. Untouched(ns) => Untouched(ns)'
  BY <1>1, <1>2, UntouchedAfter DEF Untouched
<1>7. QED
  BY <1>5, <1>6

LEMMA WorkGoesOn ==
    ASSUME WorkInv, k8sPc = "dump", NEW t, Proceeds(t), k8sPc' # "done",
           errors \subseteq errors', forwards # << >> => forwards' # << >>,
           t.op = "list" => <<"list", t.ns>> \in errors' \/ Tracked(t.ns)',
           \A ns \in Range(Names) : Untouched(ns) => Tracked(ns)' \/ Untouched(ns)'
    PROVE  WorkInv'
<1>1. Range(Names)' = Range(Names)
  BY DEF Proceeds, Names, Range
<1>2. OnlyCertificatesMissSilently'
  BY DEF OnlyCertificatesMissSilently
<1>3. ASSUME NEW ns \in Range(Names)
      PROVE  /\ \/ Left("list", ns, "")' \/ <<"list", ns>> \in errors'
                \/ Tracked(ns)' \/ forwards' # << >>
             /\ Tracked(ns)' \/ Untouched(ns)'
  <2>1. Tracked(ns) => Tracked(ns)'
    BY StaysTracked
  <2>2. Left("list", ns, "") => Left("list", ns, "")' \/ (t.op = "list" /\ t.ns = ns)
    BY StaysLeft
  <2>3. t.op = "list" /\ t.ns = ns => <<"list", ns>> \in errors' \/ Tracked(ns)'
    OBVIOUS
  <2>4. QED
    BY <1>3, <2>1, <2>2, <2>3 DEF WorkInv
<1>4. QED
  BY <1>1, <1>2, <1>3 DEF WorkInv

LEMMA MainKeepsWork ==
    ASSUME K8sTypeOK, K8sTypeOK', WorkInv, K8sMain
    PROVE  WorkInv'
<1>1. CASE New
  <2>1. k8sPc' \in {"namespaces", "panic"}
    BY <1>1 DEF New
  <2>2. QED
    BY <2>1 DEF WorkInv, OnlyCertificatesMissSilently
<1>2. CASE ListNamespaces
  <2>1. /\ k8sPc' \in {"dump", "failed"} /\ archive' = {} /\ Names' = Names
        /\ \A x \in Range(todo') : x.op = "list"
        /\ k8sPc' = "dump" => \A ns \in Range(Names) : Task("list", ns, "") \in Range(todo')
    BY <1>2, ListNamespacesSteps DEF ListNamespaces, K8sTypeOK, Names
  <2>2. Range(Names)' = Range(Names)
    BY <2>1 DEF Range
  <2>3. ASSUME k8sPc' = "dump", NEW ns \in Range(Names)
        PROVE  Left("list", ns, "")' /\ Untouched(ns)'
    <3>1. \A pod : ~Left("logs", ns, pod)'
      BY <2>1, LeftAfter DEF Task
    <3>2. \A at : ~Filed(at)'
      BY <2>1, FiledAfter
    <3>3. QED
      BY <2>1, <2>3, <3>1, <3>2, LeftAfter, UntouchedAfter
  <2>4. QED
    BY <2>1, <2>2, <2>3 DEF WorkInv, OnlyCertificatesMissSilently
<1>3. ASSUME k8sPc = "dump", todo # << >>, NEW t, t = Head(todo)
      PROVE  /\ t \in Range(todo) /\ t = Task(t.op, t.ns, t.pod)
             /\ Range(todo) = {t} \cup Range(Tail(todo))
  BY <1>3, CurrentTask, HeadAndTail DEF K8sTypeOK
<1>4. CASE ListPods
  <2>1. PICK t : t = Head(todo)
    OBVIOUS
  <2>2. /\ k8sPc = "dump" /\ todo # << >> /\ t.op = "list"
        /\ UNCHANGED <<opts, crType, kinds, k8sPc, archive, forwards>>
    BY <1>4, <2>1 DEF ListPods, Doing, Keep
  <2>3. /\ Range(Tail(todo)) \subseteq Range(todo')
        /\ \/ /\ \A x \in Range(todo') \ Range(Tail(todo)) : x.op = "logs" => x.ns = t.ns
              /\ \A k \in Range(kinds) : Task("resource", t.ns, k) \in Range(todo')
              /\ \A p \in Range(PodsOf[t.ns]) : Task("logs", t.ns, p) \in Range(todo')
           \/ /\ \A x \in Range(todo') \ Range(Tail(todo)) : x.op # "logs"
              /\ <<"list", t.ns>> \in errors'
        /\ errors \subseteq errors'
    BY <1>4, <2>1, ListPodsSteps
  <2>4. Range(todo) = {t} \cup Range(Tail(todo))
    BY <1>3, <2>1, <2>2
  <2>5. Proceeds(t)
    BY <2>2, <2>3, <2>4 DEF Proceeds, Pieces
  <2>6. ASSUME NEW ns, Untouched(ns),
               \A x \in Range(todo') \ Range(Tail(todo)) : x.op = "logs" => x.ns # ns
        PROVE  Untouched(ns)'
    BY <2>2, <2>4, <2>6, StaysUntouched
  <2>7. CASE /\ \A x \in Range(todo') \ Range(Tail(todo)) : x.op = "logs" => x.ns = t.ns
             /\ \A k \in Range(kinds) : Task("resource", t.ns, k) \in Range(todo')
             /\ \A p \in Range(PodsOf[t.ns]) : Task("logs", t.ns, p) \in Range(todo')
    <3>1. Tracked(t.ns)'
      BY <2>2, <2>7, LeftAfter, PodAfter, TrackedAfter
    <3>2. \A ns \in Range(Names) : Untouched(ns) => Tracked(ns)' \/ Untouched(ns)'
      BY <2>6, <2>7, <3>1
    <3>3. QED
      BY <2>2, <2>3, <2>5, <3>1, <3>2, WorkGoesOn
  <2>8. CASE /\ \A x \in Range(todo') \ Range(Tail(todo)) : x.op # "logs"
             /\ <<"list", t.ns>> \in errors'
    <3>1. \A ns \in Range(Names) : Untouched(ns) => Untouched(ns)'
      BY <2>6, <2>8
    <3>2. QED
      BY <2>2, <2>3, <2>5, <2>8, <3>1, WorkGoesOn
  <2>9. QED
    BY <2>3, <2>7, <2>8
<1>5. CASE PodLogs
  <2>1. PICK t : t = Head(todo)
    OBVIOUS
  <2> DEFINE at == <<t.ns, "logs", t.pod>>
  <2>2. /\ k8sPc = "dump" /\ todo # << >> /\ t.op = "logs"
        /\ UNCHANGED <<opts, crType, kinds, k8sPc, forwards>>
    BY <1>5, <2>1 DEF PodLogs, Doing, Keep
  <2>3. /\ Range(Tail(todo)) \subseteq Range(todo')
        /\ \A x \in Range(todo') \ Range(Tail(todo)) :
             x.op \in {"instance-secret", "credentials", "file"}
        /\ \/ archive' = archive \cup {Entry(at, "error", t.pod)}
           \/ /\ archive' = archive \cup {Entry(at, "output", t.pod)}
              /\ Labels[t.pod].any => Announced(t.ns, t.pod, Range(todo'))
        /\ errors \subseteq errors'
    BY <1>5, <2>1, PodLogsSteps
  <2>4. /\ Range(todo) = {t} \cup Range(Tail(todo)) /\ t \in Range(todo)
        /\ t = Task("logs", t.ns, t.pod)
    BY <1>3, <2>1, <2>2
  <2>5. PICK what : archive' = archive \cup {Entry(at, what, t.pod)}
    BY <2>3
  <2>6. Entry(at, what, t.pod).at = at /\ Entry(at, what, t.pod) \in archive'
    BY <2>5 DEF Entry
  <2>7. Filed(<<t.ns, "logs", t.pod>>)'
    BY <2>6, FiledAfter
  <2>8. /\ SummarySettled(t.ns, t.pod)'
        /\ \A op \in Pieces : PieceSettled(op, t.ns, t.pod)'
    <3>1. CASE archive' = archive \cup {Entry(at, "error", t.pod)}
      <4>1. Entry(<<t.ns, "logs", t.pod>>, "error", t.pod) \in archive'
        BY <3>1
      <4>2. Behind(t.ns, t.pod)'
        BY <4>1, BehindAfter
      <4>3. QED
        BY <2>2, <4>2, SettledAfter, PieceAfter
    <3>2. CASE ~Labels[t.pod].any
      <4>1. Behind(t.ns, t.pod)'
        BY <3>2, BehindAfter
      <4>2. QED
        BY <2>2, <4>1, SettledAfter, PieceAfter
    <3>3. CASE Announced(t.ns, t.pod, Range(todo'))
      <4>1. SummarySettled(t.ns, t.pod)'
        <5>1. CASE Left("credentials", t.ns, t.pod)'
          BY <2>2, <5>1, SettledAfter
        <5>2. CASE opts.skip \/ ~Matches(Labels[t.pod])
          BY <2>2, <5>2, SettledAfter
        <5>3. Left("credentials", t.ns, t.pod)' \/ opts.skip \/ ~Matches(Labels[t.pod])
          BY <3>3, LeftAfter DEF Announced
        <5>4. QED
          BY <5>1, <5>2, <5>3
      <4>2. ASSUME NEW op \in Pieces PROVE PieceSettled(op, t.ns, t.pod)'
        <5>1. IsDue(op, Labels[t.pod]) => Left(op, t.ns, t.pod)'
          BY <3>3, LeftAfter DEF Announced, Pieces
        <5>2. QED
          BY <2>2, <5>1, PieceAfter
      <4>3. QED
        BY <4>1, <4>2
    <3>4. QED
      BY <2>3, <3>1, <3>2, <3>3
  <2>9. PodTracked(t.ns, t.pod)'
    BY <2>7, <2>8, PodAfter
  <2>10. Proceeds(t)
    BY <2>2, <2>3, <2>4, <2>5, <2>9 DEF Proceeds, Pieces
  <2>11. ASSUME NEW ns, Untouched(ns) PROVE Untouched(ns)'
    <3>1. t.ns = ns => t.pod \notin Range(PodsOf[ns])
      BY <2>4, <2>11 DEF Untouched, Left
    <3>2. \A pod \in Range(PodsOf[ns]) : at # <<ns, "logs", pod>>
      BY <3>1
    <3>3. \A e \in archive' : \/ e \in archive
                              \/ \A pod \in Range(PodsOf[ns]) : e.at # <<ns, "logs", pod>>
      BY <2>5, <2>6, <3>2
    <3>4. \A x \in Range(todo') : x.op = "logs" => x \in Range(todo)
      BY <2>3, <2>4
    <3>5. QED
      BY <2>11, <3>3, <3>4, StaysUntouched
  <2>12. QED
    BY <2>2, <2>3, <2>10, <2>11, WorkGoesOn
<1>6. CASE Collect
  <2>1. PICK t : t = Head(todo)
    OBVIOUS
  <2>2. /\ k8sPc = "dump" /\ todo # << >>
        /\ t.op \in {"resource", "instance-secret", "certificates", "file"}
        /\ UNCHANGED <<opts, crType, kinds, k8sPc, forwards>>
    BY <1>6, <2>1 DEF Collect, Doing, Keep
  <2>3. /\ todo' = Tail(todo) /\ errors \subseteq errors'
    BY <1>6, CollectSteps
  <2>4. PICK what \in {"output", "nothing", "error"} : archive' = archive \cup Filing(t, what)
    BY <1>6, <2>1, CollectSteps
  <2>5. Range(todo) = {t} \cup Range(Tail(todo))
    BY <1>3, <2>1, <2>2
  <2>6. \A e \in Filing(t, what) : e.at = <<t.ns, t.op, t.pod>> \/ e.at = <<t.ns, t.pod>>
    BY DEF Filing, Place, Entry
  <2>7. t.op = "resource" => Filed(<<t.ns, "resource", t.pod>>)'
    <3>1. ASSUME t.op = "resource"
          PROVE  \E e \in Filing(t, what) : e.at = <<t.ns, "resource", t.pod>>
      BY <3>1 DEF Filing, Place, Entry
    <3>2. QED
      BY <2>4, <3>1, FiledAfter
  <2>7a. t.op \in Pieces => PieceFiled(t.op, t.ns, t.pod)'
    <3>1. CASE t.op \in Pieces /\ (t.op = "file" => what # "error")
      <4>1. \E e \in Filing(t, what) : e.at = <<t.ns, t.op, t.pod>>
        BY <3>1 DEF Filing, Place, Entry, Pieces
      <4>2. Filed(<<t.ns, t.op, t.pod>>)'
        BY <2>4, <4>1, FiledAfter
      <4>3. QED
        BY <4>2 DEF PieceFiled
    <3>2. CASE t.op = "file" /\ what = "error"
      <4>1. \E e \in Filing(t, what) : e.at = <<t.ns, t.pod>>
        BY <3>2 DEF Filing, Entry
      <4>2. Filed(<<t.ns, t.pod>>)'
        BY <2>4, <4>1, FiledAfter
      <4>3. QED
        BY <3>2, <4>2 DEF PieceFiled
    <3>3. QED
      BY <3>1, <3>2
  <2>8. Proceeds(t)
    BY <2>2, <2>3, <2>4, <2>5, <2>7, <2>7a DEF Proceeds, Pieces
  <2>9. ASSUME NEW ns, Untouched(ns) PROVE Untouched(ns)'
    <3>1. \A pod : /\ <<t.ns, t.op, t.pod>> # <<ns, "logs", pod>>
                   /\ <<t.ns, t.pod>> # <<ns, "logs", pod>>
      BY <2>2
    <3>2. \A e \in archive' : \/ e \in archive
                              \/ \A pod \in Range(PodsOf[ns]) : e.at # <<ns, "logs", pod>>
      BY <2>4, <2>6, <3>1
    <3>3. \A x \in Range(todo') : x \in Range(todo)
      BY <2>3, <2>5
    <3>4. QED
      BY <2>9, <3>2, <3>3, StaysUntouched
  <2>10. QED
    BY <2>2, <2>3, <2>8, <2>9, WorkGoesOn
<1>7. ASSUME NEW t, t = Head(todo), k8sPc = "dump", todo # << >>, t.op # "list",
             Proceeds(t), k8sPc' # "done", errors \subseteq errors',
             forwards # << >> => forwards' # << >>,
             \A x \in Range(todo') : x.op = "logs" => x \in Range(todo),
             \A e \in archive' : e \in archive \/ e.at = <<t.ns, "summary", t.pod>>
      PROVE  WorkInv'
  <2>1. ASSUME NEW ns, Untouched(ns) PROVE Untouched(ns)'
    <3>1. \A pod : <<t.ns, "summary", t.pod>> # <<ns, "logs", pod>>
      OBVIOUS
    <3>2. QED
      BY <1>7, <2>1, <3>1, StaysUntouched
  <2>2. QED
    BY <1>7, <2>1, WorkGoesOn
<1>8. CASE Credentials
  <2>1. PICK t : t = Head(todo)
    OBVIOUS
  <2>2. /\ k8sPc = "dump" /\ todo # << >> /\ t.op = "credentials"
        /\ UNCHANGED <<opts, crType, kinds, k8sPc, forwards>>
    BY <1>8, <2>1 DEF Credentials, Doing, Keep
  <2>3. Range(todo) = {t} \cup Range(Tail(todo)) /\ todo' \in Seq(Tasks)
    BY <1>3, <2>1, <2>2 DEF K8sTypeOK
  <2> DEFINE spawn == Task("spawn", t.ns, t.pod)
             e == Entry(<<t.ns, "summary", t.pod>>, "error", t.pod)
  <2>4. /\ errors \subseteq errors'
        /\ \/ /\ todo' # << >> /\ Head(todo') = spawn /\ Tail(todo') = Tail(todo)
              /\ archive' = archive
           \/ todo' = Tail(todo) /\ archive' = archive \cup {e}
    BY <1>8, <2>1, CredentialsSteps
  <2>5. spawn.op = "spawn" /\ e.at = <<t.ns, "summary", t.pod>>
    BY DEF Task, Entry
  <2>6. CASE /\ todo' # << >> /\ Head(todo') = spawn /\ Tail(todo') = Tail(todo)
             /\ archive' = archive
    <3>1. Range(todo') = {spawn} \cup Range(Tail(todo))
      BY <2>3, <2>6, HeadAndTail
    <3>2. Left("spawn", t.ns, t.pod)'
      BY <3>1, LeftAfter
    <3>3. SummarySettled(t.ns, t.pod)'
      BY <2>2, <3>2, SettledAfter
    <3>4. Proceeds(t)
      BY <2>2, <2>3, <2>6, <3>1, <3>3 DEF Proceeds, Pieces
    <3>5. QED
      BY <1>7, <2>1, <2>2, <2>3, <2>4, <2>5, <2>6, <3>1, <3>4
  <2>7. CASE todo' = Tail(todo) /\ archive' = archive \cup {e}
    <3>1. Filed(<<t.ns, "summary", t.pod>>)'
      BY <2>5, <2>7, FiledAfter
    <3>2. SummarySettled(t.ns, t.pod)'
      BY <2>2, <3>1, SettledAfter
    <3>3. Proceeds(t)
      BY <2>2, <2>3, <2>7, <3>2 DEF Proceeds, Pieces
    <3>4. QED
      BY <1>7, <2>1, <2>2, <2>3, <2>4, <2>5, <2>7, <3>3
  <2>8. QED
    BY <2>4, <2>6, <2>7
<1>9. CASE Spawn
  <2>1. PICK t : t = Head(todo)
    OBVIOUS
  <2>2. /\ k8sPc = "dump" /\ todo # << >> /\ t.op = "spawn"
        /\ UNCHANGED <<opts, crType, kinds, k8sPc, archive, errors>>
    BY <1>9, <2>1 DEF Spawn, Doing, Keep
  <2>3. Range(todo) = {t} \cup Range(Tail(todo)) /\ todo' \in Seq(Tasks)
    BY <1>3, <2>1, <2>2 DEF K8sTypeOK
  <2> DEFINE s == Task("summary", t.ns, t.pod)
  <2>4. /\ todo' # << >> /\ Tail(todo') = Tail(todo) /\ Head(todo') = s
        /\ Len(forwards') = Len(forwards) + 1
    BY <1>9, <2>1, SpawnSteps
  <2>5. forwards' # << >>
    BY <2>4 DEF K8sTypeOK
  <2>6. Range(todo') = {s} \cup Range(Tail(todo)) /\ s.op = "summary"
    BY <2>3, <2>4, HeadAndTail DEF Task
  <2>7. Left("summary", t.ns, t.pod)'
    BY <2>6, LeftAfter
  <2>8. SummarySettled(t.ns, t.pod)'
    BY <2>2, <2>7, SettledAfter
  <2>9. Proceeds(t)
    BY <2>2, <2>3, <2>6, <2>8 DEF Proceeds, Pieces
  <2>10. QED
    BY <1>7, <2>1, <2>2, <2>3, <2>5, <2>6, <2>9
<1>10. CASE Summary
  <2>1. PICK t : t = Head(todo)
    OBVIOUS
  <2>2. /\ k8sPc = "dump" /\ todo # << >> /\ t.op = "summary"
        /\ UNCHANGED <<opts, crType, kinds>> /\ k8sPc' \in {"dump", "panic"}
    BY <1>10, <2>1 DEF Summary, KillForward, Doing, Keep
  <2>3. Range(todo) = {t} \cup Range(Tail(todo))
    BY <1>3, <2>1, <2>2
  <2> DEFINE at == <<t.ns, "summary", t.pod>>
  <2>4. /\ forwards # << >> /\ Len(forwards') = Len(forwards)
        /\ errors \subseteq errors' /\ todo' = Tail(todo)
        /\ \/ archive' = archive /\ k8sPc' = "panic"
           \/ \E pod \in Answering(t.pod) : archive' = archive \cup {Entry(at, "output", pod)}
           \/ archive' = archive \cup {Entry(at, "error", t.pod)}
    BY <1>10, <2>1, SummarySteps
  <2>5. CASE k8sPc' = "panic"
    BY <2>5 DEF WorkInv, OnlyCertificatesMissSilently
  <2>6. ASSUME NEW what, NEW pod, archive' = archive \cup {Entry(at, what, pod)}
        PROVE  WorkInv'
    <3>1. Entry(at, what, pod).at = at
      BY DEF Entry
    <3>2. Filed(<<t.ns, "summary", t.pod>>)'
      BY <2>6, <3>1, FiledAfter
    <3>3. SummarySettled(t.ns, t.pod)'
      BY <2>2, <3>2, SettledAfter
    <3>4. Proceeds(t)
      BY <2>2, <2>3, <2>4, <2>6, <3>3 DEF Proceeds, Pieces
    <3>5. forwards' # << >>
      BY <2>4 DEF K8sTypeOK
    <3>6. \A x \in archive' : x \in archive \/ x.at = <<t.ns, "summary", t.pod>>
      BY <2>6, <3>1
    <3>7. QED
      BY <1>7, <2>1, <2>2, <2>3, <2>4, <3>4, <3>5, <3>6
  <2>7. QED
    BY <2>4, <2>5, <2>6
<1>11. CASE Nodes
  <2>1. /\ k8sPc = "dump" /\ todo = << >> /\ errors \subseteq errors'
        /\ UNCHANGED <<opts, crType, kinds, todo, forwards>> /\ k8sPc' = "done"
    BY <1>11 DEF Nodes
  <2>2. PICK what : archive' = archive \cup {Entry(<<"nodes">>, what, "")}
    BY <1>11 DEF Nodes
  <2>3. Entry(<<"nodes">>, what, "").at = <<"nodes">>
    BY DEF Entry
  <2>4. Filed(<<"nodes">>)' /\ archive \subseteq archive'
    BY <2>2, <2>3, FiledAfter
  <2>5. \A op, ns, pod : ~Left(op, ns, pod)
    BY <2>1 DEF Left, Range
  <2>6. ASSUME NEW ns \in Range(Names)
        PROVE  \/ <<"list", ns>> \in errors'
               \/ forwards' # << >> /\ \A pod \in Range(PodsOf[ns]) : ~Filed(<<ns, "logs", pod>>)'
               \/ /\ \A k \in Range(kinds) : Filed(<<ns, "resource", k>>)'
                  /\ \A pod \in Range(PodsOf[ns]) :
                       /\ Filed(<<ns, "logs", pod>>)'
                       /\ \/ Behind(ns, pod)'
                          \/ /\ SummaryFiled(ns, pod)'
                             /\ \A op \in Pieces :
                                  IsDue(op, Labels[pod]) => PieceFiled(op, ns, pod)'
    <3>1. CASE Tracked(ns)
      <4>1. \A k \in Range(kinds) : Filed(<<ns, "resource", k>>)'
        BY <2>4, <2>5, <3>1, StaysFiled DEF Tracked
      <4>2. ASSUME NEW pod \in Range(PodsOf[ns])
            PROVE  /\ Filed(<<ns, "logs", pod>>)'
                   /\ \/ Behind(ns, pod)'
                      \/ /\ SummaryFiled(ns, pod)'
                         /\ \A op \in Pieces : IsDue(op, Labels[pod]) => PieceFiled(op, ns, pod)'
        <5>1. /\ Filed(<<ns, "logs", pod>>) /\ SummarySettled(ns, pod)
              /\ \A op \in Pieces : PieceSettled(op, ns, pod)
          BY <2>5, <3>1, <4>2 DEF Tracked, PodTracked
        <5>2. Filed(<<ns, "logs", pod>>)'
          BY <2>4, <5>1, StaysFiled
        <5>3. Behind(ns, pod) \/ SummaryFiled(ns, pod)
          BY <2>5, <5>1 DEF SummarySettled
        <5>4. \A op \in Pieces :
                 Behind(ns, pod) \/ ~IsDue(op, Labels[pod]) \/ PieceFiled(op, ns, pod)
          BY <2>5, <5>1 DEF PieceSettled
        <5>5. Behind(ns, pod) => Behind(ns, pod)'
          BY <2>4, StaysBehind
        <5>6. SummaryFiled(ns, pod) => SummaryFiled(ns, pod)'
          BY <2>1, <2>4, StaysFiled DEF SummaryFiled, Matches
        <5>7. \A op \in Pieces : PieceFiled(op, ns, pod) => PieceFiled(op, ns, pod)'
          BY <2>4, StaysFiled DEF PieceFiled
        <5>8. QED
          BY <5>2, <5>3, <5>4, <5>5, <5>6, <5>7
      <4>3. QED
        BY <4>1, <4>2
    <3>2. CASE ~Tracked(ns)
      <4>1. /\ <<"list", ns>> \in errors \/ forwards # << >>
            /\ Untouched(ns)
        BY <2>1, <2>5, <3>2 DEF WorkInv
      <4>2. \A pod : <<"nodes">> # <<ns, "logs", pod>>
        OBVIOUS
      <4>3. Untouched(ns)'
        BY <2>1, <2>2, <2>3, <4>1, <4>2, StaysUntouched
      <4>4. QED
        BY <2>1, <4>1, <4>3, UntouchedAfter
    <3>3. QED
      BY <3>1, <3>2
  <2>7. /\ Range(Names)' = Range(Names) /\ Range(kinds)' = Range(kinds)
        /\ \A ns : Range(PodsOf[ns])' = Range(PodsOf[ns])
        /\ \A l : Matches(l)' <=> Matches(l)
    BY <2>1 DEF Range, Names, Matches
  <2>8. OnlyCertificatesMissSilently'
    <3>1. \A op, l : IsDue(op, l)' <=> IsDue(op, l)
      BY <2>1, SameDue
    <3>2. \A ns, pod : Behind(ns, pod)' <=> ~Labels[pod].any \/ LogFailed(ns, pod)'
      BY DEF Behind
    <3>3. QED
      BY <2>1, <2>4, <2>6, <2>7, <3>1, <3>2 DEF OnlyCertificatesMissSilently, Pieces
  <2>9. QED
    BY <2>1, <2>8 DEF WorkInv
<1>12. QED
  BY <1>1, <1>2, <1>4, <1>5, <1>6, <1>8, <1>9, <1>10, <1>11 DEF K8sMain

LEMMA SameEndStaysComplete ==
    ASSUME OnlyCertificatesMissSilently,
           UNCHANGED <<opts, crType, kinds, k8sPc, archive, errors, forwards>>
    PROVE  OnlyCertificatesMissSilently'
<1>1. /\ Range(Names)' = Range(Names) /\ Range(kinds)' = Range(kinds)
      /\ \A ns : Range(PodsOf[ns])' = Range(PodsOf[ns])
      /\ \A l : Matches(l)' <=> Matches(l)
      /\ \A at : Filed(at)' <=> Filed(at)
      /\ \A ns, pod : LogFailed(ns, pod)' <=> LogFailed(ns, pod)
      /\ \A ns, pod : SummaryFiled(ns, pod)' <=> SummaryFiled(ns, pod)
      /\ \A op, ns, pod : PieceFiled(op, ns, pod)' <=> PieceFiled(op, ns, pod)
      /\ \A op, l : IsDue(op, l)' <=> IsDue(op, l)
  BY DEF Range, Names, Matches, Filed, LogFailed, Entry, SummaryFiled, PieceFiled, IsDue
<1>2. QED
  BY <1>1 DEF OnlyCertificatesMissSilently

LEMMA OthersKeepWork ==
    ASSUME K8sTypeOK, K8sTypeOK', WorkInv, K8sForward \/ UNCHANGED k8sVars
    PROVE  WorkInv'
<1>1. /\ UNCHANGED <<opts, k8sPc, crType, kinds, todo, archive>>
      /\ \/ k8sPc # "done" /\ forwards' # << >>
         \/ UNCHANGED <<errors, forwards>>
  <2>1. CASE K8sForward
    <3>1. PICK i \in DOMAIN forwards : ForwardStarts(i) \/ ForwardReads(i) \/ ForwardWrites(i)
      BY <2>1 DEF K8sForward
    <3>2. /\ Len(forwards') = Len(forwards)
          /\ UNCHANGED <<opts, k8sPc, crType, kinds, todo, archive>>
      BY <3>1, ForwardMoves
    <3>3. forwards' # << >>
      BY <3>1, <3>2 DEF K8sTypeOK
    <3>4. QED
      BY <2>1, <3>2, <3>3 DEF K8sForward
  <2>2. CASE UNCHANGED k8sVars
    BY <2>2 DEF k8sVars
  <2>3. QED
    BY <2>1, <2>2
<1>2. Range(Names)' = Range(Names)
  BY <1>1 DEF Range, Names
<1>3. OnlyCertificatesMissSilently'
  <2>1. CASE k8sPc # "done"
    BY <1>1, <2>1 DEF OnlyCertificatesMissSilently
  <2>2. CASE UNCHANGED <<errors, forwards>>
    BY <1>1, <2>2, SameEndStaysComplete DEF WorkInv
  <2>3. QED
    BY <1>1, <2>1, <2>2
<1>4. ASSUME k8sPc = "dump", NEW ns \in Range(Names)
      PROVE  /\ \/ Left("list", ns, "")' \/ <<"list", ns>> \in errors'
                \/ Tracked(ns)' \/ forwards' # << >>
             /\ Tracked(ns)' \/ Untouched(ns)'
  <2>1. (Tracked(ns) => Tracked(ns)') /\ (Untouched(ns) => Untouched(ns)')
    BY <1>1, SameWork
  <2>2. Left("list", ns, "") => Left("list", ns, "")'
    BY <1>1 DEF Left, Range, Task
  <2>3. QED
    BY <1>1, <1>4, <2>1, <2>2 DEF WorkInv
<1>5. QED
  BY <1>1, <1>2, <1>3, <1>4 DEF WorkInv

\* A collector that ends normally has, of every namespace and pod, the resources,
\* logs, secrets, files and summaries it was asked for in its archive, or the text
\* of the error, or there was nothing to file; or errors.txt names the listing that
\* failed, unless a port-forward's goroutine wrote over that line (DumpCluster,
\* logError).  Of the certificates it says nothing: they can be missing silently.
THEOREM OnlyCertificatesGoUnnamed == K8sSpec => []OnlyCertificatesMissSilently
<1>1. K8sInit => K8sTypeOK /\ WorkInv
  BY TypesAtFirst DEF K8sInit, WorkInv, OnlyCertificatesMissSilently
<1>2. K8sTypeOK /\ WorkInv /\ [K8sNext]_k8sVars => (K8sTypeOK /\ WorkInv)'
  BY NextKeepsTypes, MainKeepsWork, OthersKeepWork DEF K8sNext
<1>3. WorkInv => OnlyCertificatesMissSilently
  BY DEF WorkInv
<1>4. QED
  BY <1>1, <1>2, <1>3, PTL DEF K8sSpec
=============================================================================

---------------------------- MODULE K8sCollector ----------------------------
(***************************************************************************)
(* pt-k8s-debug-collector: DumpCluster walks the namespaces with kubectl   *)
(* and puts what it reads, or the error text, into a tar archive.  For a   *)
(* database pod it starts "kubectl port-forward" in a goroutine, waits     *)
(* three seconds, runs a summary tool against the local port and kills     *)
(* the port-forward.  The goroutine and the main program both append to    *)
(* the string d.errors, with no lock.                                      *)
(*                                                                         *)
(* Main's remaining work is a sequence of tasks, one per kubectl call.     *)
(* At most MaxFaults calls fail or find nothing; no write into the archive *)
(* fails.  The tables of resource kinds, secrets and log files keep one    *)
(* representative for each of their kinds.                                 *)
(***************************************************************************)
EXTENDS Naturals, Sequences, FiniteSets, SequencesExt

CONSTANTS K8sOptions,   \* command lines: [type, cluster, namespace, skip]
          ApiGroups,    \* groups of the percona.com rows of "api-resources"
          NamespaceSeq, \* what "get namespaces" lists
          PodsOf,       \* [namespace -> sequence of pods]
          Labels,       \* [pod -> [any, inst, comp, pg, pgv2]]
          MaxFaults     \* bound on the calls that fail or find nothing in a run

ASSUME K8sAssumption ==
    /\ K8sOptions \subseteq [type : STRING, cluster : STRING, namespace : STRING,
                             skip : BOOLEAN]
    /\ ApiGroups \in Seq(STRING) /\ NamespaceSeq \in Seq(STRING)
    /\ \A ns \in Range(NamespaceSeq) \cup ({o.namespace : o \in K8sOptions} \ {""}) :
          PodsOf[ns] \in Seq(STRING)
    /\ MaxFaults \in Nat

VARIABLES opts,      \* the command line
          k8sPc,     \* "new", "namespaces", "dump", "done", "failed", "panic"
          crType,    \* Dumper.crType, after "auto" was resolved
          kinds,     \* Dumper.resources
          todo,      \* the calls DumpCluster has still to make
          archive,   \* records [at, what, from]; one of "nothing" is a ghost:
                     \* the answer was empty, and there is no such file
          errors,    \* the calls named in d.errors
          forwards,  \* the port-forward goroutines, oldest first
          faults     \* kubectl calls that have failed or found nothing

k8sVars == <<opts, k8sPc, crType, kinds, todo, archive, errors, forwards,
             faults>>

(* AfterApply appends "/cluster" to the resource; resourceType cuts it off *)
(* again for the types it knows, and "auto" is compared whole.             *)
ResourceType(type, cluster) ==
    IF type = "auto" /\ cluster # "" THEN "auto/cluster" ELSE type

Typed == {"pxc", "ps", "psmdb", "pg", "pgv2"}
Component(t) ==
    CASE t = "psmdb" -> "mongod" [] t = "ps" -> "mysql" [] OTHER -> t
BaseKinds == <<"pods", "events">>
FilesOf(t) == IF t = "pxc" THEN <<"mysqld-error.log">> ELSE <<>>
SecretsOf(t) == IF t \in Typed THEN <<"ssl">> ELSE <<>>

Task(op, ns, pod) == [op |-> op, ns |-> ns, pod |-> pod]
Entry(at, what, from) == [at |-> at, what |-> what, from |-> from]

(* runCmd: an exit status or anything on stderr is a failure. *)
Outcome(ok) == /\ ok \in BOOLEAN
               /\ ~ok => faults < MaxFaults
               /\ faults' = IF ok THEN faults ELSE faults + 1

K8sInit == /\ opts \in K8sOptions
           /\ k8sPc = "new" /\ crType = "none" /\ kinds = <<>> /\ todo = <<>>
           /\ archive = {} /\ errors = {} /\ forwards = <<>> /\ faults = 0

(* New: with "auto" every listed group adds its kind and the last one      *)
(* becomes the type that the secrets, files and summaries go by.           *)
New ==
    LET t == ResourceType(opts.type, opts.cluster)
        auto == t = "auto"
        type == IF ~auto THEN t
                ELSE IF ApiGroups = <<>> THEN "none" ELSE Last(ApiGroups)
    IN  /\ k8sPc = "new"
        /\ \E ok \in BOOLEAN :
              /\ Outcome(ok) /\ (~auto => ok)
              /\ k8sPc' = IF ok THEN "namespaces" ELSE "panic"
        /\ crType' = type
        /\ kinds' = BaseKinds \o (IF auto THEN ApiGroups
                                  ELSE IF t \in Typed THEN <<t>> ELSE <<>>)
        /\ UNCHANGED <<opts, todo, archive, errors, forwards>>

(* With --namespace the list has that one name and no call is made. *)
Names == IF opts.namespace = "" THEN NamespaceSeq ELSE <<opts.namespace>>
ListNamespaces ==
    /\ k8sPc = "namespaces"
    /\ \E ok \in BOOLEAN :
          /\ Outcome(ok) /\ (opts.namespace # "" => ok)
          /\ k8sPc' = IF ok THEN "dump" ELSE "failed"
          /\ errors' = IF ok THEN errors ELSE errors \cup {<<"namespaces">>}
          /\ todo' = IF ~ok THEN <<>>
                     ELSE [i \in DOMAIN Names |-> Task("list", Names[i], "")]
    /\ UNCHANGED <<opts, crType, kinds, archive, forwards>>

(* The next task is of kind op; it is replaced by other tasks. *)
Doing(op) == k8sPc = "dump" /\ todo # <<>> /\ Head(todo).op = op
Replace(tasks) == todo' = tasks \o Tail(todo)
Keep(var) == UNCHANGED <<opts, crType, kinds, var>>

(* "get pods": a failed call skips everything of the namespace; output     *)
(* that does not parse only loses the pods.                                *)
ListPods ==
    /\ Doing("list")
    /\ LET ns == Head(todo).ns
           pods == [i \in DOMAIN PodsOf[ns] |-> Task("logs", ns, PodsOf[ns][i])]
           rest == [i \in DOMAIN kinds |-> Task("resource", ns, kinds[i])]
                   \o [i \in DOMAIN SecretsOf(crType) |->
                         Task("certificates", ns, SecretsOf(crType)[i])]
       IN  \E got \in {"pods", "garbage", "error"} :
              /\ Outcome(got = "pods")
              /\ errors' = IF got = "pods" THEN errors
                           ELSE errors \cup {<<"list", ns>>}
              /\ Replace(CASE got = "pods" -> pods \o rest
                           [] got = "garbage" -> rest
                           [] got = "error" -> <<>>)
    /\ Keep(<<k8sPc, archive, forwards>>)

(* Is this a pod of the database the collector was started for? *)
Matches(l) ==
    \/ l.comp # "" /\ l.comp = Component(crType)
    \/ crType = "pg" /\ l.pg
    \/ crType = "pgv2" /\ l.pgv2

AfterLogs(ns, pod) ==
    LET l == Labels[pod]
        secret == IF l.inst # "" /\ l.comp # ""
                  THEN <<Task("instance-secret", ns, pod)>> ELSE <<>>
        summary == IF opts.skip THEN <<>> ELSE <<Task("credentials", ns, pod)>>
        files == [i \in DOMAIN FilesOf(crType) |-> Task("file", ns, pod)]
    IN  IF ~l.any THEN <<>>
        ELSE secret \o (IF Matches(l) THEN summary \o files ELSE <<>>)

(* "logs": the error text takes the place of the log, and then nothing     *)
(* else of the pod is collected.                                           *)
PodLogs ==
    /\ Doing("logs")
    /\ LET t == Head(todo) IN \E ok \in BOOLEAN :
         /\ Outcome(ok)
         /\ archive' = archive \cup {Entry(<<t.ns, "logs", t.pod>>,
                                           IF ok THEN "output" ELSE "error", t.pod)}
         /\ errors' = IF ok THEN errors ELSE errors \cup {<<"logs", t.pod>>}
         /\ Replace(IF ok THEN AfterLogs(t.ns, t.pod) ELSE <<>>)
    /\ Keep(<<k8sPc, forwards>>)

(* getResource, getSSLCertificates and getIndividualFiles.  Of a secret    *)
(* that is not found and of an empty file there is nothing to archive; the *)
(* error text of a file is archived under the name of the pod's directory. *)
(* The certificates leave no trace when a call fails, nor when there is no *)
(* custom resource or more than one; of those that are filed one may be    *)
(* missing, for the calls for single certificates are not looked at.       *)
Place(t) == <<t.ns, t.op, t.pod>>
(* Mutant: error texts are not archived. *)
ErrorsUnfiled(t, what) == {Entry(Place(t), w, t.pod) : w \in {what} \ {"error"}}
Filing(t, what) ==
    CASE t.op = "certificates" /\ what # "output" -> {}
      [] t.op = "file" /\ what = "error" -> {Entry(<<t.ns, t.pod>>, what, t.pod)}
      [] OTHER -> {Entry(Place(t), what, t.pod)}
Collect ==
    /\ \E op \in {"resource", "instance-secret", "certificates", "file"} : Doing(op)
    /\ LET t == Head(todo) IN \E what \in {"output", "nothing", "error"} :
         /\ what = "nothing" => t.op # "resource"
         /\ Outcome(what = "output")
         /\ archive' = archive \cup Filing(t, what)
         /\ errors' = IF what # "error" \/ t.op = "certificates" THEN errors
                      ELSE errors \cup {<<t.op, t.pod>>}
    /\ Replace(<<>>)
    /\ Keep(<<k8sPc, forwards>>)

(* getPodSummary, first part: the custom resource and its secrets.  With   *)
(* PostgreSQL there is nothing to ask.                                     *)
ForwardWants(t) == t \in {"pxc", "ps", "psmdb"}
Credentials ==
    /\ Doing("credentials")
    /\ LET t == Head(todo) IN \E ok \in BOOLEAN :
         /\ Outcome(ok) /\ (~ForwardWants(crType) => ok)
         /\ archive' = IF ok THEN archive
                       ELSE archive \cup {Entry(<<t.ns, "summary", t.pod>>, "error", t.pod)}
         /\ errors' = IF ok THEN errors ELSE errors \cup {<<"summary", t.pod>>}
         /\ Replace(IF ok THEN <<Task("spawn", t.ns, t.pod)>> ELSE <<>>)
    /\ Keep(<<k8sPc, forwards>>)

(* go cmdPortFwd.Run(), then three seconds of sleep. *)
Spawn == /\ Doing("spawn")
         /\ LET t == Head(todo) IN
              /\ forwards' = Append(forwards, [pod |-> t.pod, state |-> "spawned",
                                               seen |-> {}])
              /\ Replace(<<Task("summary", t.ns, t.pod)>>)
         /\ Keep(<<k8sPc, archive, errors, faults>>)

(* The pods whose port-forward listens on the local port. *)
Listening == {i \in DOMAIN forwards : forwards[i].state = "running"}

(* The goroutine's Run: the process starts and listens, or it starts and   *)
(* exits (port taken, pod unreachable, no ports given), or it never starts *)
(* and cmd.Process stays nil.                                              *)
ForwardStarts(i) ==
    /\ forwards[i].state = "spawned"
    /\ \E s \in {"running", "exited", "nostart"} :
          /\ Outcome(s = "running" \/ Listening # {} \/ ~ForwardWants(crType))
          /\ s = "running" => Listening = {} /\ ForwardWants(crType)
          /\ forwards' = [forwards EXCEPT ![i].state = s]
    /\ UNCHANGED <<opts, k8sPc, crType, kinds, todo, archive, errors>>

(* Run has returned an error and logError appends to d.errors: the string  *)
(* is read, and a longer one is stored.  What main stores in between is    *)
(* lost, and main may have read before and store after, which loses this.  *)
ForwardReads(i) ==
    /\ forwards[i].state \in {"exited", "nostart", "killed"}
    /\ forwards' = [forwards EXCEPT
                      ![i].seen = errors,
                      ![i].state = [exited |-> "exited-read",
                                    nostart |-> "nostart-read",
                                    killed |-> "killed-read"][@]]
    /\ UNCHANGED <<opts, k8sPc, crType, kinds, todo, archive, errors, faults>>
ForwardWrites(i) ==
    /\ forwards[i].state \in {"exited-read", "nostart-read", "killed-read"}
    /\ errors' \in {forwards[i].seen \cup {<<"port-forward">>}, errors}
    /\ forwards' = [forwards EXCEPT
                      ![i].seen = {},
                      ![i].state = IF @ = "nostart-read" THEN "never" ELSE "over"]
    /\ UNCHANGED <<opts, k8sPc, crType, kinds, todo, archive, faults>>

(* Mutant: the port-forward is left running. *)
KillForwardForgotten(i) == k8sPc' = "dump" /\ UNCHANGED forwards

(* getPodSummary's deferred Process.Kill: a nil Process is a panic, which  *)
(* still closes the archive; a finished one only an error to log.          *)
KillForward(i) ==
    LET s == forwards[i].state IN
    /\ k8sPc' = IF s \in {"spawned", "nostart", "nostart-read", "never"}
                THEN "panic" ELSE "dump"
    /\ forwards' = IF s = "running" THEN [forwards EXCEPT ![i].state = "killed"]
                   ELSE forwards

(* The summary command reaches whatever listens on the local port; the     *)
(* PostgreSQL one goes through "kubectl exec" instead.                     *)
Answering(pod) == IF ~ForwardWants(crType) THEN {pod}
                  ELSE {forwards[i].pod : i \in Listening}
Summary ==
    /\ Doing("summary")
    /\ LET t == Head(todo)
           i == Len(forwards)
           at == <<t.ns, "summary", t.pod>>
           kill == IF forwards[i].state \in {"exited", "exited-read", "over"}
                   THEN {<<"kill">>} ELSE {}
           file(what, pod) == archive' = IF k8sPc' = "panic" THEN archive
                                         ELSE archive \cup {Entry(at, what, pod)}
       IN  /\ KillForward(i)
           /\ \/ \E pod \in Answering(t.pod) :
                   /\ file("output", pod)
                   /\ errors' = errors \cup kill
                   /\ UNCHANGED faults
              \/ /\ Outcome(Answering(t.pod) = {})
                 /\ errors' = errors \cup kill \cup {<<"summary", t.pod>>}
                 /\ file("error", t.pod)
    /\ Replace(<<>>)
    /\ Keep(<<>>)

Nodes == /\ k8sPc = "dump" /\ todo = <<>>
         /\ \E ok \in BOOLEAN :
              /\ Outcome(ok)
              /\ archive' = archive \cup
                   {Entry(<<"nodes">>, IF ok THEN "output" ELSE "error", "")}
              /\ errors' = IF ok THEN errors ELSE errors \cup {<<"nodes">>}
         /\ k8sPc' = "done"
         /\ UNCHANGED <<opts, crType, kinds, todo, forwards>>

K8sMain == \/ New \/ ListNamespaces \/ ListPods \/ PodLogs \/ Collect
           \/ Credentials \/ Spawn \/ Summary \/ Nodes
K8sForward == /\ k8sPc \notin {"done", "failed", "panic"}
              /\ \E i \in DOMAIN forwards :
                    ForwardStarts(i) \/ ForwardReads(i) \/ ForwardWrites(i)
K8sNext == K8sMain \/ K8sForward

-----------------------------------------------------------------------------
(* A summary filed under a pod was taken from that pod: no port-forward of *)
(* an earlier pod answers in its place (getPodSummary, dumper.go:574-600). *)
SummaryIsOfItsPod ==
    \A e \in archive :
        Len(e.at) = 3 /\ e.at[2] = "summary" /\ e.what = "output" => e.from = e.at[3]

(* What the collector was asked for, the certificates excepted, is in the  *)
(* archive as output or as the text of an error, or there was nothing, or  *)
(* errors.txt names the listing that failed, unless a port-forward's       *)
(* goroutine overwrote that line (DumpCluster, dumper.go:314-412).  The    *)
(* rest of a pod is only collected behind its log.                         *)
Filed(at) == \E e \in archive : e.at = at
LogFailed(ns, pod) == Entry(<<ns, "logs", pod>>, "error", pod) \in archive
IsDue(op, l) == IF op = "file" THEN FilesOf(crType) # <<>> /\ Matches(l)
                                ELSE l.inst # "" /\ l.comp # ""
PieceFiled(op, ns, pod) == \/ Filed(<<ns, op, pod>>)
                           \/ op = "file" /\ Filed(<<ns, pod>>)
SummaryFiled(ns, pod) ==
    opts.skip \/ ~Matches(Labels[pod]) \/ Filed(<<ns, "summary", pod>>)
OnlyCertificatesMissSilently ==
    k8sPc = "done" =>
        /\ Filed(<<"nodes">>)
        /\ \A ns \in Range(Names) :
             LET pods == Range(PodsOf[ns]) IN
             \/ <<"list", ns>> \in errors
             \/ forwards # <<>> /\ \A pod \in pods : ~Filed(<<ns, "logs", pod>>)
             \/ /\ \A k \in Range(kinds) : Filed(<<ns, "resource", k>>)
                /\ \A pod \in pods :
                     /\ Filed(<<ns, "logs", pod>>)
                     /\ \/ ~Labels[pod].any \/ LogFailed(ns, pod)
                        \/ /\ SummaryFiled(ns, pod)
                           /\ \A op \in {"instance-secret", "file"} :
                                IsDue(op, Labels[pod]) => PieceFiled(op, ns, pod)
=============================================================================

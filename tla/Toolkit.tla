------------------------------- MODULE Toolkit -------------------------------
(***************************************************************************)
(* The collecting tools of percona-toolkit, one process each.  They share  *)
(* no state: one is started, and the variables of the others keep an       *)
(* initial value.                                                          *)
(***************************************************************************)
EXTENDS K8sCollector, PgSummary, SecureCollect, MongoDigest, MongoSummary, MongoIndexCheck,
        Profiler

CONSTANT Tools   \* those that may be started

VARIABLE tool    \* the one that is

toolVars == <<tool, k8sVars, pgVars, scVars, digestVars, sumVars, ixVars, readerVars>>

(* What a tool is given is fixed unless it is the one that runs. *)
Given(t, var, S) == tool = t \/ var = CHOOSE v \in S : TRUE

Init == /\ tool \in Tools
        /\ Given("k8s", opts, K8sOptions) /\ K8sInit
        /\ PgInit
        /\ Given("secure", flags, CollectOptions) /\ SecureInit
        /\ Given("digest", place, DigestClusters) /\ Given("digest", docs, DocumentLists)
        /\ Given("digest", order, OrderBys) /\ Given("digest", limit, Limits)
        /\ Given("digest", json, BOOLEAN) /\ DigestInit
        /\ Given("summary", site, SummaryPlaces) /\ Given("summary", catalogue, Catalogues)
        /\ Given("summary", changelog, Changelogs) /\ SummaryInit
        /\ Given("index", content, Contents) /\ Given("index", request, IndexChecks)
        /\ IndexInit
        /\ ReaderInit

Next ==
    /\ UNCHANGED tool
    /\ \/ /\ tool = "k8s" /\ K8sNext
          /\ UNCHANGED <<pgVars, scVars, digestVars, sumVars, ixVars, readerVars>>
       \/ /\ tool = "pg" /\ PgNext
          /\ UNCHANGED <<k8sVars, scVars, digestVars, sumVars, ixVars, readerVars>>
       \/ /\ tool = "secure" /\ SecureNext
          /\ UNCHANGED <<k8sVars, pgVars, digestVars, sumVars, ixVars, readerVars>>
       \/ /\ tool = "digest" /\ DigestNext
          /\ UNCHANGED <<k8sVars, pgVars, scVars, sumVars, ixVars, readerVars>>
       \/ /\ tool = "summary" /\ SummaryNext
          /\ UNCHANGED <<k8sVars, pgVars, scVars, digestVars, ixVars, readerVars>>
       \/ /\ tool = "index" /\ IndexNext
          /\ UNCHANGED <<k8sVars, pgVars, scVars, digestVars, sumVars, readerVars>>
       \/ /\ tool = "reader" /\ ReaderNext
          /\ UNCHANGED <<k8sVars, pgVars, scVars, digestVars, sumVars, ixVars>>

(* The program that runs goes on, and so do its goroutines; the servers    *)
(* and the clock of the deadline need not.  The digest has no loop and     *)
(* nothing to wait for here: that its reading ends is a question to module *)
(* Profiler.                                                               *)
Fairness == /\ WF_k8sVars(tool = "k8s" /\ K8sMain)
            /\ WF_k8sVars(tool = "k8s" /\ K8sForward)
            /\ WF_pgVars(tool = "pg" /\ PgMain)
            /\ WF_pgVars(tool = "pg" /\ SecondPass)
            /\ WF_scVars(tool = "secure" /\ SecureNext)
            /\ WF_sumVars(tool = "summary" /\ SummaryMain)
            /\ WF_ixVars(tool = "index" /\ IndexMain)
            /\ WF_readerVars(tool = "reader" /\ Start)
            /\ WF_readerVars(tool = "reader" /\ GetData)
            /\ WF_readerVars(tool = "reader" /\ GetDocs)
            /\ \A g \in Flushers : WF_readerVars(tool = "reader" /\ Flush(g))
            /\ \A c \in Callers : WF_readerVars(tool = "reader" /\ Stop(c))

Spec == Init /\ [][Next]_toolVars /\ Fairness

-----------------------------------------------------------------------------
Ended ==
    CASE tool = "k8s" -> k8sPc \in {"done", "failed", "panic"}
      [] tool = "pg" -> pgPc \in {"printed", "fatal", "panic"}
      [] tool = "secure" -> scPc \in {"done", "fatal"}
      [] tool = "summary" -> sumPc \in {"printed", "exit"}
      [] tool = "index" -> ixPc \in {"printed", "usage", "fatal"}
      [] tool \in {"digest", "reader"} -> TRUE

(* Each tool with a loop or a goroutine ends, whatever fails: no main      *)
(* waits for ever for a goroutine, as pt-pg-summary would if its channel   *)
(* could not take the answer before main receives (pginfo.go:77), and no   *)
(* work list grows without end.                                            *)
ToolEnds == <>Ended
=============================================================================

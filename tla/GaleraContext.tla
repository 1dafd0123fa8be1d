----------------------------- MODULE GaleraContext -----------------------------
(***************************************************************************)
(* The context of a log and the handlers of pt-galera-log-explainer:       *)
(* types/logctx.go, types/conflicts.go and regex/*.go.                     *)
(*                                                                         *)
(* A handler works on s, a record of the context (ctx), the map of running *)
(* state transfers (ssts), which every copy of the context shares, and the *)
(* translation database (db).  It returns the set of its outcomes: the new *)
(* s and the displayer (show).  There is more than one outcome where the   *)
(* code takes the elements of a Go map in any order.                       *)
(*                                                                         *)
(* A line of a log is a record: its kind, its date in ticks (0: undated),  *)
(* the file type (ft) and what the regexes capture of it.  A kind is named *)
(* after the regex made for it.                                            *)
(***************************************************************************)
EXTENDS GaleraTranslate

CONSTANTS
    Short,      \* Short[x]: the short form of a long node name or uuid
    Truncated,  \* node names cut at 31 characters by Galera
    IPStable    \* AssumeIPStable: not --pxc-operator

ASSUME ContextAssumption == IPStable \in BOOLEAN

ShortForm(x) == IF x \in DOMAIN Short THEN Short[x] ELSE x
FileTypes == {"error.log", "recovery.log", "post.processing.log", "backup.log"}
WsrepStates == {"SYNCED", "JOINED", "DONOR", "DESYNCED", "JOINER", "PRIMARY", "NON-PRIMARY",
                "OPEN", "CLOSED", "DESTROYED", "ERROR", "RECOVERY"}

NewLogCtx(path) ==
    [path |-> path, ft |-> "error.log", names |-> << >>, hashes |-> << >>, ips |-> << >>,
     states |-> [t \in FileTypes |-> ""], version |-> "", myIdx |-> "", members |-> 0,
     desynced |-> FALSE, minVerbosity |-> 2, pod |-> << >>, conflicts |-> << >>]

\* The operator mixes the files of one pod in one log: a state per file.
StateFile(ctx) == IF ctx.ft \in FileTypes THEN ctx.ft ELSE "error.log"
State(ctx) == ctx.states[StateFile(ctx)]
SetState(s, state) ==
    IF state \in WsrepStates THEN [s EXCEPT !.ctx.states[StateFile(s.ctx)] = state] ELSE s
IsPrimary(ctx) == State(ctx) \in {"SYNCED", "DONOR", "DESYNCED", "JOINER", "PRIMARY"}

EndsWith(seq, x) == seq # << >> /\ Last(seq) = x
OwnedBy(ctx) == ToSet(ctx.names)

AddOwnName(s, long, ts) ==
    LET name == ShortForm(long)
        ips == s.ctx.ips
    IN  IF EndsWith(s.ctx.names, name) THEN s
        ELSE [s EXCEPT !.ctx.names = Append(@, name),
                       !.db = IF ips = << >> THEN @ ELSE AddIPToNodeName(@, Last(ips), name, ts)]

AddOwnHash(s, hash, ts) ==
    LET ips == s.ctx.ips
        names == s.ctx.names
        WithIP(db) == IF ips = << >> THEN db ELSE AddHashToIP(db, hash, Last(ips), ts)
        WithName(db) == IF names = << >> THEN db ELSE AddHashToNodeName(db, hash, Last(names), ts)
    IN  IF hash \in ToSet(s.ctx.hashes) THEN s
        ELSE [s EXCEPT !.ctx.hashes = Append(@, hash), !.db = WithName(WithIP(@))]

AddOwnIP(s, ip, ts) ==
    LET names == s.ctx.names
    IN  IF EndsWith(s.ctx.ips, ip) THEN s
        ELSE [s EXCEPT !.ctx.ips = Append(@, ip),
                       !.db = IF names = << >> THEN @ ELSE AddIPToNodeName(@, ip, Last(names), ts)]

Inherit(base, from) ==
    [base EXCEPT !.hashes = from.hashes \o @, !.names = from.names \o @, !.ips = from.ips \o @,
                 !.version = IF @ = "" THEN from.version ELSE @,
                 !.conflicts = from.conflicts \o @]

\* The first fitting transfer of the map gets the type.
SetSSTTypeMaybe(s, type) ==
    LET own == OwnedBy(s.ctx)
        fits == {k \in DOMAIN s.ssts :
                    \/ Cardinality(DOMAIN s.ssts) = 1
                    \/ State(s.ctx) = "DONOR" /\ k \in own
                    \/ State(s.ctx) = "JOINER" /\ s.ssts[k].joiner \in own}
    IN  IF fits = {} THEN {s} ELSE {[s EXCEPT !.ssts[k].type = type] : k \in fits}

\* Mutant of MustHaveHappenedLocally: the time of the shift is ignored.
HappenedSomewhere(sst, ts) == sst.selected # 0

\* At most 10 ms between the selection and the shift: the same tick.
MustHaveHappenedLocally(sst, ts) == sst.selected # 0 /\ ts <= sst.selected

\* The orders in which a Go map gives its elements.
Orders(set) == {q \in SeqOf(set, Cardinality(set)) : ToSet(q) = set}

AddOwnNames(s, names, ts) ==
    LET upTo[i \in 0 .. Len(names)] ==
            IF i = 0 THEN s ELSE AddOwnName(upTo[i - 1], names[i], ts)
    IN  upTo[Len(names)]
ConfirmSSTMetadata(s, ts) ==
    LET local == {k \in DOMAIN s.ssts : MustHaveHappenedLocally(s.ssts[k], ts)}
        NameIn(k) == IF State(s.ctx) = "DONOR" THEN k ELSE s.ssts[k].joiner
    IN  IF State(s.ctx) \notin {"DONOR", "JOINER"} THEN {s}
        ELSE {AddOwnNames(s, [i \in DOMAIN order |-> NameIn(order[i])], ts) :
                order \in Orders(local)}

----------------------------------------------------------------------------
(* Displayers.  Msg is the set of messages one may give, << >> is none.    *)

Nil == [by |-> "nil"]
Content(line) == [line EXCEPT !.date = 0, !.ts = 0, !.id = 0]
Text(line, note) == [by |-> "text", text |-> <<Content(line), note>>]
ByHash(line, hash) == [by |-> "hash", hash |-> hash, date |-> line.date, kind |-> line.kind]
ByIP(line) == [by |-> "ip", ip |-> line.ip, date |-> line.date, kind |-> line.kind]
ByRoles(line, nodes) == [by |-> "roles", nodes |-> nodes, text |-> Content(line)]
OfVoter(line) == [by |-> "voter", node |-> line.name, text |-> Content(line)]
OfWinner(line, seqno) == [by |-> "winner", seqno |-> seqno, text |-> Content(line)]

\* Mutant of ConflictWithSeqno: the latest conflict, whatever its seqno.
LatestConflict(conflicts, seqno) == Len(conflicts)

ConflictWithSeqno(conflicts, seqno) == SelectInSeq(conflicts, LAMBDA c : c.seqno = seqno)
ConflictFromMD5(conflicts, md5) ==
    SelectInSeq(conflicts, LAMBDA c : \E n \in DOMAIN c.votes : c.votes[n] = md5)

Msg(show, ctx, db) ==
    LET own == OwnedBy(ctx)
        i == ConflictWithSeqno(ctx.conflicts, show.seqno)
    IN  CASE show = Nil -> {<< >>}
          [] show.by = "text" -> {show.text}
          [] show.by = "hash" ->
                {<<show.kind, x>> : x \in SimplestInfoFromHash(db, show.hash, show.date, IPStable)}
          [] show.by = "ip" ->
                {<<show.kind, x>> : x \in SimplestInfoFromIP(db, show.ip, show.date, IPStable)}
          [] show.by = "roles" -> {<<show.text, ToSet(show.nodes) \cap own>>}
          [] show.by = "voter" -> {IF show.node \in own THEN <<show.text>> ELSE << >>}
          [] show.by = "winner" ->
                IF i = 0 THEN {<< >>}
                ELSE LET c == ctx.conflicts[i]
                         mine == SelectSeq(ctx.names, LAMBDA n : n \in DOMAIN c.votes)
                     IN  {IF mine = << >> THEN << >>
                          ELSE <<show.text, c.seqno, c.votes[mine[1]] = c.winner>>}

Shows(s, show) == {[s |-> s, show |-> show]}
AllShow(outcomes, show) == {[s |-> t, show |-> show] : t \in outcomes}

----------------------------------------------------------------------------
(* regex/events.go *)

CloseEvents == {"ShutdownComplete", "Terminated", "GotSignal6", "GotSignal11", "ShutdownSignal",
                "Aborting", "AssertionFailure", "BindAddressAlreadyUsed"}
ShownEvents == {"UnknownConf", "TooManyConnections", "ReversingHistory"}

IsShutdownReasonMissing(ctx) == State(ctx) \notin {"DESTROYED", "CLOSED", "RECOVERY", ""}

\* The handler of an unknown variable takes its name, what follows the first
\* quote of the line (here name, "" without a quote): it panics without one.
EventHandler(key, line, s) ==
    LET missing == IsShutdownReasonMissing(s.ctx)
    IN  CASE key = "Starting" ->
                Shows(SetState([s EXCEPT !.ctx.version = line.version], "OPEN"), Text(line, missing))
          [] key \in CloseEvents -> Shows(SetState(s, "CLOSED"), Text(line, ""))
          [] key = "WsrepLoad" -> Shows(SetState(s, "OPEN"), Text(line, ""))
          [] key = "WsrepRecovery" ->
                Shows(SetState(s, "RECOVERY"),
                      Text(line, missing /\ State(s.ctx) \notin {"JOINER", "OPEN"}))
          [] key = "UnknownConf" /\ line.name = "" -> {}
          [] key \in ShownEvents -> Shows(s, Text(line, ""))

EventKeys == CloseEvents \cup ShownEvents \cup {"Starting", "WsrepLoad", "WsrepRecovery"}

----------------------------------------------------------------------------
(* regex/views.go *)

CloseViews == {"WsrepUnsafeBootstrap", "WsrepConsistenctyCompromised"}
ShownViews == {"LastInactiveCheck", "WsrepNonPrimary", "Bootstrap", "SafeToBootstrapSet",
               "NoGrastate", "BootstrappingDefaultState"}

\* Mutant of NewComponent: a new component resets the own index.
NewComponentResetsIdx(line, s) ==
    Shows(SetState([s EXCEPT !.ctx.members = line.n, !.ctx.myIdx = ""],
                   IF ~line.primary THEN "NON-PRIMARY"
                   ELSE IF IsPrimary(s.ctx) THEN State(s.ctx) ELSE "PRIMARY"), Text(line, ""))

NewComponent(line, s) ==
    LET counted == [s EXCEPT !.ctx.members = line.n]
        state == IF ~line.primary THEN "NON-PRIMARY"
                 ELSE IF IsPrimary(s.ctx) THEN State(s.ctx) ELSE "PRIMARY"
    IN  Shows(SetState(counted, state), Text(line, ""))

ViewHandler(key, line, s) ==
    LET ts == line.ts
        met == AddHashToIP(s.db, line.uuid, line.ip, ts)
        ofOld == ShortForm(line.uuid)
    IN  CASE key = "NodeEstablished" ->
                Shows([s EXCEPT !.db = met],
                      IF line.ip \in ToSet(s.ctx.ips) THEN Nil ELSE ByHash(line, line.uuid))
          [] key \in {"NodeJoined", "NodeLeft"} ->
                Shows([s EXCEPT !.db = AddIPToMethod(met, line.ip, line.method, ts)],
                      ByHash(line, line.uuid))
          [] key = "NewComponent" -> NewComponent(line, s)
          [] key = "NodeSuspect" -> Shows(s, ByHash(line, line.uuid))
          [] key = "NodeChangedIdentity" ->
                Shows([s EXCEPT !.db =
                          IF ofOld \in DOMAIN @.hashToIP
                          THEN AddHashToIP(@, ShortForm(line.uuid2), @.hashToIP[ofOld].value, ts)
                          ELSE @], ByHash(line, ofOld))
          [] key \in CloseViews -> Shows(SetState(s, "CLOSED"), Text(line, ""))
          [] key \in ShownViews -> Shows(s, Text(line, ""))

ViewKeys == CloseViews \cup ShownViews \cup {"NodeEstablished", "NodeJoined", "NodeLeft",
            "NewComponent", "NodeSuspect", "NodeChangedIdentity"}

----------------------------------------------------------------------------
(* regex/sst.go.  ssts maps a donor to its transfer.                       *)

ShownSSTs == {"SSTResourceUnavailable", "SSTError", "SSTInitiating", "SSTCancellation",
              "ISTReceived", "SocatConnRefused", "PreparingBackup", "TimeoutReceivingFirstData",
              "WillNeverReceive"}
SSTEnds == {"SSTComplete", "SSTCompleteUnknown", "SSTFailedUnknown", "SSTStateTransferFailed"}

TransferHandler(key, line, s) ==
    LET donor == ShortForm(IF key = "SSTRequestSuccess" THEN line.name2 ELSE line.name)
        joiner == ShortForm(IF key = "SSTRequestSuccess" THEN line.name ELSE line.name2)
        sst == [joiner |-> joiner, type |-> "", selected |-> line.date]
        show == IF key \in {"SSTRequestSuccess", "SSTComplete"}
                THEN ByRoles(line, <<joiner, donor>>) ELSE Text(line, "")
    IN  CASE key = "SSTRequestSuccess" ->
                Shows([s EXCEPT !.ssts = (donor :> sst) @@ @], show)
          [] key \in SSTEnds -> Shows([s EXCEPT !.ssts = RestrictDomain(@, LAMBDA k : k # donor)], show)

LocalTransferHandler(key, line, s) ==
    LET Typed(state, type) == SetSSTTypeMaybe(SetState(s, state), type)
    IN  CASE key = "SSTProceeding" -> AllShow(Typed("JOINER", "SST"), Text(line, ""))
          [] key = "SSTStreamingTo" -> Shows(SetState(s, "DONOR"), ByIP(line))
          [] key = "ISTSender" -> AllShow(Typed("DONOR", "IST"), ByIP(line))
          [] key = "ISTReceiver" ->
                AllShow(Typed("JOINER", IF line.seqno = 0 THEN "SST" ELSE "IST"), Text(line, ""))
          [] key = "FailedToPrepareIST" -> AllShow(SetSSTTypeMaybe(s, "SST"), Text(line, ""))
          [] key \in {"XtrabackupISTReceived", "BypassSST"} ->
                AllShow(SetSSTTypeMaybe(s, "IST"), Text(line, ""))
          [] key = "ISTFailed" -> Shows(s, ByIP(line))
          [] key \in ShownSSTs -> Shows(s, Text(line, line.name \in OwnedBy(s.ctx)))

TransferKeys == SSTEnds \cup {"SSTRequestSuccess"}
LocalTransferKeys == ShownSSTs \cup {"SSTProceeding", "SSTStreamingTo", "ISTSender", "ISTReceiver",
    "FailedToPrepareIST", "XtrabackupISTReceived", "BypassSST", "ISTFailed"}

----------------------------------------------------------------------------
(* regex/states.go *)

StateHandler(key, line, s) ==
    LET shifted == SetState(s, line.state)
        known == IF line.state \in {"DONOR", "JOINER"}
                 THEN ConfirmSSTMetadata(shifted, line.ts) ELSE {shifted}
    IN  AllShow(known, Text(line, key))

StateKeys == {"Shift", "RestoredState"}

----------------------------------------------------------------------------
(* regex/idents.go *)

MemberAssociations(line, s) ==
    LET hash == ShortForm(line.uuid)
        name == ShortForm(line.name)
        named == [s EXCEPT !.db = AddHashToNodeName(@, hash, name, line.ts)]
        mine == s.ctx.myIdx = line.idx /\ (IsPrimary(s.ctx) \/ s.ctx.members = 1)
    IN  IF name \in Truncated THEN Shows(s, Nil)
        ELSE Shows(IF mine THEN AddOwnName(AddOwnHash(named, hash, line.ts), name, line.ts)
                   ELSE named, Text(line, ""))

\* A line of the operator holds a whole view, whose entries are its members:
\* the regex for one entry finds the first of them.
Entry(line, m) == [line EXCEPT !.idx = m.idx, !.uuid = m.uuid, !.name = m.name]
FirstEntry(line) == IF line.members = << >> THEN line ELSE Entry(line, line.members[1])

IdentHandler(key, line, s) ==
    CASE key \in {"SourceNode", "BaseHost"} -> Shows(AddOwnIP(s, line.ip, line.ts), Text(line, ""))
      [] key = "MemberAssociations" -> MemberAssociations(FirstEntry(line), s)
      [] key = "MemberCount" -> Shows([s EXCEPT !.ctx.members = line.n], Text(line, ""))
      [] key = "OwnUUID" -> Shows(AddOwnHash(s, ShortForm(line.uuid), line.ts), Text(line, ""))
      [] key \in {"OwnUUIDFromMessageRelay", "OwnUUIDFromEstablished"} ->
            Shows(AddOwnHash(s, line.own, line.ts), Text(line, ""))
      [] key \in {"MyIDXFromComponent", "OwnIndexFromView"} ->
            Shows([s EXCEPT !.ctx.myIdx = line.idx], Text(line, ""))

IdentKeys == {"SourceNode", "BaseHost", "MemberAssociations", "MemberCount", "OwnUUID",
              "OwnUUIDFromMessageRelay", "OwnUUIDFromEstablished", "MyIDXFromComponent",
              "OwnIndexFromView"}

----------------------------------------------------------------------------
(* regex/applicative.go *)

Success == "0000000000000000"

\* The votes of a conflict, with new ones.
Vote(votes, new) ==
    [n \in DOMAIN votes \cup DOMAIN new |-> IF n \in DOMAIN new THEN new[n] ELSE votes[n]]

\* Conflicts.Merge: a conflict of the same seqno only gets the votes.
MergeConflict(conflicts, c) ==
    LET i == ConflictWithSeqno(conflicts, c.seqno)
    IN  IF i = 0 THEN Append(conflicts, c)
        ELSE [conflicts EXCEPT ![i].votes = Vote(@, c.votes)]

VoteHandler(key, line, s) ==
    LET i == ConflictWithSeqno(s.ctx.conflicts, line.seqno)
        Voted(node, md5) == [s EXCEPT !.ctx.conflicts[i].votes = Vote(@, [n \in {node} |-> md5])]
        me == Last(s.ctx.names)
        anonymous == s.ctx.names = << >>
        \* The own vote is stored before it is compared with the initiator's.
        AsInitiator(c) == line.md5 # Success /\ (c.by = me \/ c.votes[c.by] = line.md5)
    IN  CASE key = "InconsistencyVoteInit" ->
                Shows([s EXCEPT !.ctx.conflicts = MergeConflict(@,
                          [seqno |-> line.seqno, by |-> line.name, winner |-> "",
                           votes |-> [n \in {line.name} |-> line.md5]])], ByRoles(line, <<line.name>>))
          [] key = "InconsistencyVoteRespond" ->
                IF i = 0 THEN Shows(s, Nil) ELSE Shows(Voted(line.name, line.md5), OfVoter(line))
          [] key = "InconsistencyVoteInconsistentWithGroup" ->
                IF i = 0 THEN Shows(s, Nil)
                ELSE Shows(IF anonymous THEN s ELSE Voted(me, Success), Text(line, ""))
          [] key = "InconsistencyRecovery" ->
                IF anonymous \/ i = 0 THEN Shows(s, Nil)
                ELSE Shows(Voted(me, line.md5), Text(line, AsInitiator(s.ctx.conflicts[i])))

OutcomeHandler(key, line, s) ==
    LET i == ConflictFromMD5(s.ctx.conflicts, line.md5)
        Renamed(c) == [c EXCEPT !.votes = [n \in DOMAIN @ |->
                                            IF @[n] = line.md52 THEN line.md5 ELSE @[n]]]
    IN  CASE key \in {"Desync", "Resync"} ->
                Shows([s EXCEPT !.ctx.desynced = (key = "Desync")], ByRoles(line, <<line.name>>))
          [] key = "InconsistencyVoted" -> Shows(s, Text(line, ""))
          [] key = "InconsistencyWinner" ->
                IF i = 0 THEN Shows(s, Nil)
                ELSE Shows([s EXCEPT !.ctx.conflicts[i].winner = line.md5],
                           OfWinner(line, s.ctx.conflicts[i].seqno))
          [] key = "InconsistencyVoteRecomputed" ->
                Shows([s EXCEPT !.ctx.conflicts = [j \in DOMAIN @ |-> Renamed(@[j])]], Text(line, ""))

VoteKeys == {"InconsistencyVoteInit", "InconsistencyVoteRespond",
             "InconsistencyVoteInconsistentWithGroup", "InconsistencyRecovery"}
OutcomeKeys == {"Desync", "Resync", "InconsistencyVoted", "InconsistencyWinner",
                "InconsistencyVoteRecomputed"}

----------------------------------------------------------------------------
(* regex/operator.go: extra lines of the Kubernetes operator.              *)

\* One line holds a whole view, every entry of which is taken in turn.  An
\* entry without displayer is a nil call, which panics: no outcome.
OperatorView(line, s) ==
    LET taken[i \in 0 .. Len(line.members)] ==
            IF i = 0 THEN [s EXCEPT !.ctx.myIdx = line.idx]
            ELSE (CHOOSE o \in MemberAssociations(Entry(line, line.members[i]), taken[i - 1]) :
                     TRUE).s
        unshown == \E i \in DOMAIN line.members : ShortForm(line.members[i].name) \in Truncated
    IN  IF unshown THEN {}
        ELSE Shows(taken[Len(line.members)], Text(line, ""))

OperatorHandler(key, line, s) ==
    CASE key = "NodeNameFromEnv" -> Shows(AddOwnName(s, line.name, line.ts), Text(line, ""))
      [] key = "NodeIPFromEnv" -> Shows(AddOwnIP(s, line.ip, line.ts), Text(line, ""))
      [] key = "GcacheScan" -> Shows(s, Text(line, ""))
      [] key = "OperatorMemberAssociations" -> OperatorView(line, s)
      [] key = "PodName" -> Shows([s EXCEPT !.ctx.pod = <<line.name, line.name2>>], Text(line, ""))

OperatorKeys == {"NodeNameFromEnv", "NodeIPFromEnv", "GcacheScan", "OperatorMemberAssociations",
                 "PodName"}

\* regex/custom.go: what the user asks for is only shown.
CustomKeys == {"Custom"}
CustomHandler(line, s) == Shows(s, Text(line, ""))

----------------------------------------------------------------------------
(* Which regexes find a line, and LogRegex.Handle.                         *)

RegexesOf(line) ==
    CASE line.kind = "NewComponent" -> {"NewComponent", "MyIDXFromComponent"}
      [] line.kind = "NodeEstablished" -> {"NodeEstablished", "OwnUUIDFromEstablished"}
      [] line.kind = "SSTCompleteUnknown" -> {"SSTCompleteUnknown", "SSTComplete"}
      [] line.kind = "SSTFailedUnknown" -> {"SSTFailedUnknown", "SSTStateTransferFailed"}
      [] line.kind = "OperatorMemberAssociations" ->
            {"OperatorMemberAssociations", "OwnIndexFromView", "MemberCount"}
                \cup (IF line.members = << >> THEN {} ELSE {"MemberAssociations"})
      [] OTHER -> {line.kind}

\* The InternalRegex wants a joiner's name, an ip or a member that is not there.
Captures(key, line) ==
    /\ ~(key \in {"SSTComplete", "SSTStateTransferFailed"} /\ line.kind # key)
    /\ ~(key = "BaseHost" /\ line.ip = "")
    /\ ~(key = "OperatorMemberAssociations" /\ line.members = << >>)

DebugKeys == IdentKeys \cup (OperatorKeys \ {"GcacheScan"})
    \cup {"NodeEstablished", "XtrabackupISTReceived", "InconsistencyRecovery",
          "InconsistencyVoteRecomputed"}

VerbosityOf(key, quiet) == IF key \in DebugKeys \cup quiet THEN 1 ELSE 0

Handle(key, line, s, quiet) ==
    LET t == [s EXCEPT !.ctx.minVerbosity = Earlier(@, VerbosityOf(key, quiet))]
    IN  CASE ~Captures(key, line) -> Shows(t, Nil)
          [] key \in EventKeys -> EventHandler(key, line, t)
          [] key \in ViewKeys -> ViewHandler(key, line, t)
          [] key \in TransferKeys -> TransferHandler(key, line, t)
          [] key \in LocalTransferKeys -> LocalTransferHandler(key, line, t)
          [] key \in StateKeys -> StateHandler(key, line, t)
          [] key \in IdentKeys -> IdentHandler(key, line, t)
          [] key \in VoteKeys -> VoteHandler(key, line, t)
          [] key \in OutcomeKeys -> OutcomeHandler(key, line, t)
          [] key \in OperatorKeys -> OperatorHandler(key, line, t)
          [] key \in CustomKeys -> CustomHandler(line, t)

============================================================================

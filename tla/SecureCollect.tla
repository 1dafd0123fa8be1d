---------------------------- MODULE SecureCollect ----------------------------
(***************************************************************************)
(* pt-secure-collect, its collect command: run the collection commands     *)
(* into a temporary directory, sanitise the files there and those of the   *)
(* included directories, pack them into a tar file, encrypt it and remove  *)
(* the temporary files.  Any of these may fail; what each failure leaves   *)
(* on the disk is decided in main and in collectData.                      *)
(*                                                                         *)
(* A file is its lines, of the kinds the sanitiser tells apart, and        *)
(* whether it was sanitised.  At most MaxSlips calls fail; some of them    *)
(* without anybody being told.                                             *)
(***************************************************************************)
EXTENDS Naturals, Sequences, FiniteSets, Functions, SequencesExt

CONSTANTS CollectOptions, \* [noCollect, noSanitize, noEncrypt, noRemove, password]
          Commands,       \* sequence of [base, lines, allowed]
          Included,       \* files of --include-dir: base name -> lines
          Leftover,       \* files already in the directory: name -> lines
          MaxSlips        \* bound on failing calls

\* What the sanitiser tells apart: a line that starts a query and ends it
\* or not, one that ends a query, one of stars, any other, and what may
\* stand behind the last newline.
LineKinds == {"query", "query;", "end;", "***", "text", "rest"}
Directory(dir) == /\ IsFiniteSet(DOMAIN dir)
                  /\ \A n \in DOMAIN dir : dir[n] \in Seq(LineKinds)

ASSUME SecureAssumption ==
    /\ MaxSlips \in Nat
    /\ Commands \in Seq([base : STRING, lines : Seq(LineKinds), allowed : BOOLEAN])
    /\ Directory(Included) /\ Directory(Leftover)

VARIABLES flags,      \* the command line
          scPc,       \* "params", "run", "list", "sanitize", "tar",
                      \* "encrypt", "main", "remove", "done", "fatal"
          temp,       \* ordinary files of the temporary directory
          tarFile,    \* the tar file if there is one: {name -> file}
          aesFile,    \* the encrypted file, as tarFile
          next,       \* the next command
          second,     \* the clock that goes into the names of outputs
          unread,     \* files the sanitiser has still to do: <<where, name>>
          collected,  \* ghost: command -> [name, lines] that it wrote
          spoilt,     \* ghost: outputs that lost lines by an ignored error
          unsealed,   \* ghost: packing or encrypting did, or had no password
          slips,      \* calls that have failed
          collectErr  \* collectData returned an error

scVars == <<flags, scPc, temp, tarFile, aesFile, next, second, unread,
            collected, spoilt, unsealed, slips, collectErr>>

File(lines) == [lines |-> lines, clean |-> FALSE]
Put(dir, name, file) == [n \in DOMAIN dir \cup {name} |->
                           IF n = name THEN file ELSE dir[n]]
Stays(var) == UNCHANGED <<flags, collected, second, next, var>>
FirstOf(lines, n) == SubSeq(lines, 1, n)

(* A call succeeds, or one of the allowed failures is used up. *)
Try(ok) == /\ ok \in BOOLEAN
           /\ ~ok => slips < MaxSlips
           /\ slips' = IF ok THEN slips ELSE slips + 1

SecureInit ==
    /\ flags \in CollectOptions
    /\ scPc = "params" /\ temp = [n \in DOMAIN Leftover |-> File(Leftover[n])]
    /\ tarFile = {} /\ aesFile = {} /\ next = 1 /\ second = 0
    /\ unread = <<>> /\ collected = <<>> /\ spoilt = {} /\ unsealed = FALSE
    /\ slips = 0 /\ collectErr = FALSE

AfterCommands == IF flags.noSanitize THEN "tar" ELSE "list"

(* processCliParams: tools not found, no MySQL user, or a password that    *)
(* was not typed twice alike end the program before it starts, and so does *)
(* a temporary directory that cannot be made.                              *)
Params == /\ scPc = "params"
          /\ \E ok \in BOOLEAN :
                /\ Try(ok)
                /\ scPc' = CASE ~ok -> "fatal"
                             [] ok /\ flags.noCollect -> AfterCommands
                             [] OTHER -> "run"
          /\ Stays(<<temp, tarFile, aesFile, unread, spoilt, unsealed, collectErr>>)

(* getCommandsToRun gives up at a command it cannot parse; collectData     *)
(* overwrites that error with the success of running nothing.              *)
Unparsable == /\ scPc = "run" /\ next = 1 /\ Try(FALSE)
              /\ scPc' = AfterCommands
              /\ Stays(<<temp, tarFile, aesFile, unread, spoilt, unsealed, collectErr>>)

(* runCommands: the output goes to <base>_<second>.out, created anew even  *)
(* if an earlier command has just written it.  An output that cannot be    *)
(* created, or a command that fails, ends the collection; a write that     *)
(* does not.  rm, fdisk and rmdir are skipped.                             *)
Runs(c, s) ==
    LET name == <<c.base, s>> IN
    \/ \E n \in 0 .. Len(c.lines) :
          /\ Try(n = Len(c.lines))
          /\ temp' = Put(temp, name, File(FirstOf(c.lines, n)))
          /\ collected' = Put(collected, next, [name |-> name, lines |-> c.lines])
          /\ spoilt' = IF n = Len(c.lines) THEN spoilt \ {name} ELSE spoilt \cup {name}
          /\ UNCHANGED <<scPc, collectErr>>
    \/ /\ Try(FALSE)
       /\ temp' \in {temp, Put(temp, name, File(<<"text">> \o c.lines))}
       /\ scPc' = "main" /\ collectErr' = TRUE
       /\ UNCHANGED <<collected, spoilt>>
RunCommand ==
    /\ scPc = "run" /\ next <= Len(Commands)
    /\ IF ~Commands[next].allowed
       THEN UNCHANGED <<scPc, temp, collected, spoilt, slips, second, collectErr>>
       ELSE \E s \in {second, second + 1} : second' = s /\ Runs(Commands[next], s)
    /\ next' = next + 1
    /\ UNCHANGED <<flags, tarFile, aesFile, unread, unsealed>>
RunEnds == /\ scPc = "run" /\ next > Len(Commands)
           /\ scPc' = AfterCommands
           /\ Stays(<<temp, tarFile, aesFile, unread, spoilt, unsealed, slips, collectErr>>)

(* joinQueryLines: from a line that may start a query to one that ends in  *)
(* ";", or to a "***" line, the lines become one; what follows the last    *)
(* complete query is dropped.                                              *)
(* Mutant: the query that a "***" line ends is not appended. *)
EndedByStarsDropped(acc, line) ==
    [joined |-> Append(acc.joined, line), query |-> <<>>]
EndedByStars(acc, line) ==
    [joined |-> acc.joined \o Append(acc.query, line), query |-> <<>>]
JoinStep(acc, line) ==
    CASE acc.query = <<>> /\ line \notin {"query", "query;"} ->
           [acc EXCEPT !.joined = Append(@, line)]
      [] acc.query # <<>> /\ line = "***" -> EndedByStars(acc, line)
      [] line \in {"query;", "end;"} /\ (acc.query # <<>> \/ line = "query;") ->
           [joined |-> acc.joined \o Append(acc.query, line), query |-> <<>>]
      [] OTHER -> [acc EXCEPT !.query = Append(@, line)]
JoinQueryLines(lines) ==
    LET upTo[n \in 0 .. Len(lines)] ==
          IF n = 0 THEN [joined |-> <<>>, query |-> <<>>]
                   ELSE JoinStep(upTo[n - 1], lines[n])
    IN  upTo[Len(lines)].joined
Sanitize(lines) == [lines |-> JoinQueryLines(lines), clean |-> TRUE]

(* ReadLinesFromFile ends at the first error, be it the end of the file,   *)
(* and reports none; what stands behind the last newline is dropped.       *)
ReadLines(lines) == IF lines # <<>> /\ Last(lines) = "rest" THEN Front(lines) ELSE lines

(* processFiles: first the temporary directory itself, then the included   *)
(* ones, whose files land in the temporary directory under their base      *)
(* names.  A directory without files is an error, and so is a file that    *)
(* cannot be opened, created or written; reading it has no error.          *)
FilesIn(where, dir) == SetToSeq({<<where, n>> : n \in DOMAIN dir})
ListDirs ==
    /\ scPc = "list"
    /\ unread' = IF temp = <<>> THEN <<>>
                 ELSE FilesIn("temp", temp) \o FilesIn("included", Included)
    /\ collectErr' = (temp = <<>>)
    /\ scPc' = IF temp = <<>> THEN "main" ELSE "sanitize"
    /\ Stays(<<temp, tarFile, aesFile, spoilt, unsealed, slips>>)
Source(file) == IF file[1] = "temp" THEN temp[file[2]] ELSE File(Included[file[2]])
SanitizeFile ==
    /\ scPc = "sanitize"
    /\ LET name == Head(unread)[2]
           lines == ReadLines(Source(Head(unread)).lines)
       IN  \/ \E n \in 0 .. Len(lines) :
                 /\ Try(n = Len(lines))
                 /\ temp' = Put(temp, name, Sanitize(FirstOf(lines, n)))
                 /\ spoilt' = IF n = Len(lines) THEN spoilt ELSE spoilt \cup {name}
                 /\ unread' = Tail(unread)
                 /\ scPc' = IF Len(unread) = 1 THEN "tar" ELSE "sanitize"
                 /\ UNCHANGED collectErr
           \/ /\ Try(FALSE)
              /\ temp' \in {temp, Put(temp, name, Sanitize(<<>>))}
              /\ scPc' = "main" /\ collectErr' = TRUE /\ unread' = <<>>
              /\ UNCHANGED spoilt
    /\ Stays(<<tarFile, aesFile, unsealed>>)

(* tarit packs what is in the temporary directory, if it can.  What is     *)
(* still in its buffers is written by the deferred Closes of the tar, gzip *)
(* and file writers, whose errors are dropped.                             *)
Tar == /\ scPc = "tar"
       /\ \E ok \in BOOLEAN : \E packed \in SUBSET DOMAIN temp :
             /\ Try(packed = DOMAIN temp /\ ok)
             /\ tarFile' = {Restrict(temp, packed)}
             /\ scPc' = IF ok THEN "encrypt" ELSE "main"
             /\ collectErr' = ~ok
             /\ unsealed' = (packed # DOMAIN temp)
       /\ Stays(<<temp, aesFile, unread, spoilt>>)

(* The error that encrypt returns is dropped, and so is the wish to        *)
(* encrypt when an empty password was typed.                               *)
Encrypt ==
    /\ scPc = "encrypt"
    /\ IF flags.noEncrypt \/ flags.password = ""
       THEN /\ unsealed' = (unsealed \/ ~flags.noEncrypt)
            /\ UNCHANGED <<aesFile, slips>>
       ELSE \E tar \in tarFile : \E part \in SUBSET DOMAIN tar :
              \/ /\ Try(part = DOMAIN tar)
                 /\ aesFile' = {Restrict(tar, part)}
                 /\ unsealed' = (unsealed \/ part # DOMAIN tar)
              \/ /\ Try(FALSE) /\ unsealed' = TRUE /\ UNCHANGED aesFile
    /\ scPc' = "main"
    /\ Stays(<<temp, tarFile, unread, spoilt, collectErr>>)

(* main: an error is fatal, and leaves all files; removeTempFiles spares   *)
(* the encrypted file, and the tar file only with --no-encrypt.            *)
AfterCollect == /\ scPc = "main"
                /\ scPc' = CASE collectErr -> "fatal"
                             [] ~collectErr /\ flags.noRemove -> "done"
                             [] OTHER -> "remove"
                /\ Stays(<<temp, tarFile, aesFile, unread, spoilt, unsealed, slips, collectErr>>)
RemoveTempFiles ==
    /\ scPc = "remove"
    /\ \/ /\ \E stuck \in SUBSET DOMAIN temp :
                /\ Try(stuck = {})
                /\ temp' = Restrict(temp, stuck)
          /\ tarFile' = IF flags.noEncrypt THEN tarFile ELSE {}
          /\ scPc' = "done"
       \/ Try(FALSE) /\ scPc' = "fatal" /\ UNCHANGED <<temp, tarFile>>
    /\ Stays(<<aesFile, unread, spoilt, unsealed, collectErr>>)

SecureNext == \/ Params \/ Unparsable \/ RunCommand \/ RunEnds \/ ListDirs
              \/ SanitizeFile \/ Tar \/ Encrypt \/ AfterCollect \/ RemoveTempFiles

-----------------------------------------------------------------------------
(* The tar file and the encrypted file hold nothing that was not          *)
(* sanitised, unless --no-sanitize; and a program that ends well leaves    *)
(* every output of its commands, but for what stood behind its last        *)
(* newline and for a query cut off at its end.  It does lose, and says     *)
(* nothing: lines of an output whose writing or reading failed             *)
(* (collect.go:222, util.go:26-36); an output that a command of the same   *)
(* name began anew in the same second (206-208), or that a file of an      *)
(* included directory replaces (101); files when a Close fails (130-136);  *)
(* and all of it without a password, or when the encryption fails (63-71). *)
Versions(i) == LET out == collected[i]
                   whole == {out.lines} \cup
                            {Included[n] : n \in {out.name} \cap DOMAIN Included}
               IN  whole \cup {ReadLines(lines) : lines \in whole}
CutQuery(lines, whole) ==
    /\ IsPrefix(lines, whole)
    /\ \/ lines = whole
       \/ /\ whole[Len(lines) + 1] = "query"
          /\ \A i \in Len(lines) + 2 .. Len(whole) :
                whole[i] \notin {"query;", "end;", "***"}
Overwritten(i) == \E j \in DOMAIN collected : i < j /\ collected[j].name = collected[i].name
Keeps(art, i) == LET name == collected[i].name IN
                 name \in DOMAIN art /\ \E v \in Versions(i) : CutQuery(art[name].lines, v)
Complete(art) == \A i \in DOMAIN collected :
                    Overwritten(i) \/ collected[i].name \in spoilt \/ Keeps(art, i)
ArchiveIsCleanAndWhole ==
    /\ ~flags.noSanitize => \A art \in tarFile \cup aesFile :
                               \A n \in DOMAIN art : art[n].clean
    /\ scPc = "done" /\ ~unsealed =>
         \E art \in IF flags.noEncrypt THEN tarFile ELSE aesFile : Complete(art)
=============================================================================

------------------------------ MODULE HgFiles ------------------------------
(***************************************************************************)
(* The two Mercurial file trees: hgFSNative (hg/repo.go) reads a revision's *)
(* manifest and the file logs; hgFSCmd (hgcmd/repo.go) runs hg.  A manifest *)
(* has files only; both derive the directories from the files' paths.      *)
(*                                                                         *)
(* A path is a sequence of names, << >> the root.  A manifest m maps the    *)
(* paths of its files to entries.  A file log has one record for each       *)
(* content that its file has had in the revisions pulled; logs maps the     *)
(* paths that have a file log to its records.  Content is named by its id.  *)
(***************************************************************************)
EXTENDS Integers, Sequences, FiniteSets, SequencesExt

\* What an entry of the manifest says: a plain or executable file or a link, and
\* which record of the file's log has the content.  A link's id is the path that
\* it leads to, which is its content.
Entry(mode, id) == [mode |-> mode, id |-> id]

\* A record of a file log, and the first revision that had its content.
Record(id, linkrev) == [id |-> id, linkrev |-> linkrev]

\* A file has a name.  Directories have no entry, so a file is not above another.
IsManifest(m) ==
  /\ \A p \in DOMAIN m : p \in Seq(STRING) /\ p # << >>
  /\ \A p, q \in DOMAIN m : ~IsStrictPrefix(p, q)

NotExist == "notExist"
Failed   == "failed"

\* The files somewhere below the directory p.
FilesBelow(m, p) == {f \in DOMAIN m : IsStrictPrefix(p, f)}

\* The directories of a manifest, the root among them.
Dirs(m) == {<< >>} \cup UNION {{SubSeq(f, 1, i) : i \in 0 .. Len(f) - 1} : f \in DOMAIN m}

-----------------------------------------------------------------------------
(* hgFSNative.                                                             *)

\* A plausible bug: the lookup knows no revision.
MaybeAny(log, at) == SUBSET log

\* LinkRevSpec.Lookup takes the records that may be the one of revision at or of
\* an ancestor of it: hgo's choice, among those that the log had by then.
MaybeAncestors(log, at) == SUBSET {r \in log : r.linkrev <= at}

\* A plausible bug: the lookup is not told which record the manifest names.
LookupUntold(maybe, id) == maybe

\* FindPresent takes the record that the manifest names; when it is not among
\* them, the lookup is repeated without it and may take any.
LookupRecord(maybe, id) ==
  LET present == {r \in maybe : r.id = id} IN IF present # {} THEN present ELSE maybe

NoEntry(err) == [err |-> err, mode |-> "none", data |-> << >>]

\* getEntry opens the path's file log, looks the path up in the manifest, and then
\* the record in the log.  Without a log the error is the operating system's; a
\* path that is not in the manifest, or has no record, is an error of a package.
GetEntry(m, logs, maybe, p) ==
  CASE p \notin DOMAIN logs -> {NoEntry("noLog")}
    [] p \in DOMAIN logs /\ p \notin DOMAIN m -> {NoEntry("notInManifest")}
    [] p \in DOMAIN logs \cap DOMAIN m /\ maybe = {} -> {NoEntry("noRecord")}
    [] OTHER -> {[err |-> "none", mode |-> m[p].mode, data |-> r.id] :
                   r \in LookupRecord(maybe, m[p].id)}

LogOf(logs, p) == IF p \in DOMAIN logs THEN logs[p] ELSE {}

\* All that getEntry may come to at revision at.
Entries(m, logs, at, p) ==
  UNION {GetEntry(m, logs, maybe, p) : maybe \in MaybeAncestors(LogOf(logs, p), at)}

\* A directory is what has files below it.
DirStat(m, p) == IF p = << >> \/ FilesBelow(m, p) # {} THEN "dir" ELSE NotExist

\* lstat looks for a directory only when the path has no file log
\* (os.IsNotExist is false for the packages' own errors).
LstatOf(m, p, e) ==
  CASE e.err = "noLog" -> DirStat(m, p)
    [] e.err = "none"  -> e.mode
    [] OTHER           -> NotExist

\* A manifest, a log or a record that cannot be read is an error.
Lstat(m, logs, at, p) == {Failed} \cup {LstatOf(m, p, e) : e \in Entries(m, logs, at, p)}

\* Stat goes through one link, to what it reads in the record, from the root.
Stat(m, logs, at, p) ==
  {Failed} \cup
  UNION {IF e.err = "none" /\ e.mode = "link" THEN Lstat(m, logs, at, e.data)
         ELSE {LstatOf(m, p, e)} : e \in Entries(m, logs, at, p)}

Got(data) == [err |-> "none", data |-> data]
OpenError(err) == [err |-> err, data |-> << >>]

\* Open gives the record's content; a link's is the link itself.
OpenOf(e) == IF e.err = "none" THEN Got(e.data) ELSE OpenError(NotExist)

OpenFile(m, logs, at, p) ==
  {OpenError(Failed)} \cup {OpenOf(e) : e \in Entries(m, logs, at, p)}

\* The name that the file f has in the listing of p, and what it is there.
Listed(m, p, f) ==
  [name |-> f[Len(p) + 1],
   mode |-> IF Len(f) = Len(p) + 1 THEN m[f].mode ELSE "dir"]

\* A plausible bug: only the files directly in the directory.
ReadDirFilesOnly(m, p) == {Listed(m, p, f) : f \in {g \in FilesBelow(m, p) : Len(g) = Len(p) + 1}}

\* ReadDir lists what is directly in p; a path without files has an empty
\* listing and no error.
ReadDir(m, p) == {Listed(m, p, f) : f \in FilesBelow(m, p)}

-----------------------------------------------------------------------------
(* hgFSCmd.  hg locate, hg cat: what the code takes them to print.          *)

\* hg locate --include=p --exclude=p/*/*/*
Located(m, p) == {f \in DOMAIN m : IsPrefix(p, f) /\ Len(f) < Len(p) + 3}

\* The name of a located file with the directory's prefix trimmed: a file that
\* is p itself keeps its whole path.
CmdListed(p, f) ==
  LET name == IF f = p THEN f ELSE SubSeq(f, Len(p) + 1, Len(f))
  IN  [name |-> name[1], mode |-> IF Len(name) = 1 THEN "file" ELSE "dir"]

\* hg locate fails when it finds nothing.
CmdReadDir(m, p) ==
  IF Located(m, p) = {} THEN [err |-> "failed"]
  ELSE [err |-> "none", list |-> {CmdListed(p, f) : f \in Located(m, p)}]

\* A path that hg locates is a file; else it is a directory when ReadDir finds
\* something in it.  Links and modes are not looked at.
CmdStat(m, p) ==
  IF p \in DOMAIN m THEN "file"
  ELSE IF CmdReadDir(m, p).err = "none" THEN "dir" ELSE NotExist

\* hg cat prints the content that the manifest names.
CmdOpen(m, p) == IF p \in DOMAIN m THEN Got(m[p].id) ELSE OpenError(NotExist)
=============================================================================

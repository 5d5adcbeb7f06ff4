------------------------------ MODULE GitFiles ------------------------------
(***************************************************************************)
(* The two git file trees: filesystem (git/vfs.go) looks the entries up     *)
(* through the go-git library, gitFSCmd (gitcmd/repo.go) runs git ls-tree   *)
(* and git show.  A commit's tree is immutable.                            *)
(*                                                                         *)
(* A path is a sequence of names, << >> the root ("." after Rel and Clean). *)
(* A tree t maps the paths of its entries, directories among them, to      *)
(* entries.                                                                *)
(***************************************************************************)
EXTENDS Integers, Sequences, FiniteSets, SequencesExt

\* A blob of one of three modes, a tree, or a submodule's commit; what a blob
\* holds, which for a link is the path it leads to.
GitEntry(kind, data) == [kind |-> kind, data |-> data]

Blobs == {"file", "exec", "link"}

\* What Lstat and Stat, ReadDir, and Open return for a path that they do not find.
Missing == [kind |-> "notExist", dest |-> << >>]
NoList == [err |-> "notExist", list |-> {}]
NoData == [err |-> "notExist", data |-> << >>]

Listing(s) == [err |-> "none", list |-> s]
Data(d) == [err |-> "none", data |-> d]

\* The entries directly in the directory p.
EntriesIn(t, p) == {q \in DOMAIN t : Len(q) = Len(p) + 1 /\ IsPrefix(p, q)}

\* The root and the trees, and only they, have entries in them.  A commit of no
\* files, whose root git log does not date, is left out.
IsTree(t) ==
  /\ \A p \in DOMAIN t :
       /\ p \in Seq(STRING) \ {<< >>} /\ t[p].kind \in Blobs \cup {"tree", "submodule"}
       /\ Len(p) > 1 => Front(p) \in DOMAIN t
  /\ \A p \in DOMAIN t \cup {<< >>} :
       EntriesIn(t, p) # {} <=> (p = << >> \/ t[p].kind = "tree")

-----------------------------------------------------------------------------
(* filesystem.                                                             *)

\* makeFileInfo: a blob by its mode, a directory, or a submodule.
MakeFileInfo(e) == [kind |-> e.kind, dest |-> IF e.kind = "link" THEN e.data ELSE << >>]

RootInfo == [kind |-> "tree", dest |-> << >>]

NativeLstat(t, p) ==
  IF p = << >> THEN RootInfo
  ELSE IF p \in DOMAIN t THEN MakeFileInfo(t[p]) ELSE Missing

\* A plausible bug: the link's destination is stated in turn, and again.
StatOfLink(t, p) ==
  IF p \in DOMAIN t /\ t[p].kind = "link" /\ t[p].data \in DOMAIN t /\ t[t[p].data].kind = "link"
  THEN NativeLstat(t, t[t[p].data].data)
  ELSE NativeLstat(t, p)

\* Stat goes through one link, whose destination it takes from the root.
NativeStat(t, p) ==
  IF p \in DOMAIN t /\ t[p].kind = "link" THEN NativeLstat(t, t[p].data) ELSE NativeLstat(t, p)

\* A path that is no tree has no tree by its object's name.
NativeReadDir(t, p) ==
  IF p = << >> \/ (p \in DOMAIN t /\ t[p].kind = "tree")
  THEN Listing({[name |-> Last(q), info |-> MakeFileInfo(t[q])] : q \in EntriesIn(t, p)})
  ELSE NoList

\* A blob's bytes, also a link's; nothing for a submodule; an error for a tree.
NativeOpen(t, p) ==
  IF p \notin DOMAIN t \/ t[p].kind = "tree" THEN NoData
  ELSE Data(IF t[p].kind \in Blobs THEN t[p].data ELSE << >>)

-----------------------------------------------------------------------------
(* gitFSCmd.  What git prints is external.                                 *)

\* git ls-tree lists the entry itself; with a slash after it, what is in it, and a
\* submodule as if it were in itself.  The root has no entry of its own.
LsTree(t, p, slash) ==
  LET itself == {p} \cap DOMAIN t
      lines  == IF slash = "/" THEN EntriesIn(t, p) \cup {q \in itself : t[q].kind = "submodule"}
                ELSE itself
  IN  IF lines = {} THEN NoList
      ELSE Listing({[name |-> Last(q), info |-> MakeFileInfo(t[q])] : q \in lines})

\* fis[0]
First(fis) == CHOOSE fi \in fis : TRUE

CmdLstat(t, p) ==
  IF p = << >> THEN RootInfo
  ELSE IF LsTree(t, p, "no").err = "none" THEN First(LsTree(t, p, "no").list).info
  ELSE Missing

CmdStatAt(t, p) ==
  LET fi == CmdLstat(t, p) IN
  IF fi.kind = "link" THEN CmdLstat(t, fi.dest) ELSE fi

CmdReadDirAt(t, p) == LsTree(t, p, "/")

\* git show at:path prints a blob, and the names in a tree, the root's too; the
\* object that a submodule names is not there, and readFileBytes then asks Stat.
CmdOpenAt(t, p) ==
  IF p = << >> THEN Data(<<"listing">>)
  ELSE IF p \notin DOMAIN t THEN NoData
  ELSE IF t[p].kind = "tree" THEN Data(<<"listing">>)
  ELSE IF t[p].kind \in Blobs THEN Data(t[p].data)
  ELSE IF CmdStatAt(t, p).kind = "submodule" THEN Data(<< >>) ELSE NoData
=============================================================================

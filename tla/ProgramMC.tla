----------------------------- MODULE ProgramMC -----------------------------
(***************************************************************************)
(* Small instances of Program: the tool with all its imports, a program     *)
(* that calls the methods of a git handle, and programs that only open and  *)
(* trace.                                                                  *)
(***************************************************************************)
EXTENDS Program

User(kind, imports, asks) == [kind |-> kind, imports |-> imports, asks |-> asks]

MCUsers ==
  {User("tool", Packages, FALSE), User("library", {"git", "gitcmd"}, TRUE)} \cup
  {User("library", s, FALSE) : s \in {t \in SUBSET Packages : Closed(t)}}

MCPlaces == { << {}, {} >>, << {}, {"git", "hg"} >>, << {"hg"}, {"git"} >> }

\* Everything resolved in every way, every filter of Branches, every commit.
MCRequests ==
  {Resolve(op, s) : op \in Resolvers, s \in Specs} \cup
  {About(op, c) : op \in {"GetCommit", "FileSystem"}, c \in Commits} \cup
  {BranchesCall(m, c) : m \in {"", "main", "x"}, c \in Commits \cup {None}} \cup {Update}

\* Links to a file, to a directory, to a link, to nothing; a submodule.
MCTreeOf ==
  [c \in Commits |->
    CASE c = 0 -> <<"f">> :> GitEntry("file", << >>)
      [] OTHER -> <<"f">> :> GitEntry("exec", <<"some", "text">>)
               @@ <<"d">> :> GitEntry("tree", << >>)
               @@ <<"d", "f">> :> GitEntry("file", << >>)
               @@ <<"d", "s">> :> GitEntry("submodule", << >>)
               @@ <<"k">> :> GitEntry("link", <<"d">>)
               @@ <<"d", "l">> :> GitEntry("link", <<"k">>)
               @@ <<"m">> :> GitEntry("link", <<"gone">>)
               @@ <<"r">> :> GitEntry("link", << >>)]
=============================================================================

------------------------------ MODULE HgRepoMC ------------------------------
(***************************************************************************)
(* Histories of four commits for HgRepo.  Each set varies one thing: the    *)
(* shape of the history, the branches and tags, or the files.              *)
(***************************************************************************)
EXTENDS HgRepo

MCNames == {"stable", "next"}

Linear4 == [c \in Rev |-> IF c = 0 THEN {} ELSE {c - 1}]

File == Entry("file", <<"v1">>)
OneFile == <<"f">> :> File

NoTags == [t \in {} |-> [names |-> 0, since |-> 0]]

Scenario(p, m, b, t, k, called) ==
  [parents |-> p, manifest |-> m, branch |-> b, tagged |-> t, first |-> k, calls |-> called]

\* Every shape, all of it there from the start.
Shapes == {Scenario(p, [c \in Rev |-> OneFile], [c \in Rev |-> "stable"], NoTags, 4, {"Commits"}) : p \in Histories}

\* Every assignment of branches; a tag by a branch's name; one or two revisions
\* at first.
Namings ==
  {Scenario(Linear4, [c \in Rev |-> OneFile], b, "next" :> [names |-> x, since |-> y], k, {}) :
     b \in [Rev -> MCNames], x \in {0, 2}, y \in {2, 3}, k \in {1, 2}}

\* A file d, a directory d, a directory of directories, links; and f with two
\* contents.
Trees ==
  { OneFile,
    <<"d">> :> File @@ <<"f">> :> Entry("file", <<"v2">>),
    <<"d", "f">> :> File @@ <<"f">> :> Entry("link", <<"d", "f">>),
    <<"d", "d", "d", "f">> :> Entry("exec", <<"v1">>) @@ <<"l">> :> Entry("link", <<"d">>) }

TreeHistories ==
  {Scenario(Linear4, m, [c \in Rev |-> "stable"], NoTags, 1, {"FileSystem"}) : m \in [Rev -> Trees]}

\* A call of BlameFile while a commit is pulled.
Annotated ==
  {Scenario(Linear4, [c \in Rev |-> OneFile], [c \in Rev |-> "stable"], NoTags, 3, {"BlameFile"})}

MCScenarios == Annotated \cup Shapes \cup Namings \cup TreeHistories
=============================================================================

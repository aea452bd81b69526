------------------------------ MODULE MCConfig ------------------------------
(* What the users of an editor save, in the instances of Config.  The _edit *)
(* instance has two of them at the same time and no other commands.         *)
EXTENDS Config

\* What an editor may save: no configuration; two sub-agents, one of them the
\* default, with a remote agent and a server; agents with tools of their own;
\* and a remote agent with the name of a local one.
Entry(name, role, its) == [name |-> name, provider |-> "p", role |-> role, tools |-> its]
Draft(agents, default, remotes, servers) ==
    [providers |-> {[name |-> "p", type |-> "http"]}, agents |-> agents,
     default |-> default, remotes |-> remotes, servers |-> servers]
EditorDrafts ==
    { Torn,
      Draft(<<Entry("a", "sub", {}), Entry("b", "sub", {})>>, "a", {"r"}, 1),
      Draft(<<Entry("a", "sub", {}), Entry("b", "main", {"t"})>>, "b", {}, 0),
      Draft(<<Entry("a", "main", {}), Entry("b", "sub", {})>>, "", {"b"}, 0) }
=============================================================================

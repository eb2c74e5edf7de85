----------------------------- MODULE ReadAnswers -----------------------------
(***************************************************************************)
(* What the code daemon's read tools answer on a connection, against the   *)
(* repository they look at (tools/fs_tools.rs, tools/grep_tools.rs).       *)
(***************************************************************************)
EXTENDS CodeReads, Connection

CONSTANT Repo      \* the repository the read tools look at

\* A file is a sequence of lines, and a walk of files; the default of the configuration is a
\* usize.
IsSequence(s) == s \in Seq(ToSet(s))
Trees == {Repo.work} \cup {Repo.commits[c].tree : c \in DOMAIN Repo.commits}
ASSUME RepoAssumption ==
  /\ \A tree \in Trees : \A file \in DOMAIN tree : IsSequence(tree[file])
  /\ \A r \in DOMAIN Repo.refs : Repo.refs[r] \in DOMAIN Repo.commits
  /\ IsSequence(Repo.walk) /\ ToSet(Repo.walk) \subseteq DOMAIN Repo.work
  /\ Repo.default_max_matches \in Nat

Answers(tool) == {k \in DOMAIN sent : sent[k].code = "ok" /\ IsTool(sent[k].to, tool)}
Args(k) == input[sent[k].to].args

\* What read_file and grep answered is the repository's: every line under its own number, the
\* matches in order, and none missing unless the answer says so (fs_tools.rs:60-61, grep.rs:28).
ReadsAreTrue ==
  /\ \A k \in Answers("read_file") : ReadFileExact(Repo, Args(k), sent[k].res)
  /\ \A k \in Answers("grep") : GrepIsPrefix(Repo, Args(k), sent[k].res)
=============================================================================

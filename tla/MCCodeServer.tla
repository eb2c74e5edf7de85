---------------------------- MODULE MCCodeServer ----------------------------
EXTENDS CodeServer

-----------------------------------------------------------------------------
(* A repository.  c2 rewrites a, adds "my f" and deletes b/o; c3, beside it,  *)
(* changes f and adds b/g; their merge m keeps c2's version of f, which is   *)
(* that of c1.  c3's author has one of GitHub's long noreply addresses.  In  *)
(* the working tree lies a file, u, that the daemon may not open.            *)

A == <<"src", "a">>
F == <<"f">>
B == <<"b", "g">>
O == <<"src", "b", "o">>
W == <<"my f">>
U == <<"u">>
Dir == <<"src">>

Commit(tree, parents) == [tree |-> tree, parents |-> parents]
Base == (A :> <<"x", "y">>) @@ (F :> <<"x", "y", "x">>) @@ (O :> <<"z">>)
Mine == (A :> <<"w", "y", "x">>) @@ (F :> <<"x", "y", "x">>) @@ (W :> <<"v">>)
Merged == Mine @@ (B :> <<"y">>)

MCRepo ==
  [work    |-> Merged @@ (U :> <<"x">>),
   unreadable |-> {U},
   links   |-> (Root \o <<"out">> :> <<"elsewhere">>) @@ (Root \o <<"in">> :> Root \o F),
   refs    |-> [HEAD |-> "m", main |-> "c1"],
   commits |-> [c1 |-> Commit(Base, << >>),
                c2 |-> Commit(Mine, <<"c1">>),
                c3 |-> Commit((F :> <<"x", "w">>) @@ Base @@ (B :> <<"y">>), <<"c1">>),
                m  |-> Commit(Merged, <<"c2", "c3">>)],
   history |-> [HEAD |-> <<"m", "c2", "c3", "c1">>, main |-> <<"c1">>],
   walk    |-> <<B, F, W, A, U>>,
   language |-> (A :> "Rust") @@ (B :> "Rust") @@ (U :> "Rust"),
   default_max_matches |-> 3,
   blame   |-> (F :> <<"c1", "c1", "c1">>) @@ (A :> <<"c2", "c1", "c2">>) @@ (B :> <<"c3">>)
               @@ (W :> <<"c2">>),
   long    |-> [c1 |-> {"summary"}, c2 |-> {}, c3 |-> {"author-mail", "committer-mail"}, m |-> {}],
   long_names |-> {W},
   merge_base |-> <<"main", "HEAD">> :> "main",
   changes |-> <<"main", "HEAD">> :>
     <<[path |-> <<B>>, status |-> "added", hunks |-> <<[header |-> "h0", lines |-> <<"+y">>]>>],
       [path |-> <<<<"my">>, <<"f">>>>, status |-> "added",
        hunks |-> <<[header |-> "h1", lines |-> <<"+v">>]>>],
       [path |-> <<A>>, status |-> "modified",
        hunks |-> <<[header |-> "h2", lines |-> <<"-x", "+w">>], [header |-> "h3", lines |-> <<"+x">>]>>],
       [path |-> <<O>>, status |-> "deleted", hunks |-> <<[header |-> "h4", lines |-> <<"-z">>]>>]>>,
   shown   |-> [m |-> << >>]]

MCCheckouts == ("home" :> <<[repo |-> "owner/fork", form |-> "https"],
                           [repo |-> "owner/repo", form |-> "scp"]>>)
               @@ ("bare" :> <<[repo |-> "owner/repo", form |-> "file"]>>)

-----------------------------------------------------------------------------
(* Requests. *)

NoArgs == [k \in {} |-> 0]
Optional(key, values) == {NoArgs} \cup {key :> v : v \in values}
Also(S, T) == {s @@ t : s \in S, t \in T}

Request(method, tool, args, bad, id) ==
  [form |-> "request", method |-> method, tool |-> tool, args |-> args, illTyped |-> bad, id |-> id]
Call(tool, args)  == Request("tools/call", tool, args, {}, TRUE)
Plain(method, id) == Request(method, "none", NoArgs, {}, id)
Calls(tool, S)    == {Call(tool, args) : args \in S}
Line(form)        == [form |-> form]

Paths == {A, F, B, O, U, Dir, <<"nope">>, <<"..", "..", "etc">>, <<"src", "..", "f">>, <<"/", "etc">>,
          <<"out">>, <<"in">>}
Refs == {"HEAD", "main", "gone", Blank}

Reads1 ==
  Calls("read_file", Also({"file" :> p : p \in Paths}, Optional("ref", Refs)))
  \cup Calls("read_file", Also({"file" :> p : p \in {A, F}},
         Also(Optional("start_line", -1 .. 4), Optional("end_line", -1 .. 4))))
  \cup Calls("list_dir", Also({"dir" :> p : p \in {Dir, A, << >>, <<".">>, <<"nope">>}}, Optional("ref", Refs)))
  \cup Calls("stat_file", Also({"file" :> p : p \in {A, F, U, Dir, <<"nope">>, <<"out">>}}, Optional("ref", Refs)))
  \cup Calls("grep", Also({"pattern" :> p : p \in {{"x"}, {"x", "y"}, {"q"}}},
         Also(Optional("max_matches", -1 .. 6),
              Also(Optional("paths", {{Dir}, {F, Dir}, {}}), Optional("glob", {{F}, {U}, Blank})))))
  \cup Calls("grep", Also({"pattern" :> Malformed}, Optional("fixed_string", {TRUE, FALSE})))
  \cup {Call("grep", ("pattern" :> {"x"}) @@ ("glob" :> Malformed))}
  \cup Calls("git_log", Also(Optional("file", {A, F, B, <<"nope">>, Blank}),
         Also(Optional("ref", Refs), Optional("max_count", -1 .. 3))))
  \cup Calls("git_diff", Also({"from_ref" :> r : r \in {"main", "gone"}},
         Also({"to_ref" :> "HEAD"}, Also(Optional("paths", {{A}, {}}), Optional("merge_base", {TRUE})))))
  \cup Calls("git_show", Also({"sha" :> s : s \in {"m", "gone", "-x"}}, Optional("file", {F})))
  \cup Calls("git_blame", Also({"file" :> p : p \in {A, F, B, W, <<"nope">>}},
         Also(Optional("start_line", {-1} \cup 1 .. 4), Optional("end_line", {-1} \cup 1 .. 4))))
  \cup Calls("git_blame", Also({"file" :> A}, Optional("ref", {"HEAD", "a b", Blank})))
  \cup Calls("detect_languages", {NoArgs})
  \cup {Call("ast_search", NoArgs), Call("nothing", NoArgs), Call("list_symbols", "file" :> F),
        Request("tools/call", "grep", "pattern" :> {"x"}, {"max_matches"}, TRUE)}

Remote(repo, form) == "remote_url" :> [repo |-> repo, form |-> form]
Init1    == Plain("initialize", TRUE)
Ping     == Plain("ping", TRUE)
Clone    == Call("clone_repo", Remote("owner/repo", "https"))
CloneFork == Call("clone_repo", Remote("owner/fork", "https"))
Discover == Call("discover_repo", Remote("owner/repo", "scp"))
Scan     == Call("scan_for_repos", NoArgs)

MCHistories ==
  {<<call>> : call \in Reads1}
  \cup {<<Init1, Plain("initialized", FALSE), Ping, Plain("nothing", TRUE)>>,
        <<Ping, Init1, Line("garbage"), Plain("tools/call", TRUE)>>,
        <<Line("blank"), Plain("initialize", FALSE), Clone, Discover>>,
        <<Init1, Clone, Clone, Discover>>,
        <<Scan, Scan, Discover, Clone>>, <<Scan, CloneFork>>,
        <<Call("clone_repo", Remote("owner/repo", "file")), Call("discover_repo", Remote("x", "file")), Ping>>}
=============================================================================

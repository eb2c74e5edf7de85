------------------------------ MODULE GitReads ------------------------------
(***************************************************************************)
(* The code daemon's git tools: what git_log lists, and the parsers of     *)
(* what `git diff`, `git blame --porcelain` and `git show` print           *)
(* (git/log.rs, diff.rs, blame.rs, show.rs).                               *)
(*                                                                         *)
(* Abstractions.  A printed line is a record of its first word and of what *)
(* the parsers read in it.  A path is one or more words (a space separates *)
(* them), a word the sequence of its components.  A blame is of one ref.   *)
(***************************************************************************)
EXTENDS CodeReads

-----------------------------------------------------------------------------
(* git_log. *)

BlobAt(repo, sha, file) ==
  LET tree == repo.commits[sha].tree IN IF file \in DOMAIN tree THEN <<tree[file]>> ELSE << >>

\* Mutant: a merge is compared with its first parent only.
TouchesFirstParent(repo, sha, file) ==
  LET parents == repo.commits[sha].parents IN
  IF parents = << >> THEN BlobAt(repo, sha, file) # << >>
  ELSE BlobAt(repo, sha, file) # BlobAt(repo, parents[1], file)
\* commit_touches_file: the file differs from its version in one of the parents.
CommitTouchesFile(repo, sha, file) ==
  LET parents == repo.commits[sha].parents IN
  IF parents = << >> THEN BlobAt(repo, sha, file) # << >>
  ELSE \E k \in DOMAIN parents : BlobAt(repo, sha, file) # BlobAt(repo, parents[k], file)

GitLog(repo, args) ==
  LET r      == Arg(args, "ref", "HEAD")
      max    == Num(args, "max_count", 50)
      Kept(sha) == Given(args, "file") => CommitTouchesFile(repo, sha, args.file)
  IN  IF r \notin DOMAIN repo.refs \/ ~ValidateRef(r) THEN Err("unknown_ref")
      ELSE LET all == SelectSeq(repo.history[r], Kept) IN
           Ok(SubSeq(all, 1, IF Len(all) < max THEN Len(all) ELSE max))

-----------------------------------------------------------------------------
(* git_diff. *)

\* What git prints of a list of changed files.
Printed(files) ==
  FlattenSeq([k \in DOMAIN files |->
    LET f == files[k]
        hunks == FlattenSeq([h \in DOMAIN f.hunks |->
                   <<[word |-> "@@", text |-> f.hunks[h].header]>>
                   \o [l \in DOMAIN f.hunks[h].lines |->
                        [word |-> "line", text |-> f.hunks[h].lines[l]]]])
    IN  <<[word |-> "diff --git", text |-> <<<<"b">> \o f.path[1]>> \o Tail(f.path)]>>
        \o (CASE f.status = "added"   -> <<[word |-> "new file", text |-> << >>]>>
              [] f.status = "deleted" -> <<[word |-> "deleted file", text |-> << >>]>>
              [] OTHER                -> << >>)
        \o <<[word |-> "index", text |-> << >>]>> \o hunks])

\* The last word, without the `b/` it starts with, however often it does.
PathOf(words) ==
  LET w    == Last(words)
      keep == {i \in DOMAIN w : i = Len(w) \/ w[i] # "b"}
  IN  <<SubSeq(w, CHOOSE i \in keep : \A j \in keep : i <= j, Len(w))>>

Hunk0(header) == [header |-> header, lines |-> << >>]

\* parse_unified.  A file and a hunk under way are sequences of at most one.
Closed(acc) ==
  IF acc.file = << >> THEN acc
  ELSE [files |-> Append(acc.files, [acc.file[1] EXCEPT !.hunks = @ \o acc.hunk]),
        file |-> << >>, hunk |-> << >>]

NewFile(acc, line) ==
  [Closed(acc) EXCEPT !.file = <<[path |-> PathOf(line.text), status |-> "modified", hunks |-> << >>]>>]
Marked(acc, status) ==
  IF acc.file = << >> THEN acc ELSE [acc EXCEPT !.file[1].status = status]
NewHunk(acc, line) ==
  [acc EXCEPT !.file = IF @ = << >> THEN @ ELSE <<[@[1] EXCEPT !.hunks = @ \o acc.hunk]>>,
              !.hunk = <<Hunk0(line.text)>>]
HunkLine(acc, line) ==
  IF acc.hunk = << >> THEN acc ELSE [acc EXCEPT !.hunk[1].lines = Append(@, line.text)]

ParseUnified(text) ==
  LET Parse(acc, line) == CASE line.word = "diff --git"   -> NewFile(acc, line)
                            [] line.word = "new file"     -> Marked(acc, "added")
                            [] line.word = "deleted file" -> Marked(acc, "deleted")
                            [] line.word = "@@"           -> NewHunk(acc, line)
                            [] OTHER                      -> HunkLine(acc, line)
  IN  Closed(FoldLeft(Parse, [files |-> << >>, file |-> << >>, hunk |-> << >>], text)).files

\* The changes git finds: between the tips, or since their merge base.
Changes(repo, args) ==
  LET from == IF Field(args, "merge_base", FALSE)
              THEN repo.merge_base[<<args.from_ref, args.to_ref>>] ELSE args.from_ref
      all  == repo.changes[<<from, args.to_ref>>]
  IN  IF Field(args, "paths", {}) = {} THEN all
      ELSE SelectSeq(all, LAMBDA f : f.path[1] \in args.paths)

GitDiff(repo, args) ==
  IF {args.from_ref, args.to_ref} \subseteq DOMAIN repo.refs
     /\ ValidateRef(args.from_ref) /\ ValidateRef(args.to_ref)
  THEN Ok(ParseUnified(Printed(Changes(repo, args)))) ELSE Err("unknown_ref")

-----------------------------------------------------------------------------
(* git_blame. *)

\* -L start,end (git takes the two in either order), or the one line start; an end alone is
\* ignored.
Blamed(repo, args) ==
  LET n     == Len(repo.blame[args.file])
      start == Num(args, "start_line", 1)
      end   == IF IsNum(args, "start_line") THEN Num(args, "end_line", start) ELSE n
  IN  {i \in 1 .. n : (start <= i /\ i <= end) \/ (end <= i /\ i <= start)}

\* The porcelain format: a header for each line, with the commit's details where it first
\* appears; `long` holds the details of a commit, and `long_names` the files, whose line has 40
\* characters or more.  Those that the parser neither reads nor can take for a header are left out.
Details == <<"author", "author-mail", "author-time", "committer", "committer-mail", "summary",
             "filename">>
IsLong(repo, file, sha, detail) ==
  IF detail = "filename" THEN file \in repo.long_names ELSE detail \in repo.long[sha]
Porcelain(repo, file, from, to) ==
  FlattenSeq([k \in 1 .. AtLeast(to - from + 1, 0) |->
    LET sha == repo.blame[file][from + k - 1]
        new == \A j \in 1 .. k - 1 : repo.blame[file][from + j - 1] # sha
    IN  <<[word |-> sha, num |-> from + k - 1, long |-> TRUE, of |-> sha]>>
        \o (IF new THEN [d \in DOMAIN Details |->
                          [word |-> Details[d], num |-> 0, of |-> sha,
                           long |-> IsLong(repo, file, sha, Details[d])]]
                   ELSE << >>)
        \o <<[word |-> "content", num |-> 0, long |-> FALSE, of |-> sha]>>])

\* A header, to the parser: 40 characters or more, the first a hexadecimal digit.
HexFirst(repo, word) == word \in DOMAIN repo.commits \cup
  {"author", "author-mail", "author-time", "committer", "committer-mail", "filename"}
LooksLikeHeader(repo, line) == line.long /\ HexFirst(repo, line.word)

NoCommit == "none"
Blame0 == [out |-> << >>, sha |-> NoCommit, line |-> 0, author |-> NoCommit, date |-> NoCommit,
           summary |-> NoCommit, known |-> << >>, expect |-> FALSE]

Recalled(acc, sha) ==
  IF sha \in DOMAIN acc.known
  THEN [acc EXCEPT !.author = acc.known[sha].author, !.date = acc.known[sha].date,
                   !.summary = acc.known[sha].summary]
  ELSE acc

Learnt(acc, summary) ==
  LET d == [author |-> acc.author, date |-> acc.date, summary |-> summary] IN
  [acc EXCEPT !.summary = summary,
              !.known = [s \in DOMAIN @ \cup {acc.sha} |-> IF s = acc.sha THEN d ELSE @[s]]]

Row(acc) == [line |-> acc.line, sha |-> acc.sha, author |-> acc.author, date |-> acc.date,
             summary |-> acc.summary]

ParsePorcelain(repo, text) ==
  LET Parse(acc, line) ==
        CASE acc.expect /\ line.word = "content" ->
               [acc EXCEPT !.out = Append(@, Row(acc)), !.expect = FALSE]
          [] LooksLikeHeader(repo, line) ->
               [Recalled([acc EXCEPT !.sha = line.word, !.line = line.num], line.word)
                  EXCEPT !.expect = TRUE]
          [] line.word = "author"      -> [acc EXCEPT !.author = line.of]
          [] line.word = "author-time" -> [acc EXCEPT !.date = line.of]
          [] line.word = "summary"     -> Learnt(acc, line.of)
          [] OTHER -> acc
  IN  FoldLeft(Parse, Blame0, text).out

GitBlame(repo, args) ==
  IF Given(args, "ref") /\ ~ValidateRef(args.ref) THEN Err("unknown_ref")
  ELSE IF args.file \notin DOMAIN repo.blame \/ Blamed(repo, args) = {}
       THEN Err("not_in_workspace")
  ELSE LET lines == Blamed(repo, args)
           from  == CHOOSE i \in lines : \A j \in lines : i <= j
       IN  Ok(ParsePorcelain(repo, Porcelain(repo, args.file, from, from + Cardinality(lines) - 1)))

-----------------------------------------------------------------------------
(* git_show: two runs of git, the header and the changes. *)

GitShow(repo, args) ==
  IF args.sha \notin DOMAIN repo.commits \/ ~ValidateRef(args.sha) THEN Err("unknown_ref")
  ELSE Ok([message |-> args.sha, author |-> args.sha, date |-> args.sha,
           diff |-> LET all == repo.shown[args.sha] IN
                    IF Given(args, "file") THEN SelectSeq(all, LAMBDA f : f.path[1] = args.file)
                                           ELSE all])

-----------------------------------------------------------------------------
(* What the tools promise. *)

\* A path without a space whose first directory is not `b`, and lines of a blame none of which can
\* be taken for a header: what is beyond is printed by git and misread by the parsers.
PlainPath(path) == Len(path) = 1 /\ (Len(path[1]) = 1 \/ path[1][1] # "b")
PlainBlame(repo, file) ==
  \A sha \in ToSet(repo.blame[file]), d \in ToSet(Details) :
    ~(IsLong(repo, file, sha, d) /\ HexFirst(repo, d))

\* The parsed diff has every file git printed with its status, hunks and lines, in order, each
\* under the file it belongs to, and every path that is plain.
DiffIsWhole(repo, args, r) ==
  LET all == Changes(repo, args) IN
  r.ok =>
    /\ DOMAIN r.val = DOMAIN all
    /\ \A k \in DOMAIN all :
         /\ [r.val[k] EXCEPT !.path = all[k].path] = all[k]
         /\ PlainPath(all[k].path) => r.val[k].path = all[k].path

\* The newest commit listed for a file is the one that gave it the content it has at the ref,
\* over merges too.
LogStartsAtCurrent(repo, args, r) ==
  LET tip == repo.refs[Arg(args, "ref", "HEAD")] IN
  r.ok /\ r.val # << >> /\ Given(args, "file") =>
    BlobAt(repo, r.val[1], args.file) = BlobAt(repo, tip, args.file)

\* Every blamed line has its own number and the commit, author, date and summary that git names
\* for it (docs: specs/03-code-daemon.md:91).
BlameIsTrue(repo, args, r) ==
  r.ok =>
    /\ [k \in DOMAIN r.val |-> r.val[k].line] = SetToSortSeq(Blamed(repo, args), <)
    /\ \A k \in DOMAIN r.val :
         LET sha == repo.blame[args.file][r.val[k].line] IN
         r.val[k] = [line |-> r.val[k].line, sha |-> sha, author |-> sha, date |-> sha,
                     summary |-> sha]
=============================================================================

------------------------------ MODULE CodeReads ------------------------------
(***************************************************************************)
(* The code daemon's tools that read a repository, as functions of it:     *)
(* argument checks, files, search, and the parsers of what git prints      *)
(* (tools/fs_tools.rs, grep_tools.rs, git_tools.rs, lang_tools.rs, git/,   *)
(* search/grep.rs, util.rs).                                               *)
(*                                                                         *)
(* Abstractions.  A file is a sequence of lines, a line a value; a path is *)
(* the sequence of its components; the content a pattern matches is a set  *)
(* of lines.  What git and the directory walker find out (which commit a   *)
(* line is from, the order of a walk, a file's changes) is part of the     *)
(* repository; what the tools make of their output is modelled.  Files     *)
(* that cannot be opened are `unreadable`; a directory that cannot be is   *)
(* not in the walk.  Sizes, dates and the order of a listing are left out. *)
(***************************************************************************)
EXTENDS Integers, SequencesExt

CONSTANTS Blank,     \* an argument written as an empty string
          Malformed  \* a pattern or a glob that does not parse

Ok(v)     == [ok |-> TRUE, err |-> "none", val |-> v]
Err(code) == [ok |-> FALSE, err |-> code, val |-> << >>]

-----------------------------------------------------------------------------
(* Arguments. *)

\* optional_arg: a blank argument is an absent one.
Given(args, key) == key \in DOMAIN args /\ args[key] # Blank
Arg(args, key, default) == IF Given(args, key) THEN args[key] ELSE default

\* What is no string is read as it is; a schema lets any number through, and what is none of u64
\* (as_u64) is an absent one.
Field(args, key, default) == IF key \in DOMAIN args THEN args[key] ELSE default
IsNum(args, key) == key \in DOMAIN args /\ args[key] \in Nat
Num(args, key, default) == IF IsNum(args, key) THEN args[key] ELSE default

\* Input schemas; every tool but the registry's own also takes the repository.
Takes(required, optional) == [required |-> required, known |-> required \cup optional]
ReadFileArgs  == Takes({"file"}, {"ref", "start_line", "end_line"})
ListDirArgs   == Takes({"dir"}, {"ref"})
StatFileArgs  == Takes({"file"}, {"ref"})
GrepArgs      == Takes({"pattern"}, {"ref", "paths", "glob", "fixed_string", "max_matches"})
GitLogArgs    == Takes({}, {"file", "ref", "max_count"})
GitBlameArgs  == Takes({"file"}, {"ref", "start_line", "end_line"})
GitShowArgs   == Takes({"sha"}, {"file"})
GitDiffArgs   == Takes({"from_ref", "to_ref"}, {"paths", "merge_base"})
LanguagesArgs == Takes({}, {})

\* validate_against: what is required is there, and what the schema knows has its type.
ValidateAgainst(schema, args, illTyped) ==
  schema.required \subseteq DOMAIN args /\ illTyped \cap schema.known = {}

\* validate_ref: not empty, no leading dash, no space.
ValidateRef(r) == r \notin {"", "-x", "a b"}

-----------------------------------------------------------------------------
(* Paths. *)

Root == <<"repo">>

NormalizeNoFollow(p) ==
  LET Push(out, c) == CASE c = ".." -> IF out = << >> THEN out ELSE Front(out)
                        [] c = "."  -> out
                        [] OTHER    -> Append(out, c)
  IN  FoldLeft(Push, << >>, p)

\* safe_join: below the root once `..` is resolved, and still once links are followed.
SafeJoin(repo, file) ==
  LET lexical == NormalizeNoFollow(Root \o file)
      real    == IF lexical \in DOMAIN repo.links THEN repo.links[lexical] ELSE lexical
  IN  IF /\ file = << >> \/ file[1] # "/"
         /\ IsPrefix(Root, lexical) /\ IsPrefix(Root, real)
      THEN Ok(Tail(real))
      ELSE Err("not_in_workspace")

IsDir(tree, path) == \E p \in DOMAIN tree : IsStrictPrefix(path, p)

-----------------------------------------------------------------------------
(* Files: read_file, list_dir, stat_file. *)

\* A tree read as if it were a blob: its raw bytes.
TreeObject == <<"tree object">>

ReadBlobAtRef(repo, r, file) ==
  IF r \notin DOMAIN repo.refs THEN Err("unknown_ref")
  ELSE LET tree == repo.commits[repo.refs[r]].tree IN
       CASE file \in DOMAIN tree -> Ok(tree[file])
         [] IsDir(tree, file)    -> Ok(TreeObject)
         [] OTHER                -> Err("not_in_workspace")

ReadWorkingTree(repo, file) ==
  LET p == SafeJoin(repo, file) IN
  IF p.ok /\ p.val \in DOMAIN repo.work \ repo.unreadable
  THEN Ok(repo.work[p.val]) ELSE Err("not_in_workspace")

Bytes(repo, args) ==
  IF Given(args, "ref") THEN ReadBlobAtRef(repo, args.ref, args.file)
                        ELSE ReadWorkingTree(repo, args.file)

AtLeast(a, b) == IF a > b THEN a ELSE b

\* Lines start to last with their 1-based numbers.
Numbered(lines, start, last) ==
  [i \in 1 .. AtLeast(last - start + 1, 0) |-> <<start + i - 1, lines[start + i - 1]>>]

ReadFile(repo, args) ==
  LET bytes == Bytes(repo, args)
      total == Len(bytes.val)
      start == AtLeast(Num(args, "start_line", 1), 1)
      end   == AtLeast(Num(args, "end_line", total), Num(args, "start_line", 1))
      last  == IF end < total THEN end ELSE total
  IN  IF bytes.ok
      THEN Ok([content |-> Numbered(bytes.val, start, last), total_lines |-> total])
      ELSE bytes

Listing(tree, dir) ==
  {[name |-> p[Len(dir) + 1], kind |-> IF Len(p) = Len(dir) + 1 THEN "file" ELSE "dir"] :
     p \in {q \in DOMAIN tree : IsStrictPrefix(dir, q)}}

\* At a ref slashes around the path are dropped and `.` alone is the root.
ListDirAtRef(repo, r, dir) ==
  LET path == IF dir = <<".">> THEN << >> ELSE SelectSeq(dir, LAMBDA c : c # "/") IN
  IF r \notin DOMAIN repo.refs THEN Err("unknown_ref")
  ELSE LET tree == repo.commits[repo.refs[r]].tree IN
       CASE path = << >> \/ IsDir(tree, path) -> Ok(Listing(tree, path))
         [] path \in DOMAIN tree              -> Err("internal")
         [] OTHER                             -> Err("not_in_workspace")

ListDirWorkingTree(repo, dir) ==
  LET p == IF dir \in {<<".">>, << >>} THEN Ok(<< >>) ELSE SafeJoin(repo, dir) IN
  IF p.ok /\ (p.val = << >> \/ IsDir(repo.work, p.val))
  THEN Ok(Listing(repo.work, p.val)) ELSE Err("not_in_workspace")

ListDir(repo, args) ==
  IF Given(args, "ref") THEN ListDirAtRef(repo, args.ref, args.dir)
                        ELSE ListDirWorkingTree(repo, args.dir)

LanguageOfFile(repo, file) ==
  IF file \in DOMAIN repo.language THEN repo.language[file] ELSE "Unknown"

\* In the working tree whatever exists has a size, a directory and an unreadable file too.
StatFile(repo, args) ==
  LET bytes == Bytes(repo, args)
      p     == SafeJoin(repo, args.file)
      Of(size) == Ok([size |-> size, language |-> LanguageOfFile(repo, args.file)])
  IN  IF Given(args, "ref") THEN IF bytes.ok THEN Of(Len(bytes.val)) ELSE bytes
      ELSE CASE ~p.ok                               -> p
             [] p.ok /\ p.val \in DOMAIN repo.work  -> Of(Len(repo.work[p.val]))
             [] p.ok /\ IsDir(repo.work, p.val)     -> Of(0)
             [] OTHER                               -> Err("internal")

\* The files counted are those the walker shows, of a known language; of one that cannot be
\* read the lines are not.
DetectLanguages(repo, args) ==
  LET seen == {f \in ToSet(repo.walk) : LanguageOfFile(repo, f) # "Unknown"}
      Of(l) == {f \in seen : repo.language[f] = l}
  IN  Ok({[language |-> l, file_count |-> Cardinality(Of(l)),
           line_count |-> MapThenSumSet(LAMBDA f : Len(repo.work[f]), Of(l) \ repo.unreadable)] :
            l \in {repo.language[f] : f \in seen}})

-----------------------------------------------------------------------------
(* search/grep.rs: the files of the walk in turn, up to a cap. *)

\* A fixed string is escaped, so it always parses; one with a bracket in it matches no line here.
Unparsable(args) ==
  \/ args.pattern = Malformed /\ ~Field(args, "fixed_string", FALSE)
  \/ Given(args, "glob") /\ args.glob = Malformed
Matched(args) == IF args.pattern = Malformed THEN {} ELSE args.pattern

\* The lines of a file that match, in order.
Hits(repo, args, file) ==
  LET lines == repo.work[file]
  IN  FlattenSeq([i \in DOMAIN lines |->
        IF lines[i] \in Matched(args) THEN <<[file |-> file, line |-> i]>> ELSE << >>])

\* `paths` keeps what is below one of them, `glob` the names it matches.
Searched(args, file) ==
  /\ "paths" \in DOMAIN args => \E p \in args.paths : IsPrefix(p, file)
  /\ Given(args, "glob") => file \in args.glob
\* A file that cannot be opened is passed over, and the answer does not say so.
Matching(repo, args, file) ==
  IF Searched(args, file) /\ file \notin repo.unreadable THEN Hits(repo, args, file) ELSE << >>

\* LineSink::matched: stops at the match that fills the cap.
\* Mutant: the cap counts the matches of each file.
TakenPerFile(found, hits, max) == SubSeq(hits, 1, IF Len(hits) < max THEN Len(hits) ELSE max)
Taken(found, hits, max) ==
  LET room == max - Len(found) IN SubSeq(hits, 1, IF Len(hits) < room THEN Len(hits) ELSE room)

MaxMatches(repo, args) == Num(args, "max_matches", repo.default_max_matches)

\* search: one file of the walk, unless the cap was reached before it.
Visit(repo, args, acc, file) ==
  LET max   == MaxMatches(repo, args)
      found == acc.matches \o Taken(acc.matches, Matching(repo, args, file), max)
  IN  IF acc.truncated THEN acc ELSE [matches |-> found, truncated |-> Len(found) >= max]

\* The walk also shows the root, which is no file: a cap of 0 is truncated at once.
Grep(repo, args) ==
  LET found[k \in 0 .. Len(repo.walk)] ==
        IF k = 0 THEN [matches |-> << >>, truncated |-> MaxMatches(repo, args) = 0]
                 ELSE Visit(repo, args, found[k - 1], repo.walk[k])
  IN  IF Unparsable(args) THEN Err("validation_failed") ELSE Ok(found[Len(repo.walk)])

-----------------------------------------------------------------------------
(* What the tools promise. *)

\* Every line of a slice carries the number it has in the file, and none is missing: the model
\* quotes lines by these numbers (fs_tools.rs:60-61).
ReadFileExact(repo, args, r) ==
  LET bytes == Bytes(repo, args).val
      from == Num(args, "start_line", 1)  to == Num(args, "end_line", Len(bytes)) IN
  r.ok =>
    /\ \A k \in DOMAIN r.val.content :
         /\ bytes[r.val.content[k][1]] = r.val.content[k][2]
         /\ k > 1 => r.val.content[k][1] = r.val.content[k - 1][1] + 1
    /\ \A n \in DOMAIN bytes : from <= n /\ n <= to => <<n, bytes[n]>> \in ToSet(r.val.content)

\* The matches are the first ones of the files of the walk that can be read, never more than the
\* cap, and an answer that is not marked as truncated has them all: an agent concludes that there
\* is no other use.  (What an unreadable file holds it concludes wrongly.)
GrepIsPrefix(repo, args, r) ==
  LET all == FlattenSeq([k \in DOMAIN repo.walk |-> Matching(repo, args, repo.walk[k])])
  IN  r.ok =>
      /\ IsPrefix(r.val.matches, all)
      /\ Len(r.val.matches) <= MaxMatches(repo, args)
      /\ ~r.val.truncated => r.val.matches = all
=============================================================================

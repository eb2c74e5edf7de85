------------------------------ MODULE CodeServer ------------------------------
(***************************************************************************)
(* The code daemon's MCP server on one connection (mcp/server.rs) with the *)
(* tools behind it: a reader that spawns a task for each request line, a   *)
(* semaphore the tasks acquire, a bounded channel to the one writer; and   *)
(* the registry of repositories that discover, scan and clone share        *)
(* (repo/registry.rs, tools/repo_tools.rs).                                *)
(*                                                                         *)
(* Abstractions.  Requests are told apart by their place in the history.   *)
(* A read tool is one step that answers with its result on a repository    *)
(* that does not change; the tools of the worktrees are in                 *)
(* WorktreeManager, the stubs answer one error.  A clone is two steps with *)
(* git at work in between.                                                 *)
(***************************************************************************)
EXTENDS GitReads, ReadAnswers

CONSTANTS
  Histories,     \* the lines a client may send: sequences of [form, ...]
  Checkouts,     \* the checkouts below the scanned roots: path -> its remotes, in order
  Permits,       \* MAX_CONCURRENT_REQUESTS
  ChannelSize,   \* answers queued for the writer
  MaxFaults      \* read errors and broken pipes in a history

ASSUME CodeServerAssumption ==
  Permits \in Nat \ {0} /\ ChannelSize \in Nat \ {0} /\ MaxFaults \in Nat

\* What a client sends is a sequence of lines.
ASSUME HistoriesAssumption == \A h \in Histories : h \in Seq({h[i] : i \in DOMAIN h})

VARIABLES
  next,        \* the place of the next line to read
  reader,      \* "reading", "answering" inline, "draining" after EOF, or "gone"
  inline,      \* the answer the reader is queueing
  task,        \* each request: "none", "waiting" for a permit, "running", "scanning",
               \* "cloning" (git is started), "fetching" (git has made the directory),
               \* "sending", "done", or "aborted"
  left,        \* the checkouts a scan has still to register
  reply,       \* the answer each task has to send
  channel,     \* answers queued for the writer
  writer,      \* "up", or "gone"
  repos,       \* the registry: repo -> [path, remotes]
  dest,        \* the managed cache: repo -> "absent", "partial" or "whole"
  faults

vars == <<input, next, reader, inline, task, left, reply, channel, writer, sent, repos, dest, faults>>
connVars == <<reader, inline, channel, writer, sent, faults>>
repoVars == <<repos, dest, left>>

-----------------------------------------------------------------------------
(* The registry.  A remote is [host, path, form]; forms of one remote are  *)
(* one key.                                                                *)

RepoKeys == {"owner/repo", "owner/fork"}
NoAnswer == [to |-> 0, code |-> "none", res |-> Ok(0)]

\* canonicalize_remote_url: a form it does not know is no remote.
Canonical(remote) == IF remote.form \in {"scp", "ssh", "https"} THEN {remote.repo} ELSE {}
Canonicals(remotes) == UNION {Canonical(m) : m \in remotes}

RegistryInit ==
  repos = << >> /\ dest = [k \in RepoKeys |-> "absent"] /\ left = [i \in DOMAIN input |-> {}]

\* Mutant: the remotes a repository had are dropped with its path.
UpsertReplaces(key, path, remotes) ==
  [k \in DOMAIN repos \cup {key} |->
     IF k = key THEN [path |-> path, remotes |-> Canonicals(remotes)] ELSE repos[k]]
\* upsert_repo: the path is replaced, remotes are only added.
UpsertRepo(key, path, remotes) ==
  [k \in DOMAIN repos \cup {key} |->
     IF k = key
     THEN [path |-> path,
           remotes |-> Canonicals(remotes) \cup IF key \in DOMAIN repos THEN repos[key].remotes ELSE {}]
     ELSE repos[k]]

\* find_by_remote: any one of the repositories that list the remote.
FindByRemote(remote) == {k \in DOMAIN repos : Canonical(remote) \subseteq repos[k].remotes}

\* What `git remote` may say in a checkout of the cache: git writes the remote while it clones.
RemotesOf(key) ==
  LET origin == {[repo |-> key, form |-> "https"]} IN
  IF dest[key] = "whole" THEN {origin} ELSE {origin, {}}

-----------------------------------------------------------------------------
(* The tools. *)

ReadTools == [read_file |-> ReadFileArgs, list_dir |-> ListDirArgs, stat_file |-> StatFileArgs,
              grep |-> GrepArgs, git_log |-> GitLogArgs, git_blame |-> GitBlameArgs,
              git_show |-> GitShowArgs, git_diff |-> GitDiffArgs, detect_languages |-> LanguagesArgs]
Stubs == [ast_search      |-> Takes({"language", "pattern"}, {"ref", "paths"}),
          list_symbols    |-> Takes({"file"}, {"ref"}),
          find_definition |-> Takes({"file", "line", "column"}, {"ref"}),
          find_references |-> Takes({"file", "line", "column"}, {"ref"})]
RepoTools == [discover_repo |-> Takes({"remote_url"}, {}), scan_for_repos |-> Takes({}, {"roots"}),
              clone_repo |-> Takes({"remote_url"}, {"target_dir"})]
Schemas == ReadTools @@ Stubs @@ RepoTools

ReadTool(tool, args) ==
  CASE tool = "read_file"        -> ReadFile(Repo, args)
    [] tool = "list_dir"         -> ListDir(Repo, args)
    [] tool = "stat_file"        -> StatFile(Repo, args)
    [] tool = "grep"             -> Grep(Repo, args)
    [] tool = "git_log"          -> GitLog(Repo, args)
    [] tool = "git_blame"        -> GitBlame(Repo, args)
    [] tool = "git_show"         -> GitShow(Repo, args)
    [] tool = "git_diff"         -> GitDiff(Repo, args)
    [] tool = "detect_languages" -> DetectLanguages(Repo, args)
    [] OTHER                     -> Err("unsupported_language")

\* The answers to the calls of the histories, each worked out once.
ReadCalls == {c \in UNION {ToSet(h) : h \in Histories} :
                c.form = "request" /\ c.tool \in DOMAIN ReadTools \cup DOMAIN Stubs
                  /\ ValidateAgainst(Schemas[c.tool], c.args, c.illTyped)}
ReadAnswer == [c \in ReadCalls |-> ReadTool(c.tool, c.args)]

-----------------------------------------------------------------------------
(* Requests. *)

Reply(i, code, res) == [to |-> i, code |-> code, res |-> res]
ToolReply(i, res)   == Reply(i, IF res.ok THEN "ok" ELSE "isError", res)

\* The methods that are answered without a tool.
PlainReply(i) ==
  CASE Method(i) \in {"initialize", "initialized", "tools/list", "prompts/list",
                      "resources/list", "ping"} -> Reply(i, "ok", Ok(0))
    [] Method(i) = "tools/call"                 -> Reply(i, "missing name", Err("-32602"))
    [] OTHER                                    -> Reply(i, "unknown method", Err("-32601"))

\* handle_request: a request without an id is not answered, whatever it did.
Answered(i, answer) ==
  /\ task'  = [task EXCEPT ![i] = IF WantsReply(i) THEN "sending" ELSE "done"]
  /\ reply' = [reply EXCEPT ![i] = IF WantsReply(i) THEN answer ELSE NoAnswer]

-----------------------------------------------------------------------------
(* serve_lines: the reader. *)

Init ==
  /\ input \in Histories
  /\ next = 1
  /\ reader = "reading" /\ inline = NoAnswer
  /\ task = [i \in DOMAIN input |-> "none"]
  /\ reply = [i \in DOMAIN input |-> NoAnswer]
  /\ channel = << >> /\ writer = "up" /\ sent = << >>
  /\ RegistryInit
  /\ faults = 0

Reads(form) == reader = "reading" /\ next <= Len(input) /\ input[next].form = form /\ next' = next + 1

ReadBlank ==
  /\ Reads("blank")
  /\ UNCHANGED <<input, task, reply, connVars, repoVars>>

\* An answer with a null id, queued before the next line is read.
ReadGarbage ==
  /\ Reads("garbage")
  /\ reader' = "answering"
  /\ inline' = Reply(next, "parse error", Err("-32700"))
  /\ UNCHANGED <<input, task, reply, channel, writer, sent, faults, repoVars>>

\* Mutant: the handshake is spawned like any other request.
ReadInitializeSpawned ==
  /\ Reads("request") /\ Method(next) = "initialize"
  /\ task' = [task EXCEPT ![next] = "waiting"]
  /\ UNCHANGED <<input, reply, connVars, repoVars>>
\* Answered inline, so that nothing read later is answered before it.
ReadInitialize ==
  /\ Reads("request") /\ Method(next) = "initialize"
  /\ task' = [task EXCEPT ![next] = "done"]
  /\ IF WantsReply(next) THEN reader' = "answering" /\ inline' = PlainReply(next)
                         ELSE UNCHANGED <<reader, inline>>
  /\ UNCHANGED <<input, reply, channel, writer, sent, faults, repoVars>>

ReadRequest ==
  /\ Reads("request") /\ Method(next) # "initialize"
  /\ task' = [task EXCEPT ![next] = "waiting"]
  /\ UNCHANGED <<input, reply, connVars, repoVars>>

\* A send waits for room; it fails, and is ignored, once the writer is gone.
Queue(answer) ==
  \/ writer = "up" /\ Len(channel) < ChannelSize /\ channel' = Append(channel, answer)
  \/ writer = "gone" /\ UNCHANGED channel

AnswerInline ==
  /\ reader = "answering"
  /\ Queue(inline)
  /\ reader' = "reading" /\ inline' = NoAnswer
  /\ UNCHANGED <<input, next, task, reply, writer, sent, faults, repoVars>>

Eof ==
  /\ reader = "reading" /\ next > Len(input)
  /\ reader' = "draining"
  /\ UNCHANGED <<input, next, task, reply, inline, channel, writer, sent, faults, repoVars>>

Quiet == \A i \in DOMAIN input : task[i] \in {"none", "done", "aborted"}

\* Every task has ended: the last sender is dropped.
\* Mutant: in-flight requests are not waited for.
DrainedAtOnce ==
  /\ reader = "draining"
  /\ reader' = "gone"
  /\ task' = [i \in DOMAIN input |-> IF task[i] \in {"none", "done"} THEN task[i] ELSE "aborted"]
  /\ UNCHANGED <<input, next, reply, inline, channel, writer, sent, faults, repoVars>>
Drained ==
  /\ reader = "draining" /\ Quiet
  /\ reader' = "gone"
  /\ UNCHANGED <<input, next, task, reply, inline, channel, writer, sent, faults, repoVars>>

\* A read error, or a line that is not UTF-8: the tasks are dropped where they stand (the git
\* of a clone goes on, but nothing after it in a history looks at what it leaves).
ReadFails ==
  /\ reader = "reading" /\ faults < MaxFaults
  /\ faults' = faults + 1
  /\ reader' = "gone"
  /\ task' = [i \in DOMAIN input |-> IF task[i] \in {"none", "done"} THEN task[i] ELSE "aborted"]
  /\ UNCHANGED <<input, next, reply, inline, channel, writer, sent, repoVars>>

-----------------------------------------------------------------------------
(* The tasks. *)

Holding == {i \in DOMAIN input : task[i] \notin {"none", "waiting", "done", "aborted"}}

Acquire(i) ==
  /\ task[i] = "waiting"
  /\ Cardinality(Holding) < Permits
  /\ task' = [task EXCEPT ![i] = "running"]
  /\ UNCHANGED <<input, next, reply, connVars, repoVars>>

Running(i, tool) == task[i] = "running" /\ IsTool(i, tool)
Rejected(i) ==
  ~ /\ input[i].tool \in DOMAIN Schemas
    /\ ValidateAgainst(Schemas[input[i].tool], input[i].args, input[i].illTyped)

HandlePlain(i) ==
  /\ task[i] = "running" /\ (Method(i) # "tools/call" \/ input[i].tool = "none")
  /\ Answered(i, PlainReply(i))
  /\ UNCHANGED <<input, next, connVars, repoVars>>

\* ToolRegistry::call: an unknown tool, or arguments its schema refuses.
CallRejected(i) ==
  /\ task[i] = "running" /\ Method(i) = "tools/call" /\ input[i].tool # "none"
  /\ Rejected(i)
  /\ Answered(i, ToolReply(i, Err("validation_failed")))
  /\ UNCHANGED <<input, next, connVars, repoVars>>

CallRead(i) ==
  /\ Running(i, input[i].tool) /\ input[i].tool \in DOMAIN ReadTools \cup DOMAIN Stubs
  /\ ~Rejected(i)
  /\ Answered(i, ToolReply(i, ReadAnswer[input[i]]))
  /\ UNCHANGED <<input, next, connVars, repoVars>>

CallDiscover(i) ==
  /\ Running(i, "discover_repo") /\ ~Rejected(i)
  /\ LET url == input[i].args.remote_url  found == FindByRemote(url) IN
     CASE Canonical(url) = {} -> Answered(i, ToolReply(i, Err("validation_failed")))
       [] Canonical(url) # {} /\ found = {} -> Answered(i, ToolReply(i, Err("unknown_repo")))
       [] OTHER -> \E k \in found : Answered(i, ToolReply(i, Ok([repo |-> k, path |-> repos[k].path])))
  /\ UNCHANGED <<input, next, connVars, repoVars>>

\* scan_root: a checkout's id is its first remote that is one, or its directory's name.
ScanOf(path) ==
  LET known == SelectSeq(Checkouts[path], LAMBDA m : Canonical(m) # {}) IN
  IF known = << >> THEN path ELSE Head(known).repo
CallScan(i) ==
  /\ Running(i, "scan_for_repos") /\ ~Rejected(i)
  /\ task' = [task EXCEPT ![i] = "scanning"]
  /\ left' = [left EXCEPT ![i] = DOMAIN Checkouts]
  /\ UNCHANGED <<input, next, reply, connVars, repos, dest>>
\* The walk comes to a checkout, in an order of its own.
ScanRegisters(i) ==
  /\ task[i] = "scanning"
  /\ \E path \in left[i] :
       /\ repos' = UpsertRepo(ScanOf(path), path, ToSet(Checkouts[path]))
       /\ left' = [left EXCEPT ![i] = @ \ {path}]
  /\ UNCHANGED <<input, next, task, reply, connVars, dest>>
ScanEnds(i) ==
  /\ task[i] = "scanning" /\ left[i] = {}
  /\ Answered(i, ToolReply(i, Ok({[repo |-> ScanOf(path), path |-> path] : path \in DOMAIN Checkouts})))
  /\ UNCHANGED <<input, next, connVars, repoVars>>

CloneKey(i) == CHOOSE k \in Canonical(input[i].args.remote_url) : TRUE

Cloning(i) == Running(i, "clone_repo") /\ ~Rejected(i) /\ Canonical(input[i].args.remote_url) # {}

\* The destination exists: registered as it stands, whoever is still writing it.
ClonePresent(i) ==
  /\ Cloning(i) /\ dest[CloneKey(i)] # "absent"
  /\ \E remotes \in RemotesOf(CloneKey(i)) : repos' = UpsertRepo(CloneKey(i), "cache", remotes)
  /\ Answered(i, ToolReply(i, Ok([repo |-> CloneKey(i), path |-> "cache"])))
  /\ UNCHANGED <<input, next, connVars, dest, left>>

CloneBegins(i) ==
  /\ Cloning(i) /\ dest[CloneKey(i)] = "absent"
  /\ task' = [task EXCEPT ![i] = "cloning"]
  /\ UNCHANGED <<input, next, reply, connVars, repoVars>>

\* git makes the directory, or refuses one that another clone has made meanwhile.
GitStarts(i) ==
  /\ task[i] = "cloning" /\ dest[CloneKey(i)] = "absent"
  /\ dest' = [dest EXCEPT ![CloneKey(i)] = "partial"]
  /\ task' = [task EXCEPT ![i] = "fetching"]
  /\ UNCHANGED <<input, next, reply, connVars, repos, left>>
CloneRefused(i) ==
  /\ task[i] = "cloning" /\ dest[CloneKey(i)] # "absent"
  /\ Answered(i, ToolReply(i, Err("unknown_ref")))
  /\ UNCHANGED <<input, next, connVars, repoVars>>

\* git has cloned, and the repository is registered with its remotes.
CloneEnds(i) ==
  /\ task[i] = "fetching"
  /\ dest' = [dest EXCEPT ![CloneKey(i)] = "whole"]
  /\ repos' = UpsertRepo(CloneKey(i), "cache", {input[i].args.remote_url})
  /\ Answered(i, ToolReply(i, Ok([repo |-> CloneKey(i), path |-> "cache"])))
  /\ UNCHANGED <<input, next, connVars, left>>

\* git fails, and removes what it had written.
CloneFails(i) ==
  /\ task[i] = "fetching" /\ faults < MaxFaults
  /\ faults' = faults + 1
  /\ dest' = [dest EXCEPT ![CloneKey(i)] = "absent"]
  /\ Answered(i, ToolReply(i, Err("unknown_ref")))
  /\ UNCHANGED <<input, next, reader, inline, channel, writer, sent, repos, left>>

CloneUnparseable(i) ==
  /\ Running(i, "clone_repo") /\ ~Rejected(i) /\ Canonical(input[i].args.remote_url) = {}
  /\ Answered(i, ToolReply(i, Err("validation_failed")))
  /\ UNCHANGED <<input, next, connVars, repoVars>>

\* The permit goes back when the task ends, after its answer was queued.
SendAnswer(i) ==
  /\ task[i] = "sending"
  /\ Queue(reply[i])
  /\ task' = [task EXCEPT ![i] = "done"]
  /\ reply' = [reply EXCEPT ![i] = NoAnswer]
  /\ UNCHANGED <<input, next, reader, inline, writer, sent, faults, repoVars>>

Task(i) ==
  \/ HandlePlain(i) \/ CallRejected(i) \/ CallRead(i) \/ CallDiscover(i)
  \/ CallScan(i) \/ ScanRegisters(i) \/ ScanEnds(i)
  \/ ClonePresent(i) \/ CloneBegins(i) \/ GitStarts(i) \/ CloneRefused(i) \/ CloneEnds(i)
  \/ CloneUnparseable(i) \/ SendAnswer(i)

-----------------------------------------------------------------------------
(* The writer. *)

Write ==
  /\ writer = "up" /\ channel # << >>
  /\ sent' = Append(sent, Head(channel))
  /\ channel' = Tail(channel)
  /\ UNCHANGED <<input, next, reader, inline, task, reply, writer, faults, repoVars>>

\* The pipe is broken: the receiver goes, and with it what was queued.
WriteFails ==
  /\ writer = "up" /\ channel # << >> /\ faults < MaxFaults
  /\ faults' = faults + 1
  /\ writer' = "gone"
  /\ channel' = << >>
  /\ UNCHANGED <<input, next, reader, inline, task, reply, sent, repoVars>>

Reader == ReadBlank \/ ReadGarbage \/ ReadInitialize \/ ReadRequest \/ AnswerInline \/ Eof \/ Drained

\* The runtime polls a task that can go on while there is one, and git ends.
Step == Reader \/ Write \/ \E i \in DOMAIN input : Acquire(i) \/ Task(i)

Next ==
  \/ Step \/ ReadFails \/ WriteFails \/ \E i \in DOMAIN input : CloneFails(i)

Spec == Init /\ [][Next]_vars /\ WF_vars(Step)

-----------------------------------------------------------------------------
Lines == UNION {DOMAIN h : h \in Histories}
\* While the connection holds, every request read is answered, also those under way when the
\* client closes its end (server.rs:136; docs: specs/03-code-daemon.md:398).
RequestsAnswered ==
  \A i \in Lines :
    (i \in DOMAIN input /\ WantsReply(i)) ~> (i \in Places \/ faults > 0)

\* What the git tools answered is what git knows: over merges, over cached commit details and
\* over the boundaries of files and hunks.  It is claimed of a blame when none of its lines can be
\* taken for a commit, as an `author-mail` of 40 characters is (blame.rs:76), and of the path of a
\* changed file when it has no space and no leading directory `b`, which the parser loses
\* (diff.rs:76-80); its status, hunks and lines are right whatever the path.
GitIsTrue ==
  /\ \A k \in Answers("git_blame") :
       PlainBlame(Repo, Args(k).file) => BlameIsTrue(Repo, Args(k), sent[k].res)
  /\ \A k \in Answers("git_log") : LogStartsAtCurrent(Repo, Args(k), sent[k].res)
  /\ \A k \in Answers("git_diff") : DiffIsWhole(Repo, Args(k), sent[k].res)

\* What a scan was answered can be discovered by each of its remotes from then on, whatever clones
\* and scans beside it and after it write of the same repositories (registry.rs:118-143,
\* repo_tools.rs:134; docs: specs/03-code-daemon.md:24).
ScannedIsFound ==
  \A k \in Answers("scan_for_repos") : \A found \in sent[k].res.val :
    \A remote \in ToSet(Checkouts[found.path]) :
      Canonical(remote) # {} => FindByRemote(remote) # {}
=============================================================================

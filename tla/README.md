# libre-cr in TLA+

Models, model checks and proofs of libre-cr, a local code-review assistant: a
browser extension that adds a question panel to a GitHub pull request, a
*review daemon* that answers questions with a language model, and a *code
daemon* that gives the model read access to the repositories on disk. Paths
below are relative to `src/`; `review/` stands for
`src/crates/libre-cr-review/src/`, `code/` for `src/crates/libre-cr-code/src/`,
`cli/` for `src/crates/libre-cr-cli/src/`, `ext/` for `src/extension/`.

## 1. The system

### Parts, their state, and what they do

| part | state | operations |
|---|---|---|
| **ask handler** `review/server/ws.rs` | `busy_sessions` (one slot per session), the socket's writer mutex, the text streamed so far | upgrade, first frame, `select!` of agent against reader task, cancelled row, error and close frames |
| **agent loop** `review/agent/loop_.rs` | round, text of the round, answer, traces, token counts, last tool calls | stream, run the tools of a round side by side, force an answer, persist, `done` |
| **store** `review/storage/*` | SQLite: sessions, turns, tool calls, notes, full-text index; one tokio mutex over one connection | insert a turn under the next ordinal, notes, search, delete (cascade) |
| **code-daemon client** `review/code_daemon/*` | bounded channel, map id -> reply, restart budget, health | send with a deadline, route answers by id, restart the child |
| **presentation dispatcher and router** `review/tools/*` | pending presentation calls | register, send, deliver, time out, cancel; turn an outcome into a value and a trace |
| **session preparation** `review/worktree.rs` | status board (memory), `worktree`, `worktree_sha` (store) | detached prepare task per session, freshness |
| **HTTP routes, configuration** `review/server/{routes,state}.rs`, `review/config.rs` | sessions, notes, config in memory, `review.toml`, running provider | CRUD, patch, check, save and swap; list and check a provider's models |
| **configuration page** the script in `review/server/routes.rs` | a form, the ceiling of the picked model, a polling timer | load, switch provider, fetch models, derive caps, save, sign in |
| **model providers** `review/provider/{anthropic,openai_compat,chatgpt,mock}.rs` | per reply: buffered arguments, usage, whether `Done` was sent | build a request body; turn a service's events into text, calls, usage and an end |
| **ChatGPT tokens** `review/provider/chatgpt{,_auth}.rs` | one token file, one mutex per provider instance | refresh with rotation, sign out, OAuth callback |
| **pairing** `review/pairing.rs`, `review/server/auth.rs` | short-lived codes, a window of failures | issue, redeem, reject |
| **code daemon server** `code/mcp`, `code/tools/repo_tools.rs`, `code/repo/registry.rs` | a connection's tasks, permits, channel; the registry of clones | read, dispatch, answer; discover, scan, clone |
| **code daemon worktrees** `code/repo/worktree.rs` | checkouts, flight locks, LRU list | prepare, evict, remove |
| **code daemon reads** `code/tools`, `code/git`, `code/search` | none | files, search, log, diff, blame, show |
| **supervisor, start, stop** `cli/*` | child process, restart tracker, `supervisor.pid`, `review.pid`, `endpoint` | spawn, back off, terminate, find what an earlier run left |
| **extension** `ext/utils/daemon/*`, `ext/utils/presentation/*`, `ext/components/*` | question panel, one `AskSession`, presentation manager (steps, effects, mute) | ask, receive calls, paint, replay, mute, unmount |

### How they interact

The extension reaches the review daemon over HTTP and one WebSocket per
question, both relayed by the extension's background worker. The review daemon
is one tokio process. Its ask handler, agent future and reader task share two
FIFO mutexes (socket writer, store). Tools of the agent go three ways: internal
store reads, MCP requests to the code daemon through a single actor and a
stdio pipe, and presentation calls back through the WebSocket to the page.
Session preparation is a detached task which talks to the code daemon and
writes the store and the status board.

### What is hard

* **Cancellation.** Two `select!`s drop or abandon a future in the middle: the
  ask handler's (the agent is pinned outside the `select!`, so that it is
  abandoned, not dropped) and the client actor's (a half-read line is dropped).
* **Interleaving at awaits.** Every lock, send and receive is a point where
  another task runs; tokio's mutexes hand the lock to the next waiter whether
  or not anybody polls it.
* **Loss and lateness.** Sockets that stall or end, a child that dies, answers
  after their deadline, page handlers that wait four seconds for a file.
* **Several copies of one truth.** Mirrored text and stored answer; traces and
  what the page painted; board, `worktree_sha` and the checkout itself; config
  file and running provider; token file and provider instances.
* **Bounds.** Round limit, channel capacity, restart budget, deadlines, clip
  budget, LRU size.

`PROJECT.json` lists each hazard at its line, with the properties that cover it
or the reason none does yet.

### What makes each part correct

* ask: one handler per session and the slot always given back; every turn
  leaves a row, at most one unless a committed answer was also cut off; `done`
  only after the commit; a row never shows less than the client saw; a
  connected client gets an end.
* code-daemon client: at-most-once calls, own answers only, no waiting caller
  forgotten, an outcome for every call.
* presentation: the model is told what happened; the record of an answer holds
  what it placed; a page that is silent holds nobody.
* preparation: one prepare of a ref at a time; a checkout never goes back, and is never
  behind the commit a session recorded of its ref.
* store: a session's rows in the order they were committed, although ordinals and
  rowids are given out again; what was asked can be found; an ask replays the
  newest answers.
* agent loop: a bounded context, no result withheld, no call run twice, no turn
  that goes in circles.
* configuration: the daemon never boots on what it would have refused; what was
  accepted is what is kept.
* pairing: a code pairs once, in its lifetime; guesses are limited.
* tokens: turns at once do not spend the sign-in.
* providers: what the agent hears is what was said, and its next request holds
  the whole conversation, in every format and wherever a stream stops.
* start and stop: a living daemon is its supervisor's one child, or what a kill of the
  supervisor left; the pid files find all there is, stop stops it, what is announced is
  one's own.
* code daemon: one answer to each request, none ahead of the handshake; a read
  returns what the repository holds; what was scanned can be discovered.

## 2. Modules

| module | models | lines of control |
|---|---|---|
| `AskTurn` | an ask from upgrade to rows: handler, agent future, reader task, store queue, crash | `review/server/ws.rs` 28-295, `review/agent/loop_.rs` 228-777, the store operations they call |
| `MCAskTurn` | instance: an ask on one session, and visitors that compete for its slot | |
| `AskTurnProofs` | theorems about `AskTurn` | |
| `AtMostOnce` | abstract: what a caller of the code daemon may rely on | the `CodeDaemonClient` trait |
| `CodeClient` | callers, channel, actor, connection, child; refines `AtMostOnce` | `review/code_daemon/{client,budget,transport}.rs` |
| `CodeClientProofs` | theorems about `CodeClient`, the refinement among them, and about `CodeServer` and the read tools | |
| `Presentation` | presentation calls from the agent to the diff and back to the record | `review/tools/{presentation,router}.rs`, reader of `ws.rs`, `ext/utils/presentation`, `ext/components/QaPanel.tsx`, `ext/utils/daemon/ws.ts` |
| `MCPresentation` | instance: answers of two calls and of one | |
| `PresentationProofs` | theorems about `Presentation` | |
| `WorktreeManager` | prepare requests, flight locks, checkouts, the LRU table and its eviction | `code/repo/worktree.rs`, `code/tools/worktree_tools.rs`, table `worktrees` of `code/repo/registry.rs` |
| `SessionWorktree` | sessions over it: opening, prepare tasks, status board, recorded path and sha | `review/worktree.rs`, `review/server/routes.rs` 147-304, two writes of the store |
| `MCSessionWorktree` | instance: two requests, for one ref or for two of one clone | |
| `SessionWorktreeProofs` | theorems about `SessionWorktree` and the manager inside it | |
| `Conversation` | abstract: a session is a list of entries in the order of commitment | what `list_turns` returns |
| `TurnStore` | sessions, turns, notes, the full-text index, and the history an ask replays; refines `Conversation` | `review/storage/store.rs`, `review/storage/migrations.rs` 11-62, `review/agent/loop_.rs` 566-594 and 664-757 |
| `MCTurnStore` | instance: symmetric sessions, writers and words | |
| `TurnStoreProofs` | theorems about `TurnStore`, the refinement among them | |
| `AgentLoop` | rounds of a turn: repeated calls, results and their budget, stalls | `review/agent/loop_.rs` 270-535 and 604-635 |
| `AgentLoopProofs` | theorems about `AgentLoop` and `ProviderStream` | |
| `TurnLimits`, `Replies`, `Requests` | what a turn and its provider share: limits, the reply as said, parsed and heard, the conversation and the body; with what must hold of them | `review/provider/mod.rs` 56-86, `review/agent/loop_.rs` 324-326 |
| `ProviderStream` | extends `Requests`: the four providers' parsers and request bodies, and a turn that reads them | `review/provider/{anthropic,openai_compat,chatgpt,mock}.rs`, `review/agent/loop_.rs` 270-535 |
| `MCProviderStream` | instance: scripts for the mock provider | |
| `Launcher` | start, stop, restart, uninstall, the supervisor and its daemons, over their three files | `cli/supervisor.rs`, `cli/proc.rs`, `cli/commands/*`, `cli/restart.rs`, the boot of `review/` |
| `LauncherProofs` | theorems about `Launcher` | |
| `ReviewConfig` | pure: what a configuration is, how a body patches it, which ones are refused, derived caps | `review/config.rs`, the patch functions of `review/server/routes.rs` |
| `Settings` | posts of the configuration, its file, its temporary file, the provider built from it | `review/server/routes.rs`, `review/config.rs`, `review/server/state.rs` |
| `Pairing` | extends `Settings`: codes, failures, the origin a pairing saves | `review/pairing.rs`, two routes |
| `SignIn` | extends `Settings`: the ChatGPT token, its file, its copies, sign-in and refresh | `review/provider/chatgpt{,_auth}.rs`, four routes |
| `Routes` | composes `Pairing` and `SignIn`; crash and boot | `review/cli.rs`, `review/server/routes.rs` |
| `MCRoutes` | instance: which requests meet, and their bodies | |
| `RoutesProofs` | theorems about `Routes`, and `Settings`, `Pairing` and `SignIn` inside it, and about `ConfigPage` | |
| `PageRequests` | what the page asks of the daemon and what the daemon stores, with what must hold of them | the script in `review/server/routes.rs` |
| `ConfigPage` | extends `ReviewConfig` and `PageRequests`: the form, its requests, the reviewer's clicks | the script in `review/server/routes.rs` |
| `MCConfigPage` | instance: stored configurations, models, environment | |
| `CodeReads`, `GitReads` | pure: the read tools and the parsers of what git prints, with what they should return | `code/tools/{fs,grep,git,lang}_tools.rs`, `code/git/*`, `code/search/grep.rs` |
| `Connection` | the lines of a connection and its answers, with what must hold of them | `code/mcp/server.rs` |
| `ReadAnswers` | extends `CodeReads` and `Connection`: what the answers of `read_file` and `grep` have to do with the repository | `code/tools/{fs,grep}_tools.rs` |
| `CodeServer` | extends `GitReads` and `ReadAnswers`: one MCP connection and the registry behind it | `code/mcp/server.rs`, `code/tools/{registry,repo_tools,stubs}.rs`, `code/repo/{registry,remote_url}.rs` |
| `MCCodeServer` | instance: a repository with a merge, a directory `b`, a name with a space and a long address; checkouts, requests | |

`Connection`, `ReadAnswers`, `Replies`, `Requests` and `PageRequests` are small because
two modules extend each: the component, and the module with its proofs, which takes the component
by a named instance (`Server`, `Stream`, `Page`), so that its names do not meet those
of the other component proved about there.

### AskTurn

`pc[a]` is the position of `handle_ws` for ask `a`; `turn[a]` the state inside
its agent future; `ws[a]` its socket (`net`), reader task, writer mutex, and
`partial` (the code's `PartialAnswer`). `seen` and `done` are history: what the
client received. `storeQ` is the store mutex, its holder first. `busy` is
`busy_sessions`. Text is a number of deltas.

* A step is one poll between two awaits. A store operation by a task that finds
  the mutex free is one step, as nothing inside it awaits. Any tokio lock may
  also return Pending when the task's budget is used up; that case is the same
  as finding the lock taken.
* The agent is not a task: its actions need `pc[a] = "run"` (`Polled`). When
  the reader arm wins (`ReaderArm`) nobody polls it any more, but whatever it
  holds or queued for stays held or queued, since the future lives until
  `handle_ws` returns.
* `Insert` follows the schema: a foreign key on the session, and a primary key
  that an agent shares between its ok and its error row. The cancelled row has
  an id of its own.
* `RestUsers` stand for REST routes and other turns which use the store;
  `RestServe` may be a DELETE of the session, which ignores `busy_sessions`.
* `Restart` is a crash at any moment. Memory is lost, the database stays.

### CodeClient and AtMostOnce

One action per arm of the actor's loop. Time is nondeterministic: a deadline or
a backoff may end at any moment, a restart leaves the budget's window at any
moment (`Prune`). `half` says that the first line of the pipe is partly in the
buffer of a read that `select!` may drop. `GiveUp` includes senders that
already own a place of the channel when it is drained and closed. `Disconnect`
is atomic: the actor answers its callers in one loop without an await that
another action could use. Writes to the child end (see "not modelled"). The
"ok" outcome covers a JSON-RPC error answer too: it is the child's own answer.

`AtMostOnce` is the promise: a call runs at most once, its answer is its own,
it has one outcome, and a failed call may have run. The mapping is `Outcome`.

### Presentation

`turn`, `call`, `recorded` are the daemon's; `asking`, `mounted`, `muted`,
`steps`, `placed` the panel's and the manager's; `handlers` and `replay` are
the asynchronous functions of the page that are waiting; `down` and `up` are
the wire. `applied` is history. Deadlines pass in any order: a hidden tab is
throttled to any slowness. The handler that resumes does not look at the
question, the mute switch or the panel, since the code does not either.

### WorktreeManager and SessionWorktree

`at[j]` is where a `prepare_worktree` request is; every git command, every lock
and the registry is an await, so each is an action and any of them may fail
(`Fail`). A commit is `<<ref, n>>`, the n-th tip of a ref; a force push is just
another tip. `tree` is HEAD of a checkout on disk, `fetchHead` the one
FETCH_HEAD that a clone has.

* A flight lock is named by the request that made it. `flight` holds weak
  references: an entry counts while some request holds its `Arc`, and `LockFor`
  prunes the others, as `lock_for` does. The order in which waiters get a lock
  is left open.
* Three things have three extents: a flight lock is of a ref, a checkout of a directory
  (`DirOf`, the name after `sanitize_ref`), FETCH_HEAD of a clone (`CloneOf`). Refs that
  are spelt alike share a checkout and no lock.
* Sizes are arbitrary, so that any prefix of the least recently used rows may
  have to go (`SweepList`); the sweep then works on its list, in two steps per
  row, without a flight lock.
* A session is named by its ref (one session per pull request), a prepare task
  by the request it makes. `Open` is `create_session` of a page that is not
  ready; a ready one changes nothing and is no action. `Answered` may fail
  while its request goes on: the deadline has passed, or the client gave up.
* `Earlier` and the choices of `Init` are what earlier runs may have left: a
  checkout without a session, a path without a sha.
* `Restart` stops both daemons. A code daemon that outlives a killed review
  daemon, and other programs that use the same directory, are not modelled;
  neither are `head_sha`, the diff snapshot and the mock mode.

### TurnStore and Conversation

A store method holds the mutex from its first statement to its last and is one
step. Its callers are not: a note looks its session up and inserts under another
lock, an ask lists the turns and inserts minutes later (`stage`).

* `turns` are the rows, `index` the postings of `turns_fts`. A turn's text is
  one word. A search answers any hits up to `SearchLimit`, since ranking decides which
  (`SearchTurns`). The index keeps no copy of the text and has no triggers, so only
  `insert_turn_tx` writes it. `NextRowid` is what SQLite does for a table
  without AUTOINCREMENT: the rowid of a deleted last row is used again.
* `born`, the position in `history`, stands for the random `turn_id`; `history`
  itself is no state of the code.
* An ask's slot (`BeginAsk`) is that of `AskTurn`: one ask per session. Its
  `context_turn_ids` are any turns, other sessions' included.
* `error` and `cancelled` rows are one status, `cut`: the history leaves both
  out. `Restart` loses the writers and keeps the tables.
* `InOrder` is ORDER BY ordinal: the one list of rows that rises. `Answers` are the
  rows the history keeps, `Answered` says the same of `history`.
* The mapping to `Conversation` is `Log`: the rows of a session by ordinal.

### AgentLoop

`ToolRound(u)` is the end of a stream with the calls `u`: it decides which of
them repeat (`repeats`), before any runs. `ToolReturns` are the futures of
`join_all`, in any order; `Clip` hands one result on, in the order of the calls.
A call is a (tool, arguments) pair and a result its length. The notes that
`clip_tool_result` appends to a result are not counted, as in the code.

### ProviderStream

`wire` is the service in use, `loop` the agent loop: its round and what it heard in it.
`service` is what it has said in this reply and
where it stopped, `parse` the parser's buffers, `queue` the events the loop has
not taken, `body` the last request. A text is one piece; a call's arguments are
pieces that parse as JSON only when all are there (or none, or not at all, if
the model wrote no JSON). Each event of a format is an action named for it:
`ContentBlockStop`, `FinishReason`, `ResponseCompleted` and so on, then the two
ways a stream ends early (`Broken`, the `...Eof` actions). `billed` is history:
usage the service reported. A call is its number in the reply; the ChatGPT parser keeps
calls by item id and hands them all on at the end of the reply, so the model has them
announced in the order of their ids.

A conversation is pieces: texts, calls, results. The three formats become one sequence of
pieces, so that they can be compared: what differs between them is what is left out,
what is reordered, and where a message is cut into several.

### Launcher

A run of `libre-cr` is a program counter, `cmd[r]`; a start becomes the
supervisor it was looking for. A daemon is spawned, binds, writes its endpoint
and exits, cleanly or not, when it likes. Pids are not reused. SIGKILL reaches
any run at any step (`RunKilled`). A pid file whose write fails stays as it was, and the
code goes on (`Written`). `Overlap` says whether a second command may begin while one is
under way, `WritesFail` whether those writes may fail: both are off in the run, and
`EveryChildIsOwned` is proved whatever they are.

### ReviewConfig, Settings, Pairing, SignIn and Routes

A request is a job in a slot: `job[s]` is its kind, where it stands, and what it
carries; `todo` is what a history may still ask for. `configLock` is the mutex
over the configuration, released before the provider is swapped (`PostSwaps`).
Saving is four steps, as `std::fs::write` is an open that truncates and a write,
then a rename; a crash may fall between any two. `handle` of a write follows the
file through a rename. `Boot` reads what the disk has.

* A pairing saves the snapshot it took under the lock, later, through the same
  temporary file, whoever else writes it then. Several guesses can be past the check of
  the ledger before one of them is counted.
* `SavesApart` says of a state that no pairing saves beside another request. Nothing in
  the code sees to that: `EveryFileIsAccepted` is what holds without it, `AcceptedIfApart`
  what holds in a behaviour that keeps to it.
* A ChatGPT token is the number of its grant; `live` is what the service still
  accepts, `held[i]` the copy in a provider instance, `mutex[i]` its lock.

### ConfigPage

`form` is what the fields show, `known` the model picked and `ceiling` what it
allows; `stored` is the daemon's configuration; `requests` are fetches under way, whose answers come in any order. The
reviewer clicks and types between any two. The daemon answers with the operators
of `ReviewConfig`, so that the page's formulas meet the daemon's ranges.

### CodeReads, GitReads and CodeServer

A tool is an operator of its arguments and the repository, which is a record of
trees, commits, refs and what git or the directory walker finds out by itself.
Parsers work on the printed lines: `Printed` is what `git diff` prints for
given changes, `Porcelain` what `git blame --porcelain` prints; both are
external. The operators `ReadFileExact`, `GrepIsPrefix`, `BlameIsTrue`,
`LogStartsAtCurrent` and `DiffIsWhole` say what a reader of the answer
relies on, from the repository and not from the tool; the last two are limited to what the
parsers can tell (`PlainBlame`, `PlainPath`). A file that cannot be opened
(`unreadable`) is passed over by the search, without a word in the answer; the claim about
`grep` is therefore about the readable files of the walk. A pattern or glob that does not
parse is an error (`Unparsable`).

`CodeServer` has the reader (it answers `initialize` and errors itself and spawns
a task for the rest), tasks that acquire a permit, compute and wait for room
in the channel, and the writer. Read tools are one step. `clone_repo` is two, with
git at work in between, so that two clones of one repository overlap, and a scan
registers one checkout at a time.

## 3. Runs

| run | asks | answer |
|---|---|---|
| `ask_turn` | do the rows of an ask match what the client saw, is the slot taken exactly while one handler lives, and does the ask end, with stalls, disconnects, crashes, a deleted session, contention at every await and another ask racing for the slot? | yes |
| `code_client` | is the client an at-most-once call that always ends? | yes, if handshakes end |
| `presentation` | is the model told the truth, is the record complete, does a question end? | yes |
| `session_worktree` | with overlapping prepares of one ref, or of two refs of one clone, with pushes, failures, evictions and restarts: is preparing single-flight per ref, does a checkout never go back, is the recorded sha never ahead of it, does a waiting page learn an outcome; and is a checkout of its own ref? | yes; the last if the two refs are never between a fetch and the read of FETCH_HEAD together |
| `turn_store` | does a session stay a log in the order of commitment, is what was asked found, does an ask replay the newest answers, while asks and notes race with edits, deletions and restarts? | yes |
| `agent_loop` | is the model's context bounded, and no turn stuck in a circle? | yes |
| `provider_stream` | does the agent hear what each service said, whole or not at all, and is its next request the whole conversation? | yes |
| `launcher` | of commands one at a time: do the pid files find all there is, does stop stop it, is the endpoint announced one's own, does every command end, whoever is killed? | yes |
| `routes` | does the daemon only boot on what it would accept, is an accepted configuration the one kept, does a code pair once, do turns at once keep the sign-in? | yes; the second if no pairing saves beside another request, the last with one provider instance |
| `code_server` | does every request get one answer, none ahead of the handshake, and every read what the repository holds; can what was scanned be discovered? | yes; of a blame and of the path in a diff, if they are plain |
| `config_page` | is a provider never given another's endpoint, does the daemon accept what the page suggests, does polling end? | yes |

One more run states what a comment says and the code does not do:

| run | claim | counterexample |
|---|---|---|
| `ask_slot_stalled` | the slot is given back whatever happens (`ws.rs:28-31`) | a client goes while a frame waits in a full socket |

Each run checks what is hard about its module. `TypeOK` is part of a larger invariant in
`CodeClient` and `ProviderStream` (`RepliesTyped`); it is proved for five modules (section 4) and, with `RepliesAreTrue`, for
`ProviderStream`, and documents the variables of the others.

### The disagreements

* **ask_slot_stalled.** The client's receive window is full, so the agent waits
  in a send and holds the writer mutex. The client goes; the reader arm wins.
  `sink.error` waits for the writer mutex, which only the abandoned agent could
  release. `handle_ws` never returns and the session answers 409 until the
  daemon is restarted. The same trap exists at the store mutex, and there it
  stops every user of the store (`ws.rs:265-293`).

The others have no run. Each follows from the models, and TLC finds it when the claim in
question is stated as a property, or the hypothesis of one is left out:

* **Two refs of one clone** (`worktree.rs:96`). The flight lock is per ref (71-73), FETCH_HEAD
  per clone. Two sessions of one clone are opened; the second fetch falls between the first
  one's fetch and its read, and the first session's worktree is put on the other's commit and
  reported ready, where `specs/03-code-daemon.md:32` materialises the ref asked for. Checking
  that a checkout is of its own ref, in `session_worktree`, without the hypothesis of
  `OwnRefIfApart`, shows it. `OwnRefIfApart` is what a lock per clone would give; `NeverBack`
  and `RecordedNotAhead` hold as the code is.
* **Two refs spelt alike** (`worktree.rs:75-78`). The directory of a checkout is named by
  `sanitize_ref`, which makes `feature/foo` and `feature_foo` one; the lock is named by the ref
  as it is (`worktree.rs:71`). Preparing one puts the other's checkout on its commit, where
  `specs/03-code-daemon.md:311` has "never serves stale code". The refs the extension sends,
  `pull/<n>/head`, do not meet this. With `DirOf` the same for both
  refs a session is ready on the other ref's tip.
* **A note that was edited** (`store.rs:392`). `update_note` does not touch the full-text
  index, so a note is found by the words it had, where `docs/user-guide/using.md:80` has search
  over every note. A deleted note leaves its posting, which may come to point at another turn.
  `EveryAnswerIsFound` is what holds: no question is lost to search, unless the limit of the
  answer is full of other hits.
* **Two starts at once** (`start.rs:125`). `supervisor.pid` is read there and written at 97,
  with no lock in between: both starts supervise, and stop knows only the last, where
  `specs/08-distribution.md:109` has start idempotent. It shows with `Overlap = TRUE`.
  `ChildrenAreOwned` is what holds: each has one child and takes it along when it ends.
* **A pairing beside a post** (`routes.rs:884-892`). A pairing persists a snapshot after it has
  released the lock, through the temporary file every writer uses. It can truncate that file
  between a post's write and rename, so that a crash leaves half a `review.toml`, against
  `routes.rs:596`; and it can rename what a post wrote that is then refused, against
  `routes.rs:567`. `EveryFileIsAccepted` is what holds: a file that parses is one the daemon
  would accept. It shows without the hypothesis of `AcceptedIfApart`.
* **Two posts at once** (`routes.rs:588`). The provider is swapped after the lock is released:
  of two posts the first may be the one that runs, the second the one that is kept, where
  `routes.rs:589` has the provider track the configuration.
* **A blame with a long detail** (`blame.rs:76`). `parse_porcelain` takes each line of 40 bytes
  or more that begins with a hexadecimal digit for a commit header. An `author-mail` line with
  a GitHub noreply address is one, and so is the `filename` line of a path of 31 bytes: the
  answer then names no commit and no line, against `specs/03-code-daemon.md:91`. It shows
  without `PlainBlame` in `GitIsTrue`.
* **A path with a space, or in a directory `b`** (`diff.rs:76-80`). `git_diff` takes a file's
  path from the last word of its header and strips `b/` again and again, against
  `specs/03-code-daemon.md:96`. Status, hunks and lines stay right. It shows without
  `PlainPath` in `DiffIsWhole`.
* **Two clones of one repository at once** (`repo_tools.rs:183-194`). A clone half way is
  answered and registered as present by a second request, and stays so when the first one's
  git fails, where `repo_tools.rs:156` answers with a clone.

More of the same kind, by part:

The review daemon, its store and its model:

* `read_line` is not cancellation-safe: `select!` drops a read that has taken
  part of an answer line when a request arrives (`client.rs:388`, `half`). The
  answer is lost on a living connection and its caller gets a timeout.
* An OpenAI error chunk has no `choices` and is passed over
  (`openai_compat.rs:393`); the stream ends, a `Done` is made up, and the part
  that was said is the answer (`ErrorChunk`). `specs/04-review-daemon.md:466` has
  the parsers symmetric on failure.
* A page handler that waited for its file paints after the next question cleared
  the page (`handlers.ts:300`), where `QaPanel.tsx:71-74` has one answer's
  effects at a time (`Resume`).
* The text of a round joins the answer at the round's end, so an error in the
  middle of one stores the answer without it, where `loop_.rs:245` has "the
  streamed prose" kept (`AgentStreamError`).
* The router keeps the value of a presentation call and drops its `ok`
  (`router.rs:255`), so that `presentation_steps_by_turn`, whose failed steps
  are to be "left out" (`store.rs:232`), has them all (`Traced`).
* The eviction sweep runs in the code daemon and tells nobody. The session keeps
  its path and sha, and opening it answers ready (`SweepDelete`, `OpenReady`).
  `docs/development/architecture.md:144-146` foresaw it.
* The head comment of `review/worktree.rs` promises that a prepare in flight is
  joined. A second open starts a second task (`Open`); when the first one ends,
  `get_session` answers ready while the refresh the second page asked for has not
  begun (`routes.rs:261` compares no sha).
* `loop_.rs:632-635` bounds the overrun of the tool budget by a floor per round.
  It is a floor per result: a round has any number of calls (`BudgetHolds`).
* DELETE of a session does not look at `busy_sessions`: the rows of an ask under
  way then fail on the foreign key (`DeleteSession`).
* A repeated call is refused because "its result has not changed"
  (`loop_.rs:380`). That includes a call that failed the first time, and calls
  of the page, whose effects come and go.

Configuration, pairing and sign-in:

* The mutex of `chatgpt.rs:53-54` belongs to one instance, the token file to all.
  `models` and `validate` build instances of their own: one that is refused a
  spent token deletes what another has just written. `TurnsKeepSignIn` speaks of
  one instance.
* A rotated token that could not be saved is lost with the sign-in
  (`chatgpt.rs:99`).
* `PENDING` is cleared by an earlier attempt while a second one still waits
  (`chatgpt_auth.rs:308-319`).
* `max_tokens` is cut to 32 bits by `as` (`routes.rs:489`). Caps derived from a
  window of about 8.8 million tokens or more leave the range the same daemon
  accepts.
* `provider_models` compares endpoints only when it decides whether the stored key
  goes along (`routes.rs:640-651`): a switch of kinds with both endpoints blank
  keeps it.
* A lost install key stops the boot, although the message is to "re-enter it in
  the config UI". `doctor` expects mode 0600 of an endpoint file the daemon writes
  with the default mode.
* The page: a list of models that arrives after another kind was chosen fills in
  the other provider's (`routes.rs:1348`, where the comment at 1265-1267 means to
  prevent it); a late configuration changes the kind and leaves the key typed for
  another; saving before the first answer stores a blank model; "Saved." erases a
  key typed since; a late status answer can end the polling of a newer sign-in.

The code daemon:

* `grep` passes over a file it cannot open and does not mark its answer (`grep.rs:86`).
* `grep` ignores its `ref`. `read_file` of a directory at a ref answers the raw
  tree.
* `find_by_remote` answers any one of several clones of a remote. URLs that name
  one repository do not all become one: `r.git/` keeps `.git`, and a port is kept
  with ssh and dropped with https.
* A request line that is not UTF-8 ends the connection, and drops every request
  under way (`server.rs:95`). The run exempts them (`faults`).

The launcher:

* A pid file that cannot be written is passed over (`start.rs:97`, `supervisor.rs:190`):
  `status`, `stop` and a later start then do not see a process that runs.
* `docs/development/architecture.md:123` describes an older `resolve_existing`.

### Bounds, and why they are enough

* `ask_turn`: one ask, a visitor, one other user of the store, two deltas, three rounds.
  Three rounds is the first at which a stalled turn can be cut short; two deltas put text in
  two rounds, or in a round and the forced answer. The visitor competes for the slot at any
  moment, is refused or fails its upgrade, and gets no further (`MCNext`); `SingleFlight`
  proves the slot for any number of asks at any place. `ask_slot_stalled` has no visitor.
* `code_client`: three calls through a channel of one place, so that one is
  with the child, one queued and one blocked; a budget of one restart and two
  faults, so that a restart fails and the actor gives up. Ids start at 100 and
  grow by one per request taken.
* `presentation`: two questions, with two calls and one: calls of one round
  can overtake each other, and the second question can meet the leftovers of
  the first. Sets of sessions, users and calls have no symmetry declared,
  because the runs check liveness.
* `session_worktree`: two refs of one clone, two tips of one of them, two requests: both for
  that ref, or one for each (`MCNext`). Two requests for a ref overlap in every way a flight
  lock can tell apart, two for a clone in every way FETCH_HEAD can. Evictions come beside the
  requests for one ref, after its last push; the theorems have none of these bounds. What a
  third request could have left is an initial state.
* `turn_store`: two sessions, two writers, two words, three turns. A reused rowid
  needs two notes and one more turn; an ask that replays needs answers before it
  and a writer beside it; a search answers two turns, so that it can be full. Two answers fit into its history, one of them in full,
  so both limits are met. Sessions, writers and words are interchangeable and
  every property is a safety property, so symmetry is sound.
* `agent_loop`: three calls, at most two per round, results below, at and beyond
  the caps, five rounds: a turn can stall twice with something new in between,
  spend its budget in the middle of a round, and reach the last round.
* `provider_stream`: one round with tools and the one without, a text and two
  calls of up to two pieces: calls interleave, and a stream can stop before,
  between and inside them. Every stop is met by every parser.
* `launcher`: two commands of any kind, three daemons, one restart, one tick: a
  command meets a running, a dying and a killed install, and a supervisor uses up
  its budget.
* `routes`: two slots. What meets is chosen by `MCHistories` (three posts; a post and a
  pairing, with a code to pair by; guesses and codes; turns with another instance or a post;
  sign-ins), because what shares no state need not be interleaved. One crash at any step, two
  failures in a window, two ticks. `max_tokens` has 16 bits, so that a number of reach
  overflows it. A history with pairings also has behaviours in which they save beside another
  request; `AcceptedIfApart` says nothing of these.
* `code_server`: two permits, a channel of one place, one fault, up to four
  requests. Reads are one request a history, over every combination of arguments
  around each limit of a repository with a merge, a directory `b`, a name with a space,
  a long address, a symbolic link that leaves it, a file that cannot be opened,
  an unknown ref, and a number below zero, which the schema lets through; the server's tasks
  meet in the others.
* `config_page`: three clicks, one request that fails, two kinds besides the one
  stored, models with a small and a large window. `max_tokens` has 24 bits.
* `CHECK_DEADLOCK FALSE` everywhere: all asks done, all calls answered, all
  questions asked is a proper end.

### Fairness

* `AskTurn`: weak fairness of each handler and each polled agent (tokio polls
  a ready task; provider streams end or reach their 120 s client timeout,
  `provider/anthropic.rs:89`, `provider/openai_compat.rs:98`,
  `provider/chatgpt.rs:69`), of the reader, of `Drain` (a stalled client reads
  its socket in the end), and of a store user that was given the lock. Sends
  are strongly fair: a window that opens again and again lets a frame out.
  Nothing forces a client to disconnect, to stall or to ask.
* `CodeClient`: the actor's own arms, callers' deadlines, and strong fairness
  for a sender of a full channel (tokio's semaphore is FIFO). No fairness for
  the child or for the handshake, which has no deadline; `EveryCallEnds`
  therefore assumes `HandshakesEnd`.
* `Presentation`: the daemon's deadline, the end of the turn, arrival of frames
  and the notice of a lost connection on either side. The page's handlers need
  not ever resume.

* `Launcher`: a command or supervisor that can take a step takes it, and the wait
  for a child does not pass over a signal for ever (`select!`). Nothing is assumed
  of a daemon: the deadlines and SIGKILL deal with one that hangs.
* `CodeServer`: a task that can go on is polled, git ends and the client reads its
  pipe. Requests are finitely many, so one condition over all steps is enough.
* `ConfigPage`: the daemon and the page handle what has come in, and a sign-in
  comes back or times out (`chatgpt_auth.rs`, five minutes).
* `TurnStore`, `AgentLoop`, `ProviderStream` and `Routes`: none; their properties are about safety. That a
  turn ends is `ConnectedAskEnds` of `AskTurn`.
* `SessionWorktree`: prepare tasks only. Nothing is assumed of the code daemon;
  a call to it ends by its deadline at the latest.

Every property of a passing run has a mutant: a plausible bug, kept beside the
definition it would replace, which makes that property fail in that run.

## 4. Proofs

Every theorem holds for all values of the constants that satisfy the named
assumptions of the modules (bounds are natural numbers, identities are distinct,
slots are finitely many, a file the daemon has booted from is one it boots from).
What a theorem assumes beyond them is said here. Each inductive invariant was first
checked by TLC on the run of its module.

`AskTurnProofs` proves, for any asks, sessions, bounds and number of crashes:

* `TypeCorrect`: `Spec => []TypeOK`.
* `SingleFlight`: `Spec => []SlotMatchesHandler`.
* `DoneIsDurable`: `Spec => []DoneImpliesOkRow`.
* `AtMostTwoRows`: `Spec => []RowsPerAsk`.
* `TurnsAreKept`: `Spec => []NoTurnLost`, assuming that store writes succeed.
* `TextIsKept`: `Spec => []RowsKeepTheText`.

The slot invariant is inductive beside the types. What is said of rows is not:
that `done` means a committed row needs to know that the row exists from the
moment `done` is being *sent*; that no error row stands beside another row
needs to know that an error or cancelled row exists only once its handler has
left the `select!`; that no turn is lost needs a row from the moment the handler
gets past it. `RowInv` says this, together with where an agent cannot have
started: `DoneInv`, `NoAgentYet`, `LeftARow`, `WrittenOnLeaving` and `RowsPerAsk`
itself. It is inductive: a step moves one ask, `RowFrame` carries the others
over, and only the three inserts, the deletion of a session and a restart
need an argument of their own. `TextInv` is about four copies of one text: the
answer so far, the round's buffer, the handler's `PartialAnswer` and what the client
saw. How they compare differs at each place of the agent (`TextsAgree`), and an
agent whose answer is committed adds no more (`RowsAreFinal`).

`CodeClientProofs` proves, for any calls, channel, budget and number of faults:

* `TypeCorrect`: `Spec => []TypeOK`.
* `CallsAccounted`: `Spec => []CallsAreAccountedFor`.
* `Refinement`: `Spec => ImplementsAtMostOnce`.
* `RequestsAnsweredOnce`: `Server!Spec => []AnsweredOnce`, for any requests, permits,
  capacity of the channel, tools and faults, if a history is a sequence.
* `ReadsTrue`: `Server!Spec => []ReadsAreTrue`, also for any repository and arguments.
  `RepoAssumption` says of the repository that a file is a sequence of lines, that a walk
  shows files of the working tree, that a ref names a commit, and that the configured
  cap is a natural number.

An answer finds its caller by the id alone. So the invariant follows an id wherever
it is, in the actor's map, with the child or in the pipe: there it belongs to one
call, and none is beyond the next one to be given out (`OneIdPerCall`,
`IdsAreGivenOut`). A call that is still queued is queued once and nothing has been
done for it; one the child has is not executed yet, one that is answered was
executed once (`QueuedOnce`, `ExecutedOnce`). Each step of `CodeClient` is then one
of `AtMostOnce` under `Outcome`, or a stutter.

The server's invariant follows an answer the same way. `Out` is what the channel holds
behind what was written: the place of a line is in it once, and only if it asks
(`OutOnce`, `OutIsDue`). A task holds an answer to a line of its own that is not there
yet (`TasksHoldTheirs`), and what the reader answers itself is the last line it read
(`InlineIsLast`). It waits for room with the answer to a handshake before it
reads on, so whatever was read later is behind it (`HandshakesFirst`).

`ReadsTrue` has two halves. An answer is what its tool made of the repository wherever it
is, with its task, the reader, in the channel or written (`ReadsInv`): a task that scans or
clones is never one of a call that reads (`TasksAreOfTools`), and what another tool answers
is no claim about a file. And what the tool makes is right: `ReadFileReads` for a slice, and
for a search `GrepFinds`, along the files of the walk. A search that has seen the matches of
some files has the beginning of them within the cap, and all of them, with room for more,
unless it is truncated (`Seen`); one more file keeps that so (`VisitSees`). `Grep` and
`FlattenSeq` are recursive functions, so their existence is a lemma of its own
(`WalksExist`, `FlatsExist`), by a least counterexample.

`PresentationProofs` proves, for any questions and calls:

* `TypeCorrect`: `Spec => []TypeOK`.
* `Truthful`: `Spec => []AnswersAreTruthful`.
* `PlacedIsRecorded`: `Spec => []PlacedSurvivesReload`.

The page answers a call once: while its frame or its handler waits it has no effect
and no result (`FramesWaitOnce`), and a result on its way says what the effect was
(`ResultsAreTrue`). `done` follows the row, which has every call that was sent
(`DoneFollowsRow`, `EffectsWereSent`).

`TurnStoreProofs` proves, for any sessions, writers, words and history limits:

* `TypeCorrect`: `Spec => []TypeOK`.
* `AnswersAreFound`: `Spec => []EveryAnswerIsFound`.
* `ConversationKept`: `Spec => ImplementsConversation`.
* `NewestAreReplayed`: `Spec => []ReplayKeepsNewest`.

Rowids and ordinals are given out again, so the invariant says that they are at most
the number of turns committed (`RowsAreCounted`), that rows belong to sessions that
are there (`RowsAreOfLive`), and that the ordinals of a session are distinct, which is
what makes its listing a list of all its rows, and the only one
(`TurnsAreListed`). The lemmas about lists say what appending, changing and removing
a row does to that listing; the refinement cites them.

What an ask replays is what it read, and rows may be edited, deleted and added until it
ends. `Kept` says what cannot change: a row is an entry of `history` and the order of
ordinals is the order of commitment (`RowsAreHistory`, `BornInOrder`), an answered
question stays as long as its session (`AnswersStay`), and what an ask replays was read
before now (`WritersAreLate`). That rows can be listed by ordinal at all (`ListingExists`),
and which turns a quota counted from the newest leaves in full (`QuotaIs`), go over the
least counterexample: the library's induction theorems are out of reach.

`LauncherProofs` proves, for any runs, daemons, budgets and kills:

* `EveryChildIsOwned`: `Spec => []ChildrenAreOwned`, for any commands at once and pid files
  that could not be written.
* `AnnouncementIsOwn`: `Undisturbed => []AnnouncedIsOwn`.
* `StopsStop`: `Undisturbed => StopStops`.

`Undisturbed` are the behaviours of `Spec` in which no command begins while another is
under way and every pid file is written. The code sees to neither; section 3 tells what
happens otherwise, and `EveryChildIsOwned` what does not.

Its invariant pairs daemons with supervisors: a daemon is the child of one run, which is
at the place where it records, waits for or kills it, and a run that has ended by itself
has none. That of the other two attaches to every place of a command what it has made sure of there
(`Knows`): no supervisor, no daemon that a file still names, or only the one it
waits for. `SupervisorOnRecord` and `DaemonOnRecord` say what the pid files name at
each moment, the gap between a spawn and its record included; `EndpointsAreOwn`
follows an endpoint from the daemon that wrote it to the start that announces it.

`RoutesProofs` proves, for any number of slots and requests and any bodies:

* `CodesOnce`: `Spec => []CodesAreOneTime`.
* `FilesAreAccepted`: `Spec => []EveryFileIsAccepted`, whoever saves beside whom.
* `AcceptedIsKept`: `Spec => AcceptedIfApart`, that is, what was accepted is kept in the
  behaviours in which no pairing saves beside another request.
* `SignInIsKept`: `Spec => []TurnsKeepSignIn`.
* `EndpointsAreOwn`: `Page!Spec => []EndpointOfKind`, for any catalogue, any stored
  configurations that are whole, and any number of clicks and lost answers.
* `DerivedCapsFit`: the caps the daemon derives from a window are in the ranges it checks
  if and only if the window has at most 8 791 210 tokens.
* `SuggestionsAreTaken`: `Page!Spec => []SuggestionsFit`, if no service lists a model with
  a larger window (`WindowsAreSmall`).

The first four rest on `Jobs`: a request stands at a place of its own handler. Limits of
guesses hold because the guesses past the check and not yet counted fit, with the
count, into the limit and the slots (`FailuresAreCounted`). For `FilesAreAccepted` every
copy of a configuration, in a request, in memory, in either file, is one that passed the
checks or a copy of such a one with another origin. For `AcceptedIsKept`
only the request that has the lock or an origin saves; `Inside` says what is in the
temporary file at each of its places, and `CandidateIsSound` that a patch that passed
the checks has its limits in range. For the sign-in `Peace` holds while there is one
instance, no fault and no crash: one request is past the mutex, what it refreshes is
the token in memory, and a token that is being saved is live and nobody else's.

For the page, `OwnInv` says that a kind and an endpoint that stand together, in the form,
in a request or in the daemon, belong together; `FitInv` that a cap is in its range,
wherever it is, unless it is the one typed. A step adds one request, settles one or drops
one, and the form changes field by field. `DerivedCapsFit` is the arithmetic between: the
smallest window whose caps the same daemon refuses is one more than the bound, so the
assumption of `SuggestionsAreTaken` cannot be weaker.

`SessionWorktreeProofs` proves, for any requests, refs and bounds, with
failures, evictions and restarts:

* `SingleFlight`: `Spec => []OneFlight`.
* `RecordedShaIsKnown`: `Spec => []RecordedNotAhead`.
* `CheckoutNeverBack`: `Spec => NeverBack`.
* `ApartIsEnough`: `Spec => OwnRefIfApart`.

`OneFlight` becomes inductive with what makes weak locks work: a request that
waits for its lock or has it shares the one the map names (`LockInv`). Pruning
keeps that, since it only drops locks which nobody holds. The order of commits
is a chain: what is known of a ref (the checkout, the recorded sha, the shas
reported and not yet recorded) is at most the checkout, and at most the commit
that a request is about to put the checkout on, along one ref (`OrderInv`). A fetch of
another ref keeps that, because commits of two refs are not compared, and a later fetch of
the same ref only brings later ones. Refs with a directory of their own are meant (`OwnDir`);
no assumption is made on clones. `ApartIsEnough` says what the code lacks: with the
requests for two refs of a clone apart between a fetch and the read of FETCH_HEAD, every
checkout is of its own ref. The hypothesis is about the behaviour; section 3 tells what
happens without it.

`AgentLoopProofs` proves, for any calls, sizes and limits:

* `TypeCorrect`: `Spec => []TypeOK`.
* `BudgetIsKept`: `Spec => []BudgetHolds`.
* `ResultsAreGiven`: `Spec => []NeverEmptyHanded`, which no run checks.
* `CallsRunOnce`: `Spec => []OneRoundPerCall`, which no run checks.
* `LoopsAreCut`: `Spec => []NoIdleRounds`.
* `RepliesTrue`: `Stream!Spec => []RepliesAreTrue`.
* `RequestsWhole`: `Stream!Spec => []RequestIsWhole`.

The last two are for any number of rounds, texts, calls and pieces, any subset of the four
providers, and any scripts of events.

The first four rest on `TypeInv`: types, and that results are complete before
they are clipped. `BudgetHolds` is then one arithmetic fact about `Clipped`.
`NoIdleRounds` needs more: a round that asks for something new makes the set of
calls made grow, and after it at most one stalled round is followed by another
(`IdleInv` counts both). Nothing is assumed but that limits and sizes are natural
numbers; calls may be infinitely many.

`RepliesTrue` rests on `StreamInv`: types (`StreamTypes`), which stages a reply can be in
with each service (`MockInv`, `StageInv`), and, part by part, where what was said is. A
text is heard or the only event queued (`TextInv`); a buffer holds the pieces that were
sent (`BufferInv`); a call that is queued or heard has left the table and nothing is said
of it any more (`UsesInv`); which calls are still there depends on the service and the
stage (`TableInv`); heard, queued and buffered calls follow each other in the order of
their numbers (`OrderInv`); usage is heard, held by the parser or still due (`BillInv`);
`Done` comes once, behind everything else (`DoneInv`), so that a reply that ended as it
should was heard to the last call (`CountInv`). The parsers share a few moves (a text, a
new buffer, a piece, an end), each with a lemma; the actions cite them. That buffers leave the table in
the order of their numbers is a fact about `Ordered`, a CHOOSE of a rising sequence, which
exists by the least counterexample.

`RequestsWhole` adds `RequestInv`: the conversation begins with the one system prompt, each
call has its result in a later message and each result its call in an earlier one
(`Paired`), no message mixes results with other pieces (`OfOneKind`), and while a reply is
read the body is the form of that conversation. A round keeps this because the two
messages it adds have it among themselves (`RoundFits`, `FitJoined`). `OfOneKind` is why the
text that one of the formats drops beside results is never there. Bodies are concatenations
(`FlattenSeq`, defined by a recursive function), so the lemmas about sequences put together
of parts say where each part begins in the whole (`Places`), that nothing else is there
(`Covers`), and that order between parts is order in the whole (`FlatPairs`).

Only model-checked:

* every liveness property: `ConnectedAskEnds`, `EveryCallEnds` and the like rest on
  fairness and ENABLED, which are out of the prover's reach;
* `OneInstall` of `Launcher`, which is about commands one at a time, and `ScannedIsFound`
  of `CodeServer`;
* `GitIsTrue` of `CodeServer`: what the parsers of `GitReads` return is a fold over printed
  lines, with a state of several fields, and `LogStartsAtCurrent` is about a history that
  git orders; for every repository both need induction over data;
* the restart budget of `Launcher` (`tracker` is a `SelectSeq`, which the prover cannot
  expand), on which none of its theorems depends;
* that every action can be taken, which the runs show between them.

## 5. Not modelled, and why

* What tools return is data: `AgentLoop` has its length only, and in `AskTurn`
  `tools` is one wait, since a tool never fails a turn.
* Prompts, verbs, exports, argument parsing, HTTP and SSE framing, the markup of
  the configuration page, and the handlers that only read the store.
* In the store: `set_head_sha`, the merging of scraped pull-request data
  (`carry_forward`) and traces other than of presentation calls.
* In the extension: rendering, local storage, the relay of HTTP calls through the
  background worker.
* The comparison of a bearer token, which is a check without state.
* Full pipes between the review daemon and the child: the actor's write then
  waits while nobody reads. Named in the hazards.
* A second panel on the same page, and the tools `open_link` and
  `clear_presentation`.
* Store writes that fail are an option of `AskTurn` (`StoreMayFail`) which the
  proofs cover and the runs leave off.

## 6. What is left

The modules of the plan are written, and every safety property a passing run checks is proved
but `GitIsTrue`, `ScannedIsFound` and `OneInstall`. Parts that could be added, by what they would show:
`carry_forward`, which merges scraped pull-request data into a session (two pages of one
pull request); a write to the child's pipe that blocks the actor; a second panel on one
page.

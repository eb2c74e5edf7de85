------------------------------ MODULE TurnStore ------------------------------
(***************************************************************************)
(* The review daemon's store of turns (storage/store.rs over the schema of   *)
(* storage/migrations.rs) and the history an ask replays from it            *)
(* (build_history_messages of agent/loop_.rs).                              *)
(*                                                                         *)
(* Every method holds the store's mutex from its first statement to its      *)
(* last, so a method is one step.  What is not one step is what callers do   *)
(* in several calls: a note looks its session up and inserts later, an ask   *)
(* lists the turns and inserts much later; sessions and notes may go and     *)
(* change in between.  Text is one word.                                     *)
(***************************************************************************)
EXTENDS Naturals, Sequences, FiniteSetsExt, SequencesExt

CONSTANTS
  Sessions,      \* session ids, each used once
  Writers,       \* requests that add a turn: asks and notes
  Nowhere,       \* no session
  Words,         \* what a turn is about
  MaxTurns,      \* bound: turns ever committed
  MaxExpanded,   \* bound: turns a client has expanded as it asks
  MaxHistory,    \* limits.max_history_messages
  ReplayFull,    \* limits.replay_full_turns
  ReplayMaxFull, \* limits.replay_max_full_turns
  SearchLimit    \* hits a search answers at most: 10 for the agent, 20 for the popup

ASSUME StoreBounds ==
  {MaxTurns, MaxExpanded, MaxHistory, ReplayFull, ReplayMaxFull, SearchLimit} \subseteq Nat

ASSUME NowhereAssumption == Nowhere \notin Sessions

VARIABLES
  session,   \* of each session: new, live or deleted
  turns,     \* table `turns`
  index,     \* table `turns_fts`: postings <<rowid, word>>
  stage,     \* of each writer: idle, note, opened, ask
  about,     \* the session it writes to
  replay,    \* what an ask replays, oldest first
  history    \* every turn ever committed, in order (no state of the code)

tables == <<session, turns, index, history>>
vars == <<tables, stage, about, replay>>

Kinds == {"question", "note"}
Statuses == {"ok", "cut"}    \* cut: error or cancelled

Turns == [rowid : 1..MaxTurns, ordinal : 1..MaxTurns, session : Sessions,
          kind : Kinds, status : Statuses, word : Words, born : 1..MaxTurns]

NoReplay == [at |-> 0, ids |-> {}, turns |-> <<>>]

Init ==
  /\ session = [s \in Sessions |-> "new"]
  /\ turns = {}
  /\ index = {}
  /\ stage = [w \in Writers |-> "idle"]
  /\ about = [w \in Writers |-> Nowhere]
  /\ replay = [w \in Writers |-> NoReplay]
  /\ history = <<>>

-----------------------------------------------------------------------------
(* Statements. *)

Of(s) == {t \in turns : t.session = s}

(* SQLite gives a row the rowid after the largest one in use, so that the
   rowid of a deleted last row is used again. *)
NextRowid == 1 + Max({0} \cup {t.rowid : t \in turns})

NextOrdinal(s) == 1 + Max({0} \cup {t.ordinal : t \in Of(s)})

(* Mutant of Posting: the turn is indexed under its ordinal. *)
PostingByOrdinal(t) == <<t.ordinal, t.word>>

Posting(t) == <<t.rowid, t.word>>

(* insert_turn_tx in the transaction of insert_turn_auto_ordinal; it fails on
   the foreign key if the session is gone. *)
Insert(s, kind, status, word) ==
  IF session[s] = "live"
  THEN LET t == [rowid |-> NextRowid, ordinal |-> NextOrdinal(s), session |-> s, kind |-> kind,
                 status |-> status, word |-> word, born |-> Len(history) + 1]
       IN  /\ turns' = turns \cup {t}
           /\ index' = index \cup {Posting(t)}
           /\ history' = Append(history, [session |-> s, kind |-> kind, status |-> status])
           /\ UNCHANGED session
  ELSE UNCHANGED tables

(* ORDER BY ordinal *)
InOrder(S) ==
  CHOOSE list \in [1 .. Cardinality(S) -> S] :
    \A i, k \in DOMAIN list : i < k => list[i].ordinal < list[k].ordinal

(* list_turns *)
ListTurns(s) == InOrder(Of(s))

(* The postings of a word joined with rows; LIMIT cuts the list anywhere
   (search_turns has no order, search_global that of a score).  What a search
   may answer: all the hits, or as many of them as the limit. *)
Hits(rows, word) == {t \in rows : <<t.rowid, word>> \in index}

Limited(hits) ==
  {found \in SUBSET hits :
     /\ Cardinality(found) <= SearchLimit
     /\ found = hits \/ Cardinality(found) = SearchLimit}

SearchTurns(s, word) == Limited(Hits(Of(s), word))

SearchGlobal(word) == Limited(Hits(turns, word))

-----------------------------------------------------------------------------
(* Sessions and notes. *)

(* upsert_session of a pull request that has none.  (Else it refreshes
   pr_data, which no other part of this module reads.) *)
UpsertSession(s) ==
  /\ session[s] = "new"
  /\ session' = [session EXCEPT ![s] = "live"]
  /\ UNCHANGED <<turns, index, history, stage, about, replay>>

(* Mutant of DeleteSession: without the cascade. *)
DeleteSessionKeepsTurns(s) ==
  /\ session[s] = "live"
  /\ session' = [session EXCEPT ![s] = "deleted"]
  /\ UNCHANGED <<turns, index, history, stage, about, replay>>

(* The rows go by ON DELETE CASCADE; nothing deletes from the index. *)
DeleteSession(s) ==
  /\ session[s] = "live"
  /\ session' = [session EXCEPT ![s] = "deleted"]
  /\ turns' = turns \ Of(s)
  /\ UNCHANGED <<index, history, stage, about, replay>>

Notes == {t \in turns : t.kind = "note"}

UpdateNote(t, word) ==
  /\ t \in Notes /\ word # t.word
  /\ turns' = (turns \ {t}) \cup {[t EXCEPT !.word = word]}
  /\ UNCHANGED <<session, index, history, stage, about, replay>>

DeleteNote(t) ==
  /\ t \in Notes
  /\ turns' = turns \ {t}
  /\ UNCHANGED <<session, index, history, stage, about, replay>>

-----------------------------------------------------------------------------
(* Writers. *)

Goto(w, p) == stage' = [stage EXCEPT ![w] = p]

Leave(w) == Goto(w, "idle") /\ about' = [about EXCEPT ![w] = Nowhere]

(* create_note looks the session up ... *)
BeginNote(w, s) ==
  /\ stage[w] = "idle" /\ session[s] = "live"
  /\ Goto(w, "note")
  /\ about' = [about EXCEPT ![w] = s]
  /\ UNCHANGED <<tables, replay>>

(* ... and inserts under another lock. *)
InsertNote(w, word) ==
  /\ stage[w] = "note" /\ Len(history) < MaxTurns
  /\ Insert(about[w], "note", "ok", word)
  /\ Leave(w)
  /\ UNCHANGED replay

(* handle_ws claims the session's slot and looks the session up. *)
BeginAsk(w, s) ==
  /\ stage[w] = "idle" /\ session[s] = "live"
  /\ \A v \in Writers : about[v] = s => stage[v] \notin {"opened", "ask"}
  /\ Goto(w, "opened")
  /\ about' = [about EXCEPT ![w] = s]
  /\ UNCHANGED <<tables, replay>>

(* Of list_turns, the ok questions are kept ... *)
Answers(s) == {t \in Of(s) : t.kind = "question" /\ t.status = "ok"}

(* ... and replayed as many as fit with two messages each beside the current
   question. *)
Replayed(s) ==
  LET asked == InOrder(Answers(s))
      take == IF MaxHistory = 0 THEN 0 ELSE (MaxHistory - 1) \div 2
  IN  SubSeq(asked, IF Len(asked) > take THEN Len(asked) - take + 1 ELSE 1, Len(asked))

(* Mutant of FullTurns: the quota is spent on the oldest first. *)
FullTurnsOldestFirst(list, ids) ==
  LET wanted == {i \in DOMAIN list : i + ReplayFull > Len(list) \/ list[i].born \in ids}
      left[i \in 0..Len(list)] ==
        IF i = 0 THEN ReplayMaxFull
        ELSE IF i \in wanted /\ left[i - 1] > 0 THEN left[i - 1] - 1 ELSE left[i - 1]
  IN  {i \in wanted : left[i - 1] > 0}

(* Which of them carry their tool results: the most recent ones and those the
   client expanded, until the quota is spent, newest first. *)
FullTurns(list, ids) ==
  LET wanted == {i \in DOMAIN list : i + ReplayFull > Len(list) \/ list[i].born \in ids}
      left[i \in 1..(Len(list) + 1)] ==
        IF i > Len(list) THEN ReplayMaxFull
        ELSE IF i \in wanted /\ left[i + 1] > 0 THEN left[i + 1] - 1 ELSE left[i + 1]
  IN  {i \in wanted : left[i + 1] > 0}

(* build_history_messages with the client's context_turn_ids, which may be
   anybody's.  (The traces of each turn are read after the list; they change
   no more, unless the session is deleted.) *)
ReadHistory(w, ids) ==
  /\ stage[w] = "opened"
  /\ LET list == Replayed(about[w])
         full == FullTurns(list, ids)
     IN  replay' = [replay EXCEPT ![w] =
           [at |-> Len(history), ids |-> ids \cap {list[i].born : i \in DOMAIN list},
            turns |-> [i \in DOMAIN list |-> [id |-> list[i].born, full |-> i \in full]]]]
  /\ Goto(w, "ask")
  /\ UNCHANGED <<tables, about>>

(* persist: the turn ends ok, or with an error or a cancellation. *)
InsertTurn(w, status, word) ==
  /\ stage[w] = "ask" /\ Len(history) < MaxTurns
  /\ Insert(about[w], "question", status, word)
  /\ Leave(w)
  /\ replay' = [replay EXCEPT ![w] = NoReplay]

(* The daemon restarts: writers are lost, tables stay. *)
Restart ==
  /\ stage' = [w \in Writers |-> "idle"]
  /\ about' = [w \in Writers |-> Nowhere]
  /\ replay' = [w \in Writers |-> NoReplay]
  /\ UNCHANGED tables

Next ==
  \/ \E s \in Sessions : UpsertSession(s) \/ DeleteSession(s)
  \/ \E t \in turns : DeleteNote(t) \/ \E x \in Words : UpdateNote(t, x)
  \/ \E w \in Writers :
       \/ \E s \in Sessions : BeginNote(w, s) \/ BeginAsk(w, s)
       \/ \E n \in 0..MaxExpanded : \E ids \in kSubset(n, 1..Len(history)) : ReadHistory(w, ids)
       \/ \E x \in Words : InsertNote(w, x) \/ \E k \in Statuses : InsertTurn(w, k, x)
  \/ Restart

Spec == Init /\ [][Next]_vars

-----------------------------------------------------------------------------
(* Properties. *)

TypeOK ==
  /\ session \in [Sessions -> {"new", "live", "deleted"}]
  /\ turns \subseteq Turns
  /\ index \subseteq (1..MaxTurns) \X Words
  /\ stage \in [Writers -> {"idle", "note", "opened", "ask"}]
  /\ about \in [Writers -> Sessions \cup {Nowhere}]
  /\ history \in Seq([session : Sessions, kind : Kinds, status : Statuses])

Entry(t) == [kind |-> t.kind, status |-> t.status, word |-> t.word]

(* The rows of a session, by ordinal, are its log. *)
Log(s) == LET list == ListTurns(s) IN [i \in DOMAIN list |-> Entry(list[i])]

Promise == INSTANCE Conversation WITH
  Entries <- [kind : Kinds, status : Statuses, word : Words],
  IsNote <- LAMBDA e : e.kind = "note",
  live <- {s \in Sessions : session[s] = "live"},
  log <- [s \in Sessions |-> Log(s)]

(* A session's list of turns is in the order of commitment, although ordinals
   and rowids of removed notes are given out again, and no row of a session
   appears once it is deleted, although writers looked it up before. *)
ImplementsConversation == Promise!Spec

Full(found) == Cardinality(found) = SearchLimit

(* What was asked is found by what it is about, by the agent and by the popup,
   unless the answer is full without it: no reuse of a rowid, no edit and no
   deletion of another turn takes its posting away. *)
EveryAnswerIsFound ==
  \A t \in turns : t.kind = "question" =>
    \A found \in SearchTurns(t.session, t.word) \cup SearchGlobal(t.word) :
      t \in found \/ Full(found)

(* The positions an ask must have replayed in full: of the wanted ones, those
   with fewer than the quota after them. *)
Newest(list, ids) ==
  LET wanted == {i \in DOMAIN list : i + ReplayFull > Len(list) \/ list[i].id \in ids}
  IN  {i \in wanted : Cardinality({k \in wanted : k > i}) < ReplayMaxFull}

(* Which of the first turns ever committed are answered questions of a session. *)
Answered(s, at) ==
  {b \in 1..at : history[b].session = s /\ history[b].kind = "question" /\ history[b].status = "ok"}

(* An ask is given the newest questions of its own session that were answered
   before it read them, oldest first and none left out between them, within
   the message limit; and tool results of the newest wanted ones only. *)
ReplayKeepsNewest ==
  \A w \in Writers : stage[w] = "ask" =>
    LET r == replay[w]
        answered == Answered(about[w], r.at)
        given == {r.turns[i].id : i \in DOMAIN r.turns}
    IN  /\ given \subseteq answered
        /\ \A i, k \in DOMAIN r.turns : i < k => r.turns[i].id < r.turns[k].id
        /\ \A b \in answered, c \in given : b > c => b \in given
        /\ 2 * Len(r.turns) < MaxHistory \/ r.turns = <<>>
        /\ {i \in DOMAIN r.turns : r.turns[i].full} = Newest(r.turns, r.ids)
        /\ session[about[w]] = "live"
             => given = answered \/ 2 * (Len(r.turns) + 1) >= MaxHistory

=============================================================================

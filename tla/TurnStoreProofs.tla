-------------------------- MODULE TurnStoreProofs --------------------------
(* What TurnStore keeps for any sessions, writers, words and limits: every
   question can be found, and a session is a conversation. *)
EXTENDS TurnStore, FiniteSetTheorems, SequenceTheorems, WellFoundedInduction, TLAPS

-----------------------------------------------------------------------------
(* Numbers and sequences. *)

LEMMA LeastNatural ==
  ASSUME NEW T, T \subseteq Nat, T # {}
  PROVE  \E x \in T : \A y \in T : x <= y
<1>1. PICK R : R = OpToRel(<, Nat)
  OBVIOUS
<1>2. IsWellFoundedOn(R, Nat)
  BY <1>1, NatLessThanWellFounded, Zenon
<1>3. \E x \in T : \A y \in T : ~(<<y, x>> \in R)
  BY <1>2, WFMin
<1>4. \A x, y \in Nat : <<y, x>> \in R <=> y < x
  BY <1>1 DEF OpToRel
<1>5. \A x, y \in T : ~(<<y, x>> \in R) => x <= y
  <2>1. \A x, y \in Nat : ~(y < x) => x <= y
    OBVIOUS
  <2> QED BY <1>4, <2>1
<1> QED BY <1>3, <1>5

LEMMA MaxIs ==
  ASSUME NEW T, T \subseteq Nat, T # {}, NEW b \in Nat, \A x \in T : x <= b
  PROVE  Max(T) \in T /\ \A x \in T : x <= Max(T)
<1> DEFINE D == {b - x : x \in T}
<1>1. D \subseteq Nat /\ D # {}
  <2>1. \A x \in T : x \in Nat /\ b - x \in Nat
    OBVIOUS
  <2> QED BY <2>1
<1>2. PICK d \in D : \A e \in D : d <= e
  BY <1>1, LeastNatural
<1>3. PICK m \in T : d = b - m
  OBVIOUS
<1>4. \A x \in T : m >= x
  BY <1>2, <1>3, SMTT(30)
<1> QED BY <1>4 DEF Max

(* A function that lists S by ordinal. *)
Sorted(list, n, S) ==
  /\ list \in [1..n -> S]
  /\ \A i, k \in 1..n : i < k => list[i].ordinal < list[k].ordinal

Lists(list, n, S) == Sorted(list, n, S) /\ \A t \in S : \E i \in 1..n : list[i] = t

HasOrdinals(S) == \A t \in S : t.ordinal \in Nat

LEMMA SortedInjects ==
  ASSUME NEW S, HasOrdinals(S), NEW n \in Nat, NEW f, Sorted(f, n, S)
  PROVE  \A i, k \in 1..n : f[i] = f[k] => i = k
BY DEF Sorted, HasOrdinals

LEMMA ListsAll ==
  ASSUME NEW S, HasOrdinals(S), NEW n \in Nat, NEW f, Lists(f, n, S)
  PROVE  IsFiniteSet(S) /\ Cardinality(S) = n
<1>1. f \in Surjection(1..n, S)
  BY DEF Lists, Sorted, Surjection
<1>2. f \in Injection(1..n, S)
  BY SortedInjects DEF Lists, Sorted, Injection, IsInjective
<1>3. IsFiniteSet(1..n) /\ Cardinality(1..n) = n
  BY FS_Interval
<1> QED BY <1>1, <1>2, <1>3, FS_Surjection

LEMMA SortedListsAll ==
  ASSUME NEW S, HasOrdinals(S), IsFiniteSet(S), NEW n \in Nat, Cardinality(S) = n,
         NEW f, Sorted(f, n, S)
  PROVE  Lists(f, n, S)
<1>1. f \in Injection(1..n, S)
  BY SortedInjects DEF Sorted, Injection, IsInjective
<1>2. IsFiniteSet(1..n) /\ Cardinality(1..n) = n
  BY FS_Interval
<1>3. f \in Surjection(1..n, S)
  BY <1>1, <1>2, FS_Injection
<1> QED BY <1>3 DEF Lists, Sorted, Surjection

(* There is one way to do it. *)
LEMMA OneOrder ==
  ASSUME NEW S, HasOrdinals(S), NEW n \in Nat,
         NEW f, Lists(f, n, S), NEW g, Lists(g, n, S)
  PROVE  f = g
<1>1. f \in [1..n -> S] /\ g \in [1..n -> S]
  BY DEF Lists, Sorted
<1>2. ASSUME NEW i \in 1..n, f[i] # g[i], \A j \in 1..n : f[j] # g[j] => i <= j
      PROVE  FALSE
  <2>1. PICK j \in 1..n : g[j] = f[i]
    BY <1>1 DEF Lists
  <2>2. PICK k \in 1..n : f[k] = g[i]
    BY <1>1 DEF Lists
  <2>3. j # i /\ k # i
    BY <1>2, <2>1, <2>2
  <2>4. ~(j < i)
    <3>1. j < i => g[j] = f[j]
      BY <1>2
    <3> QED BY <2>1, <2>3, <3>1, SortedInjects DEF Lists
  <2>5. ~(k < i)
    <3>1. k < i => g[k] = f[k]
      BY <1>2
    <3> QED BY <2>2, <2>3, <3>1, SortedInjects DEF Lists
  <2>6. i < j /\ i < k
    BY <2>3, <2>4, <2>5
  <2>7. g[i].ordinal < f[i].ordinal
    BY <2>1, <2>6 DEF Lists, Sorted
  <2>8. f[i].ordinal < g[i].ordinal
    BY <2>2, <2>6 DEF Lists, Sorted
  <2> QED BY <1>1, <2>7, <2>8 DEF HasOrdinals
<1>3. ASSUME f # g PROVE FALSE
  <2> DEFINE Bad == {i \in 1..n : f[i] # g[i]}
  <2>1. Bad # {} /\ Bad \subseteq Nat
    BY <1>1, <1>3
  <2>2. PICK i \in Bad : \A j \in Bad : i <= j
    BY <2>1, LeastNatural
  <2> QED BY <1>2, <2>2
<1> QED BY <1>3

(* So a listing of a session's turns is what list_turns answers. *)
LEMMA InOrderIs ==
  ASSUME NEW S, HasOrdinals(S), NEW n \in Nat, NEW f, Lists(f, n, S)
  PROVE  InOrder(S) = f
<1>1. IsFiniteSet(S) /\ Cardinality(S) = n
  BY ListsAll
<1>2. \E g \in [1..n -> S] : \A i, k \in DOMAIN g : i < k => g[i].ordinal < g[k].ordinal
  BY DEF Lists, Sorted
<1>3. Sorted(InOrder(S), n, S)
  BY <1>1, <1>2 DEF InOrder, Sorted
<1>4. Lists(InOrder(S), n, S)
  BY <1>1, <1>3, SortedListsAll
<1> QED BY <1>4, OneOrder

-----------------------------------------------------------------------------
(* What the statements do to a listing. *)

LEMMA ListsAppended ==
  ASSUME NEW S, NEW n \in Nat, NEW f, Lists(f, n, S),
         NEW t, \A u \in S : u.ordinal < t.ordinal
  PROVE  Append(f, t) \in Seq(S \cup {t}) /\ Lists(Append(f, t), n + 1, S \cup {t})
<1>1. f \in Seq(S \cup {t}) /\ Len(f) = n
  BY DEF Lists, Sorted
<1> DEFINE g == Append(f, t)
<1>2. /\ g \in Seq(S \cup {t}) /\ Len(g) = n + 1
      /\ \A i \in 1..n : g[i] = f[i]
      /\ g[n + 1] = t
  BY <1>1, AppendProperties
<1> HIDE DEF g
<1>3. g \in [1 .. n + 1 -> S \cup {t}]
  BY <1>2, LenProperties
<1>4. ASSUME NEW i \in 1 .. n + 1, NEW k \in 1 .. n + 1, i < k
      PROVE  g[i].ordinal < g[k].ordinal
  <2>1. CASE k = n + 1
    BY <1>2, <1>4, <2>1 DEF Lists, Sorted
  <2>2. CASE k # n + 1
    BY <1>2, <1>4, <2>2 DEF Lists, Sorted
  <2> QED BY <2>1, <2>2
<1>5. ASSUME NEW u \in S \cup {t} PROVE \E i \in 1 .. n + 1 : g[i] = u
  <2>1. CASE u = t
    BY <1>2, <2>1
  <2>2. CASE u \in S
    <3>1. PICK i \in 1..n : f[i] = u
      BY <2>2 DEF Lists
    <3> QED BY <1>2, <3>1
  <2> QED BY <2>1, <2>2
<1>6. Lists(g, n + 1, S \cup {t})
  BY <1>3, <1>4, <1>5 DEF Lists, Sorted
<1> QED BY <1>2, <1>6 DEF g

LEMMA ListsReplaced ==
  ASSUME NEW S, HasOrdinals(S), NEW n \in Nat, NEW f, Lists(f, n, S),
         NEW i \in 1..n, NEW u, u.ordinal = f[i].ordinal
  PROVE  Lists([f EXCEPT ![i] = u], n, (S \ {f[i]}) \cup {u})
<1> DEFINE g == [f EXCEPT ![i] = u]
           T == (S \ {f[i]}) \cup {u}
<1>1. f \in [1..n -> S]
  BY DEF Lists, Sorted
<1>2. /\ DOMAIN g = 1..n /\ g = [k \in 1..n |-> g[k]]
      /\ g[i] = u
      /\ \A k \in 1..n : k # i => g[k] = f[k]
  BY <1>1
<1>3. \A k \in 1..n : k # i => f[k] # f[i]
  BY SortedInjects DEF Lists
<1> HIDE DEF g
<1>4. g \in [1..n -> T]
  BY <1>1, <1>2, <1>3
<1>5. \A k \in 1..n : g[k].ordinal = f[k].ordinal
  BY <1>2
<1>6. \A t \in T : \E k \in 1..n : g[k] = t
  BY <1>2 DEF Lists
<1>7. Sorted(g, n, T)
  BY <1>4, <1>5 DEF Lists, Sorted
<1>8. Lists(g, n, T)
  BY <1>6, <1>7 DEF Lists
<1> QED BY <1>8 DEF g

(* What RemoveAt leaves. *)
LEMMA RemoveAtIs ==
  ASSUME NEW S, NEW f \in Seq(S), NEW i \in 1 .. Len(f)
  PROVE  /\ RemoveAt(f, i) \in Seq(S)
         /\ Len(RemoveAt(f, i)) = Len(f) - 1
         /\ \A k \in 1 .. (Len(f) - 1) :
              RemoveAt(f, i)[k] = IF k < i THEN f[k] ELSE f[k + 1]
<1> DEFINE a == SubSeq(f, 1, i - 1)
           b == SubSeq(f, i + 1, Len(f))
<1>1. Len(f) \in Nat
  BY LenProperties
<1>2. /\ a \in Seq(S) /\ Len(a) = i - 1
      /\ \A k \in 1 .. (i - 1) : a[k] = f[k]
  BY <1>1
<1>3. /\ b \in Seq(S) /\ Len(b) = Len(f) - i
      /\ \A k \in 1 .. (Len(f) - i) : b[k] = f[i + k]
  BY <1>1
<1>4. RemoveAt(f, i) = a \o b
  BY DEF RemoveAt
<1> HIDE DEF a, b
<1>5. /\ a \o b \in Seq(S) /\ Len(a \o b) = Len(a) + Len(b)
      /\ \A k \in 1 .. (Len(a) + Len(b)) :
           (a \o b)[k] = IF k <= Len(a) THEN a[k] ELSE b[k - Len(a)]
  BY <1>2, <1>3, ConcatProperties
<1> QED BY <1>1, <1>2, <1>3, <1>4, <1>5

LEMMA ListsRemoved ==
  ASSUME NEW S, HasOrdinals(S), NEW n \in Nat, NEW f, Lists(f, n, S), NEW i \in 1..n
  PROVE  Lists(RemoveAt(f, i), n - 1, S \ {f[i]})
<1> DEFINE g == RemoveAt(f, i)
           T == S \ {f[i]}
<1>1. f \in [1..n -> S] /\ f \in Seq(S) /\ Len(f) = n
  BY DEF Lists, Sorted
<1>2. /\ g \in Seq(S) /\ Len(g) = n - 1
      /\ \A k \in 1 .. (n - 1) : g[k] = IF k < i THEN f[k] ELSE f[k + 1]
  BY <1>1, RemoveAtIs
<1>3. \A k \in 1..n : k # i => f[k] # f[i]
  BY SortedInjects DEF Lists
<1>4. DOMAIN g = 1 .. (n - 1) /\ g = [k \in 1 .. (n - 1) |-> g[k]]
  BY <1>2
<1> HIDE DEF g
<1>5. \A k \in 1 .. (n - 1) : g[k] \in T
  BY <1>1, <1>2, <1>3
<1>6. g \in [1 .. (n - 1) -> T]
  BY <1>4, <1>5
<1>7. \A j, k \in 1 .. (n - 1) : j < k => g[j].ordinal < g[k].ordinal
  <2> SUFFICES ASSUME NEW j \in 1 .. (n - 1), NEW k \in 1 .. (n - 1), j < k
               PROVE  g[j].ordinal < g[k].ordinal
    OBVIOUS
  <2>1. PICK a \in 1..n : g[j] = f[a] /\ a = IF j < i THEN j ELSE j + 1
    BY <1>2
  <2>2. PICK c \in 1..n : g[k] = f[c] /\ c = IF k < i THEN k ELSE k + 1
    BY <1>2
  <2>3. a < c
    BY <2>1, <2>2
  <2> QED BY <2>1, <2>2, <2>3 DEF Lists, Sorted
<1>8. ASSUME NEW t \in T PROVE \E k \in 1 .. (n - 1) : g[k] = t
  <2>1. PICK k \in 1..n : f[k] = t
    BY DEF Lists
  <2>2. CASE k < i
    <3>1. k \in 1 .. (n - 1) /\ g[k] = f[k]
      BY <1>2, <2>2
    <3> QED BY <2>1, <3>1
  <2>3. CASE k > i
    <3>1. k - 1 \in 1 .. (n - 1) /\ g[k - 1] = f[k]
      BY <1>2, <2>3
    <3> QED BY <2>1, <3>1
  <2> QED BY <2>1, <2>2, <2>3
<1>9. Lists(g, n - 1, T)
  BY <1>6, <1>7, <1>8 DEF Lists, Sorted
<1> QED BY <1>9 DEF g

-----------------------------------------------------------------------------
(* The entries of a listing. *)
Entries == [kind : Kinds, status : Statuses, word : Words]

EntriesOf(f) == [i \in DOMAIN f |-> Entry(f[i])]

LEMMA EntriesOfIs ==
  ASSUME NEW S, NEW f \in Seq(S)
  PROVE  /\ EntriesOf(f) \in Seq({Entry(t) : t \in S})
         /\ Len(EntriesOf(f)) = Len(f)
         /\ \A i \in 1 .. Len(f) : EntriesOf(f)[i] = Entry(f[i])
<1>1. Len(f) \in Nat /\ DOMAIN f = 1 .. Len(f) /\ \A i \in 1 .. Len(f) : f[i] \in S
  OBVIOUS
<1> DEFINE E == {Entry(t) : t \in S}
           g == EntriesOf(f)
<1>2. g = [i \in 1 .. Len(f) |-> Entry(f[i])]
  BY <1>1 DEF EntriesOf
<1>3. \A i \in 1 .. Len(f) : Entry(f[i]) \in E
  BY <1>1
<1> HIDE DEF E, g
<1>4. g \in [1 .. Len(f) -> E]
  BY <1>2, <1>3
<1>5. g \in Seq(E) /\ Len(g) = Len(f)
  BY <1>1, <1>4
<1> QED BY <1>2, <1>5 DEF E, g

LEMMA EntriesAppended ==
  ASSUME NEW S, NEW f \in Seq(S), NEW t
  PROVE  EntriesOf(Append(f, t)) = Append(EntriesOf(f), Entry(t))
<1> DEFINE X == S \cup {t}
           E == {Entry(x) : x \in X}
<1>1. f \in Seq(X) /\ Len(f) \in Nat
  OBVIOUS
<1>2. /\ Append(f, t) \in Seq(X) /\ Len(Append(f, t)) = Len(f) + 1
      /\ \A i \in 1 .. Len(f) : Append(f, t)[i] = f[i]
      /\ Append(f, t)[Len(f) + 1] = t
  BY <1>1, AppendProperties
<1>3. /\ EntriesOf(f) \in Seq(E) /\ Len(EntriesOf(f)) = Len(f)
      /\ \A i \in 1 .. Len(f) : EntriesOf(f)[i] = Entry(f[i])
  BY <1>1, EntriesOfIs
<1> DEFINE a == EntriesOf(Append(f, t))
           b == Append(EntriesOf(f), Entry(t))
<1>4. /\ a \in Seq(E) /\ Len(a) = Len(f) + 1
      /\ \A i \in 1 .. (Len(f) + 1) : a[i] = Entry(Append(f, t)[i])
  BY <1>2, EntriesOfIs
<1>5. Entry(t) \in E
  OBVIOUS
<1> HIDE DEF E
<1>6. /\ b \in Seq(E) /\ Len(b) = Len(f) + 1
      /\ \A i \in 1 .. Len(f) : b[i] = EntriesOf(f)[i]
      /\ b[Len(f) + 1] = Entry(t)
  BY <1>3, <1>5, AppendProperties
<1> HIDE DEF a, b
<1>7. ASSUME NEW i \in 1 .. Len(a) PROVE a[i] = b[i]
  BY <1>1, <1>2, <1>3, <1>4, <1>6
<1>8. a = b
  BY <1>4, <1>6, <1>7, SeqEqual
<1> QED BY <1>8 DEF a, b

LEMMA EntriesReplaced ==
  ASSUME NEW S, NEW f \in Seq(S), NEW i \in 1 .. Len(f), NEW u
  PROVE  EntriesOf([f EXCEPT ![i] = u]) = [EntriesOf(f) EXCEPT ![i] = Entry(u)]
<1>1. DOMAIN f = 1 .. Len(f)
  OBVIOUS
<1> QED BY <1>1 DEF EntriesOf

LEMMA EntriesRemoved ==
  ASSUME NEW S, NEW f \in Seq(S), NEW i \in 1 .. Len(f)
  PROVE  EntriesOf(RemoveAt(f, i)) = RemoveAt(EntriesOf(f), i)
<1> DEFINE E == {Entry(x) : x \in S}
           a == EntriesOf(RemoveAt(f, i))
           b == RemoveAt(EntriesOf(f), i)
<1>1. Len(f) \in Nat
  OBVIOUS
<1>2. /\ RemoveAt(f, i) \in Seq(S) /\ Len(RemoveAt(f, i)) = Len(f) - 1
      /\ \A k \in 1 .. (Len(f) - 1) :
           RemoveAt(f, i)[k] = IF k < i THEN f[k] ELSE f[k + 1]
  BY RemoveAtIs
<1>3. /\ EntriesOf(f) \in Seq(E) /\ Len(EntriesOf(f)) = Len(f)
      /\ \A k \in 1 .. Len(f) : EntriesOf(f)[k] = Entry(f[k])
  BY EntriesOfIs
<1>4. /\ a \in Seq(E) /\ Len(a) = Len(f) - 1
      /\ \A k \in 1 .. (Len(f) - 1) : a[k] = Entry(RemoveAt(f, i)[k])
  BY <1>2, EntriesOfIs
<1> HIDE DEF E
<1>5. /\ b \in Seq(E) /\ Len(b) = Len(f) - 1
      /\ \A k \in 1 .. (Len(f) - 1) :
           b[k] = IF k < i THEN EntriesOf(f)[k] ELSE EntriesOf(f)[k + 1]
  BY <1>3, RemoveAtIs
<1> HIDE DEF a, b
<1>6. ASSUME NEW k \in 1 .. Len(a) PROVE a[k] = b[k]
  <2>1. k \in 1 .. (Len(f) - 1) /\ k \in 1 .. Len(f) /\ k + 1 \in 1 .. Len(f)
    BY <1>1, <1>4
  <2> QED BY <1>2, <1>3, <1>4, <1>5, <2>1
<1>7. a = b
  BY <1>4, <1>5, <1>6, SeqEqual
<1> QED BY <1>7 DEF a, b

-----------------------------------------------------------------------------
(* The inductive invariant. *)

(* Rowids and ordinals are never ahead of the number of turns committed. *)
RowsAreCounted ==
  \A t \in turns : t.rowid <= Len(history) /\ t.ordinal <= Len(history)

WritersKnowTheirs == \A w \in Writers : stage[w] # "idle" => about[w] \in Sessions

RowsAreOfLive == \A t \in turns : session[t.session] = "live"

(* The turns of a session are a list by their ordinals: no two share one. *)
Listed(s) == ListTurns(s) \in Seq(Of(s)) /\ Lists(ListTurns(s), Len(ListTurns(s)), Of(s))

TurnsAreListed == \A s \in Sessions : Listed(s)

QuestionsPosted == \A t \in turns : t.kind = "question" => Posting(t) \in index

Inv ==
  /\ TypeOK
  /\ RowsAreCounted
  /\ WritersKnowTheirs
  /\ RowsAreOfLive
  /\ TurnsAreListed
  /\ QuestionsPosted

LEMMA TurnTypes ==
  ASSUME TypeOK
  PROVE  /\ \A t \in turns : t.rowid \in 1..MaxTurns /\ t.ordinal \in 1..MaxTurns
         /\ \A t \in turns : t.rowid \in Nat /\ t.ordinal \in Nat
         /\ \A t \in turns : t.session \in Sessions /\ Entry(t) \in Entries
         /\ \A s : HasOrdinals(Of(s))
         /\ Len(history) \in Nat
         /\ MaxTurns \in Nat
<1>1. MaxTurns \in Nat
  BY StoreBounds
<1> QED BY <1>1 DEF TypeOK, Turns, Of, HasOrdinals, Entry, Entries

LEMMA PostedIsFound ==
  QuestionsPosted => EveryAnswerIsFound
<1> SUFFICES ASSUME QuestionsPosted, NEW t \in turns, t.kind = "question",
                    NEW found \in SearchTurns(t.session, t.word) \cup SearchGlobal(t.word)
             PROVE  t \in found \/ Full(found)
  BY DEF EveryAnswerIsFound
<1>1. t \in Hits(Of(t.session), t.word) /\ t \in Hits(turns, t.word)
  BY DEF QuestionsPosted, Posting, Hits, Of
<1> QED BY <1>1 DEF SearchTurns, SearchGlobal, Limited, Full

(* A listing, if there is one, is what list_turns answers. *)
LEMMA Listing ==
  ASSUME NEW S, HasOrdinals(S), NEW f \in Seq(S), Lists(f, Len(f), S)
  PROVE  InOrder(S) = f
<1>1. Len(f) \in Nat
  OBVIOUS
<1> QED BY <1>1, InOrderIs

(* Sessions whose rows stay keep their list. *)
LEMMA OthersStay ==
  ASSUME NEW r \in Sessions, TurnsAreListed, Of(r)' = Of(r)
  PROVE  /\ ListTurns(r)' = ListTurns(r)
         /\ Listed(r)'
<1>1. ListTurns(r)' = ListTurns(r)
  BY DEF ListTurns
<1> QED BY <1>1 DEF TurnsAreListed, Listed

LEMMA RowsStay ==
  ASSUME TurnsAreListed, UNCHANGED turns
  PROVE  TurnsAreListed'
<1>1. \A r \in Sessions : Of(r)' = Of(r)
  BY DEF Of
<1> QED BY <1>1, OthersStay DEF TurnsAreListed

(* A turn is added at the end of a session's list. *)
Appends(s, t) ==
  /\ t.session = s
  /\ t.rowid <= Len(history) + 1 /\ t.ordinal <= Len(history) + 1
  /\ t.born = Len(history) + 1 /\ \A u \in Of(s) : u.ordinal < t.ordinal
  /\ history' = Append(history, [session |-> s, kind |-> t.kind, status |-> t.status])
  /\ turns' = turns \cup {t} /\ index' = index \cup {Posting(t)}
  /\ ListTurns(s)' = Append(ListTurns(s), t) /\ Listed(s)'
  /\ \A r \in Sessions \ {s} : Of(r)' = Of(r)

LEMMA InsertAppends ==
  ASSUME Inv, NEW s \in Sessions, NEW kind \in Kinds, NEW status \in Statuses,
         NEW word \in Words, Len(history) < MaxTurns,
         session[s] = "live", Insert(s, kind, status, word)
  PROVE  \E t \in Turns : Appends(s, t)
<1> DEFINE t == [rowid |-> NextRowid, ordinal |-> NextOrdinal(s), session |-> s, kind |-> kind,
                 status |-> status, word |-> word, born |-> Len(history) + 1]
           rowids == {0} \cup {u.rowid : u \in turns}
           ordinals == {0} \cup {u.ordinal : u \in Of(s)}
<1>1. /\ turns' = turns \cup {t} /\ index' = index \cup {Posting(t)}
  BY DEF Insert
<1>2. TypeOK
  BY DEF Inv
<1>3. rowids \subseteq Nat /\ rowids # {} /\ \A x \in rowids : x <= Len(history)
  BY <1>2, TurnTypes DEF Inv, RowsAreCounted
<1>4. Max(rowids) \in rowids
  BY <1>2, <1>3, TurnTypes, MaxIs
<1>5. ordinals \subseteq Nat /\ ordinals # {} /\ \A x \in ordinals : x <= Len(history)
  BY <1>2, TurnTypes DEF Inv, RowsAreCounted, Of
<1>6. Max(ordinals) \in ordinals /\ \A x \in ordinals : x <= Max(ordinals)
  BY <1>2, <1>5, TurnTypes, MaxIs
<1>7. Max(rowids) \in 0 .. Len(history) /\ Max(ordinals) \in 0 .. Len(history)
  BY <1>2, <1>3, <1>4, <1>5, <1>6, TurnTypes
<1>8. NextRowid = 1 + Max(rowids) /\ NextOrdinal(s) = 1 + Max(ordinals)
  BY DEF NextRowid, NextOrdinal
<1>9. /\ NextRowid \in 1..MaxTurns /\ NextOrdinal(s) \in 1..MaxTurns
      /\ Len(history) + 1 \in 1..MaxTurns
      /\ NextRowid <= Len(history) + 1 /\ NextOrdinal(s) <= Len(history) + 1
  <2> HIDE DEF rowids, ordinals
  <2> QED BY <1>2, <1>7, <1>8, TurnTypes
<1>10. t \in Turns
  BY <1>9 DEF Turns
<1>11. \A u \in Of(s) : u.ordinal < t.ordinal
  <2>1. \A u \in Of(s) : u.ordinal \in ordinals
    OBVIOUS
  <2>2. t.ordinal = 1 + Max(ordinals)
    BY <1>8
  <2> HIDE DEF ordinals, t
  <2>3. Max(ordinals) \in Nat
    BY <1>5, <1>6
  <2>4. ASSUME NEW u \in Of(s) PROVE u.ordinal < t.ordinal
    <3>1. u.ordinal \in Nat /\ u.ordinal <= Max(ordinals)
      BY <1>5, <1>6, <2>1
    <3> QED BY <2>2, <2>3, <3>1
  <2> QED BY <2>4
<1>12. Of(s)' = Of(s) \cup {t} /\ \A r \in Sessions \ {s} : Of(r)' = Of(r)
  BY <1>1 DEF Of
<1>13. t.ordinal \in Nat
  BY <1>9
<1>14. HasOrdinals(Of(s)')
  BY <1>2, <1>12, <1>13, TurnTypes DEF HasOrdinals
<1> DEFINE f == ListTurns(s)
<1>15. f \in Seq(Of(s)) /\ Lists(f, Len(f), Of(s)) /\ Len(f) \in Nat
  BY DEF Inv, TurnsAreListed, Listed
<1> HIDE DEF t, f
<1>16. /\ Append(f, t) \in Seq(Of(s)') /\ Len(Append(f, t)) = Len(f) + 1
       /\ Lists(Append(f, t), Len(f) + 1, Of(s)')
  <2>1. /\ Append(f, t) \in Seq(Of(s) \cup {t})
        /\ Lists(Append(f, t), Len(f) + 1, Of(s) \cup {t})
    BY <1>11, <1>15, ListsAppended
  <2>2. Len(Append(f, t)) = Len(f) + 1
    BY <1>15, AppendProperties
  <2> QED BY <1>12, <2>1, <2>2
<1>17. ListTurns(s)' = InOrder(Of(s)')
  BY DEF ListTurns, InOrder
<1>18. ListTurns(s)' = Append(f, t)
  BY <1>14, <1>16, <1>17, Listing
<1>19. /\ t.session = s /\ t.rowid <= Len(history) + 1 /\ t.ordinal <= Len(history) + 1
       /\ t.born = Len(history) + 1
       /\ history' = Append(history, [session |-> s, kind |-> t.kind, status |-> t.status])
  BY <1>9 DEF t, Insert
<1>20. Listed(s)'
  BY <1>16, <1>18 DEF Listed
<1> QED BY <1>1, <1>10, <1>11, <1>12, <1>18, <1>19, <1>20 DEF f, Appends

LEMMA UpdateReplaces ==
  ASSUME Inv, NEW t \in turns, NEW x \in Words, UpdateNote(t, x)
  PROVE  /\ [t EXCEPT !.word = x] \in Turns
         /\ \A r \in Sessions \ {t.session} : Of(r)' = Of(r)
         /\ \E i \in 1 .. Len(ListTurns(t.session)) :
              /\ ListTurns(t.session)[i] = t
              /\ ListTurns(t.session)' =
                   [ListTurns(t.session) EXCEPT ![i] = [t EXCEPT !.word = x]]
         /\ Listed(t.session)'
<1> DEFINE s == t.session
           u == [t EXCEPT !.word = x]
           f == ListTurns(s)
<1>1. TypeOK /\ t \in Turns /\ s \in Sessions
  BY DEF Inv, TypeOK, Turns
<1>2. /\ u \in Turns /\ u.session = s /\ u.ordinal = t.ordinal
  BY <1>1 DEF Turns
<1>3. turns' = (turns \ {t}) \cup {u}
  BY DEF UpdateNote
<1> HIDE DEF u
<1>4. /\ Of(s)' = (Of(s) \ {t}) \cup {u}
      /\ \A r \in Sessions \ {s} : Of(r)' = Of(r)
      /\ t \in Of(s)
  BY <1>2, <1>3 DEF Of
<1>5. f \in Seq(Of(s)) /\ Lists(f, Len(f), Of(s)) /\ Len(f) \in Nat
  BY <1>1 DEF Inv, TurnsAreListed, Listed
<1> HIDE DEF f
<1>6. HasOrdinals(Of(s)) /\ HasOrdinals(Of(s)')
  BY <1>1, <1>2, <1>4, TurnTypes DEF HasOrdinals
<1>7. PICK i \in 1 .. Len(f) : f[i] = t
  BY <1>4, <1>5 DEF Lists
<1> DEFINE g == [f EXCEPT ![i] = u]
<1>8. Lists(g, Len(f), Of(s)')
  BY <1>2, <1>4, <1>5, <1>6, <1>7, ListsReplaced
<1>9. g \in Seq(Of(s)') /\ Len(g) = Len(f)
  <2> HIDE DEF g
  <2>1. g \in [1 .. Len(f) -> Of(s)']
    BY <1>8 DEF Lists, Sorted
  <2> QED BY <1>5, <2>1
<1>10. ListTurns(s)' = InOrder(Of(s)')
  BY <1>1, <1>4 DEF ListTurns, InOrder
<1>11. ListTurns(s)' = g
  BY <1>6, <1>8, <1>9, <1>10, Listing
<1>12. Listed(s)'
  BY <1>8, <1>9, <1>11 DEF Listed
<1> QED BY <1>2, <1>4, <1>7, <1>11, <1>12 DEF f, u

LEMMA DeleteRemoves ==
  ASSUME Inv, NEW t \in turns, DeleteNote(t)
  PROVE  /\ \A r \in Sessions \ {t.session} : Of(r)' = Of(r)
         /\ \E i \in 1 .. Len(ListTurns(t.session)) :
              /\ ListTurns(t.session)[i] = t
              /\ ListTurns(t.session)' = RemoveAt(ListTurns(t.session), i)
         /\ Listed(t.session)'
<1> DEFINE s == t.session
           f == ListTurns(s)
<1>1. TypeOK /\ s \in Sessions
  BY DEF Inv, TypeOK, Turns
<1>2. /\ Of(s)' = Of(s) \ {t}
      /\ \A r \in Sessions \ {s} : Of(r)' = Of(r)
      /\ t \in Of(s)
  BY DEF DeleteNote, Of
<1>3. f \in Seq(Of(s)) /\ Lists(f, Len(f), Of(s)) /\ Len(f) \in Nat
  BY <1>1 DEF Inv, TurnsAreListed, Listed
<1> HIDE DEF f
<1>4. HasOrdinals(Of(s)) /\ HasOrdinals(Of(s)')
  BY <1>1, <1>2, TurnTypes DEF HasOrdinals
<1>5. PICK i \in 1 .. Len(f) : f[i] = t
  BY <1>2, <1>3 DEF Lists
<1> DEFINE g == RemoveAt(f, i)
<1>6. Lists(g, Len(f) - 1, Of(s)')
  BY <1>2, <1>3, <1>4, <1>5, ListsRemoved
<1>7. g \in Seq(Of(s)') /\ Len(g) = Len(f) - 1
  <2>1. Len(g) = Len(f) - 1 /\ Len(f) - 1 \in Nat
    BY <1>3, <1>5, RemoveAtIs
  <2> HIDE DEF g
  <2>2. g \in [1 .. (Len(f) - 1) -> Of(s)']
    BY <1>6 DEF Lists, Sorted
  <2> QED BY <2>1, <2>2
<1> HIDE DEF g
<1>8. ListTurns(s)' = InOrder(Of(s)')
  BY DEF ListTurns, InOrder
<1>9. ListTurns(s)' = g
  BY <1>4, <1>6, <1>7, <1>8, Listing
<1>10. Listed(s)'
  BY <1>6, <1>7, <1>9 DEF Listed
<1> QED BY <1>2, <1>5, <1>9, <1>10 DEF f, g

LEMMA NoRowsNoList ==
  ASSUME NEW s, Of(s)' = {}
  PROVE  /\ ListTurns(s)' = <<>>
         /\ Listed(s)'
<1>1. <<>> \in Seq({}) /\ Len(<<>>) = 0 /\ Lists(<<>>, 0, {}) /\ HasOrdinals({})
  BY DEF Lists, Sorted, HasOrdinals
<1>2. ListTurns(s)' = InOrder(Of(s)')
  BY DEF ListTurns, InOrder
<1>3. ListTurns(s)' = <<>>
  BY <1>1, <1>2, Listing
<1> QED BY <1>1, <1>3 DEF Listed

-----------------------------------------------------------------------------
(* Every step keeps the invariant. *)

LEMMA InitInv == Init => Inv
<1> SUFFICES ASSUME Init PROVE Inv
  OBVIOUS
<1>1. TypeOK
  BY DEF Init, TypeOK
<1>2. RowsAreCounted /\ WritersKnowTheirs /\ RowsAreOfLive /\ QuestionsPosted
  BY DEF Init, RowsAreCounted, WritersKnowTheirs, RowsAreOfLive, QuestionsPosted
<1>3. ASSUME NEW s \in Sessions
      PROVE  Listed(s)
  <2>1. Of(s) = {}
    BY DEF Init, Of
  <2>2. <<>> \in Seq({}) /\ Len(<<>>) = 0 /\ Lists(<<>>, 0, {}) /\ HasOrdinals({})
    BY DEF Lists, Sorted, HasOrdinals
  <2>3. ListTurns(s) = InOrder(Of(s))
    BY DEF ListTurns, InOrder
  <2>4. ListTurns(s) = <<>>
    BY <2>1, <2>2, <2>3, Listing
  <2> QED BY <2>1, <2>2, <2>4 DEF Listed
<1> QED BY <1>1, <1>2, <1>3 DEF Inv, TurnsAreListed, Listed

(* A step that leaves the tables alone. *)
LEMMA TablesStay ==
  ASSUME Inv, UNCHANGED tables,
         (stage \in [Writers -> {"idle", "note", "opened", "ask"}])',
         (about \in [Writers -> Sessions \cup {Nowhere}])', WritersKnowTheirs'
  PROVE  Inv'
<1>1. UNCHANGED <<session, turns, index, history>>
  BY DEF tables
<1>2. TypeOK' /\ RowsAreCounted' /\ RowsAreOfLive'
  BY <1>1 DEF Inv, TypeOK, RowsAreCounted, RowsAreOfLive
<1>3. QuestionsPosted'
  BY <1>1 DEF Inv, QuestionsPosted, Posting
<1>4. TurnsAreListed'
  BY <1>1, RowsStay DEF Inv
<1> QED BY <1>2, <1>3, <1>4 DEF Inv

(* An insertion by a writer that leaves. *)
LEMMA InsertKeeps ==
  ASSUME Inv, NEW w \in Writers, NEW kind \in Kinds, NEW status \in Statuses, NEW word \in Words,
         stage[w] # "idle", Len(history) < MaxTurns,
         Insert(about[w], kind, status, word), Leave(w)
  PROVE  Inv'
<1>1. PICK s \in Sessions : s = about[w]
  BY DEF Inv, WritersKnowTheirs
<1>2. /\ (stage \in [Writers -> {"idle", "note", "opened", "ask"}])'
      /\ (about \in [Writers -> Sessions \cup {Nowhere}])'
      /\ WritersKnowTheirs'
  BY DEF Inv, TypeOK, WritersKnowTheirs, Leave, Goto
<1>3. CASE session[s] # "live"
  <2>1. UNCHANGED tables
    BY <1>1, <1>3 DEF Insert
  <2> QED BY <1>2, <2>1, TablesStay
<1>4. CASE session[s] = "live"
  <2>1. Insert(s, kind, status, word)
    BY <1>1
  <2>2. PICK t \in Turns : Appends(s, t)
    BY <1>4, <2>1, InsertAppends
  <2>3. /\ history' = Append(history, [session |-> s, kind |-> kind, status |-> status])
        /\ session' = session
    BY <1>4, <2>1 DEF Insert
  <2>4. TypeOK /\ Len(history) \in Nat /\ MaxTurns \in Nat
    BY TurnTypes DEF Inv
  <2>5. history' \in Seq([session : Sessions, kind : Kinds, status : Statuses])
        /\ Len(history') = Len(history) + 1
    BY <2>3, <2>4 DEF TypeOK
  <2>6. TypeOK'
    <3>1. Posting(t) \in (1..MaxTurns) \X Words
      BY DEF Turns, Posting
    <3> QED BY <1>2, <2>2, <2>3, <2>4, <2>5, <3>1 DEF TypeOK, Appends
  <2>7. RowsAreCounted'
    <3> SUFFICES ASSUME NEW u \in turns'
                 PROVE  u.rowid <= Len(history) + 1 /\ u.ordinal <= Len(history) + 1
      BY <2>5 DEF RowsAreCounted
    <3>1. CASE u \in turns
      BY <2>4, <3>1, TurnTypes DEF Inv, RowsAreCounted
    <3>2. CASE u = t
      BY <2>2, <3>2 DEF Appends
    <3> QED BY <2>2, <3>1, <3>2 DEF Appends
  <2>8. RowsAreOfLive'
    BY <1>4, <2>2, <2>3 DEF Inv, RowsAreOfLive, Appends
  <2>9. TurnsAreListed'
    BY <2>2, OthersStay DEF Inv, TurnsAreListed, Appends
  <2>10. QuestionsPosted'
    BY <2>2 DEF Inv, Appends, QuestionsPosted, Posting
  <2> QED BY <1>2, <2>6, <2>7, <2>8, <2>9, <2>10 DEF Inv
<1> QED BY <1>3, <1>4

LEMMA NextInv == Inv /\ [Next]_vars => Inv'
<1> SUFFICES ASSUME Inv, [Next]_vars PROVE Inv'
  OBVIOUS
<1> DEFINE WriterTypes == /\ stage \in [Writers -> {"idle", "note", "opened", "ask"}]
                          /\ about \in [Writers -> Sessions \cup {Nowhere}]
                          /\ WritersKnowTheirs
<1>1. TypeOK /\ WriterTypes
  BY DEF Inv, TypeOK
<1>2. ASSUME UNCHANGED <<stage, about>> PROVE WriterTypes'
  BY <1>1, <1>2 DEF WritersKnowTheirs
<1>3. ASSUME NEW s \in Sessions, UpsertSession(s) PROVE Inv'
  <2>1. WriterTypes'
    BY <1>2, <1>3 DEF UpsertSession
  <2>2. TurnsAreListed'
    BY <1>3, RowsStay DEF UpsertSession, Inv
  <2>3. TypeOK' /\ RowsAreCounted' /\ RowsAreOfLive'
    BY <1>1, <1>3, <2>1 DEF UpsertSession, Inv, TypeOK, RowsAreCounted, RowsAreOfLive
  <2>4. QuestionsPosted'
    BY <1>3 DEF UpsertSession, Inv, QuestionsPosted, Posting
  <2> QED BY <2>1, <2>2, <2>3, <2>4 DEF Inv
<1>4. ASSUME NEW s \in Sessions, DeleteSession(s) PROVE Inv'
  <2>1. WriterTypes'
    BY <1>2, <1>4 DEF DeleteSession
  <2>2. turns' = {t \in turns : t.session # s}
    BY <1>4 DEF DeleteSession, Of
  <2>3. Of(s)' = {} /\ \A r \in Sessions \ {s} : Of(r)' = Of(r)
    BY <2>2 DEF Of
  <2>4. TurnsAreListed'
    BY <2>3, NoRowsNoList, OthersStay DEF Inv, TurnsAreListed
  <2>5. TypeOK' /\ RowsAreCounted' /\ RowsAreOfLive'
    BY <1>1, <1>4, <2>1, <2>2
    DEF DeleteSession, Inv, TypeOK, RowsAreCounted, RowsAreOfLive, Turns
  <2>6. QuestionsPosted'
    BY <1>4, <2>2 DEF DeleteSession, Inv, QuestionsPosted, Posting
  <2> QED BY <2>1, <2>4, <2>5, <2>6 DEF Inv
<1>5. ASSUME NEW t \in turns, DeleteNote(t) PROVE Inv'
  <2>1. WriterTypes'
    BY <1>2, <1>5 DEF DeleteNote
  <2>2. TurnsAreListed'
    BY <1>5, DeleteRemoves, OthersStay DEF Inv, TurnsAreListed
  <2>3. TypeOK' /\ RowsAreCounted' /\ RowsAreOfLive'
    BY <1>1, <1>5, <2>1 DEF DeleteNote, Inv, TypeOK, RowsAreCounted, RowsAreOfLive
  <2>4. QuestionsPosted'
    BY <1>5 DEF DeleteNote, Inv, QuestionsPosted, Posting
  <2> QED BY <2>1, <2>2, <2>3, <2>4 DEF Inv
<1>6. ASSUME NEW t \in turns, NEW x \in Words, UpdateNote(t, x) PROVE Inv'
  <2>1. WriterTypes'
    BY <1>2, <1>6 DEF UpdateNote
  <2>2. [t EXCEPT !.word = x] \in Turns
    BY <1>6, UpdateReplaces
  <2>3. PICK u : u = [t EXCEPT !.word = x]
    OBVIOUS
  <2>4. /\ u \in Turns /\ u.session = t.session /\ u.rowid = t.rowid
        /\ u.ordinal = t.ordinal /\ u.kind = "note"
    BY <1>1, <1>6, <2>2, <2>3 DEF UpdateNote, Notes, TypeOK, Turns
  <2>5. turns' = (turns \ {t}) \cup {u} /\ UNCHANGED <<session, index, history>>
    BY <1>6, <2>3 DEF UpdateNote
  <2>6. TurnsAreListed'
    BY <1>6, UpdateReplaces, OthersStay DEF Inv, TurnsAreListed
  <2>7. TypeOK' /\ RowsAreCounted' /\ RowsAreOfLive'
    BY <1>1, <2>1, <2>4, <2>5 DEF Inv, TypeOK, RowsAreCounted, RowsAreOfLive
  <2>8. QuestionsPosted'
    BY <2>4, <2>5 DEF Inv, QuestionsPosted, Posting
  <2> QED BY <2>1, <2>6, <2>7, <2>8 DEF Inv
<1>7. ASSUME NEW w \in Writers, NEW s \in Sessions, BeginNote(w, s) \/ BeginAsk(w, s)
      PROVE  Inv'
  <2>1. WriterTypes'
    BY <1>1, <1>7 DEF BeginNote, BeginAsk, Goto, WritersKnowTheirs
  <2> QED BY <1>7, <2>1, TablesStay DEF BeginNote, BeginAsk
<1>8. ASSUME NEW w \in Writers, NEW ids, ReadHistory(w, ids) PROVE Inv'
  <2>1. WriterTypes'
    BY <1>1, <1>8 DEF ReadHistory, Goto, WritersKnowTheirs
  <2> QED BY <1>8, <2>1, TablesStay DEF ReadHistory
<1>9. ASSUME NEW w \in Writers, NEW x \in Words, InsertNote(w, x) PROVE Inv'
  BY <1>9, InsertKeeps DEF InsertNote, Kinds, Statuses
<1>10. ASSUME NEW w \in Writers, NEW x \in Words, NEW k \in Statuses, InsertTurn(w, k, x)
       PROVE  Inv'
  BY <1>10, InsertKeeps DEF InsertTurn, Kinds
<1>11. CASE Restart
  <2>1. WriterTypes'
    BY <1>1, <1>11 DEF Restart, WritersKnowTheirs
  <2> QED BY <1>11, <2>1, TablesStay DEF Restart
<1>12. CASE UNCHANGED vars
  <2>1. WriterTypes' /\ UNCHANGED tables
    BY <1>1, <1>12 DEF vars, WritersKnowTheirs
  <2> QED BY <2>1, TablesStay
<1> QED BY <1>3, <1>4, <1>5, <1>6, <1>7, <1>8, <1>9, <1>10, <1>11, <1>12 DEF Next

LEMMA Inductive == Spec => []Inv
BY InitInv, NextInv, PTL DEF Spec

(* The store's state is of its type: rowids, ordinals and postings stay within
   the number of turns ever committed, although they are given out again. *)
THEOREM TypeCorrect == Spec => []TypeOK
BY Inductive, PTL DEF Inv

(* Every question in the store is found by what it is about (insert_turn_tx,
   update_note, delete_note and search_turns of storage/store.rs): a rowid that
   is used again, an edit or a deletion never takes its posting away, and only
   a full answer can leave it out. *)
THEOREM AnswersAreFound == Spec => []EveryAnswerIsFound
<1>1. Inv => EveryAnswerIsFound
  BY PostedIsFound DEF Inv
<1> QED BY <1>1, Inductive, PTL

-----------------------------------------------------------------------------
(* Refinement: each step is a step of Conversation or none. *)

LEMMA LogIs == \A s : Log(s) = EntriesOf(ListTurns(s))
BY DEF Log, EntriesOf

(* What is written to one session, as Conversation sees it. *)
LEMMA PromisedWrite ==
  ASSUME TurnsAreListed, NEW s \in Sessions, session[s] = "live", UNCHANGED session,
         \A r \in Sessions \ {s} : Of(r)' = Of(r),
         NEW old, old = Log(s), NEW new, new = Log(s)', new # old,
         \/ Promise!Added(old, new)
         \/ Promise!Edited(old, new)
         \/ Promise!Withdrawn(old, new)
  PROVE  Promise!Next
<1>1. \A r \in Sessions \ {s} : Log(r)' = Log(r)
  BY OthersStay DEF Log
<1>2. Promise!Write(s)
  BY DEF Promise!Write
<1> QED BY <1>1, <1>2 DEF Promise!Next

LEMMA InitPromised == Init => Promise!Init
<1> SUFFICES ASSUME Init PROVE Promise!Init
  OBVIOUS
<1>1. ASSUME NEW s \in Sessions PROVE Log(s) = <<>>
  <2>1. Of(s) = {}
    BY DEF Init, Of
  <2>2. <<>> \in Seq({}) /\ Len(<<>>) = 0 /\ Lists(<<>>, 0, {}) /\ HasOrdinals({})
    BY DEF Lists, Sorted, HasOrdinals
  <2>3. ListTurns(s) = InOrder(Of(s))
    BY DEF ListTurns, InOrder
  <2>4. ListTurns(s) = <<>>
    BY <2>1, <2>2, <2>3, Listing
  <2>5. DOMAIN <<>> = {}
    OBVIOUS
  <2> QED BY <2>4, <2>5 DEF Log
<1>2. \A s \in Sessions : session[s] # "live"
  BY DEF Init
<1> QED BY <1>1, <1>2 DEF Promise!Init

(* A writer's insertion adds an entry, or nothing if the session is gone. *)
LEMMA InsertPromised ==
  ASSUME Inv, NEW w \in Writers, NEW kind \in Kinds, NEW status \in Statuses, NEW word \in Words,
         stage[w] # "idle", Len(history) < MaxTurns, Insert(about[w], kind, status, word)
  PROVE  Promise!Next \/ UNCHANGED <<session, turns>>
<1>1. PICK s \in Sessions : s = about[w]
  BY DEF Inv, WritersKnowTheirs
<1>2. CASE session[s] # "live"
  BY <1>1, <1>2 DEF Insert, tables
<1>3. CASE session[s] = "live"
  <2>1. Insert(s, kind, status, word)
    BY <1>1
  <2>2. PICK t \in Turns : Appends(s, t)
    BY <1>3, <2>1, InsertAppends
  <2>3. UNCHANGED session
    BY <1>3, <2>1 DEF Insert
  <2> DEFINE f == ListTurns(s)
  <2>4. f \in Seq(Of(s))
    BY DEF Inv, TurnsAreListed, Listed
  <2>5. PICK old : old = Log(s)
    OBVIOUS
  <2>6. PICK new : new = Log(s)'
    OBVIOUS
  <2>7. new = Append(old, Entry(t))
    <3>1. new = EntriesOf(ListTurns(s)')
      BY <2>6 DEF Log, EntriesOf
    <3> QED BY <2>2, <2>4, <2>5, <3>1, EntriesAppended, LogIs DEF Appends
  <2>8. old \in Seq({Entry(x) : x \in Of(s)})
    BY <2>4, <2>5, EntriesOfIs, LogIs
  <2> DEFINE E == {Entry(x) : x \in Of(s)} \cup {Entry(t)}
  <2>9. old \in Seq(E) /\ Entry(t) \in E
    BY <2>8
  <2> HIDE DEF E, f
  <2>10. Len(old) \in Nat /\ new \in Seq(E) /\ Len(new) = Len(old) + 1 /\ new[Len(new)] = Entry(t)
    BY <2>7, <2>9
  <2>11. Entry(t) \in Entries
    BY DEF Turns, Entry, Entries
  <2>12. Promise!Added(old, new) /\ new # old
    BY <2>7, <2>10, <2>11 DEF Promise!Added, Promise!Last, Entries
  <2>13. \A r \in Sessions \ {s} : Of(r)' = Of(r)
    BY <2>2 DEF Appends
  <2> QED BY <1>3, <2>3, <2>5, <2>6, <2>12, <2>13, PromisedWrite DEF Inv
<1> QED BY <1>2, <1>3

LEMMA UpdatePromised ==
  ASSUME Inv, NEW t \in turns, NEW x \in Words, UpdateNote(t, x)
  PROVE  Promise!Next
<1>1. TypeOK /\ t \in Turns /\ t.kind = "note" /\ x # t.word
  BY DEF Inv, TypeOK, UpdateNote, Notes
<1>2. PICK s \in Sessions : s = t.session
  BY <1>1 DEF Turns
<1>3. PICK u : u = [t EXCEPT !.word = x]
  OBVIOUS
<1>4. u.kind = "note" /\ u.word = x
  BY <1>1, <1>3 DEF Turns
<1>5. PICK f : f = ListTurns(s)
  OBVIOUS
<1>6. f \in Seq(Of(s)) /\ Len(f) \in Nat
  BY <1>5 DEF Inv, TurnsAreListed, Listed
<1>7. PICK i \in 1 .. Len(f) : f[i] = t /\ ListTurns(s)' = [f EXCEPT ![i] = u]
  BY <1>2, <1>3, <1>5, UpdateReplaces
<1>8. PICK old : old = Log(s)
  OBVIOUS
<1>9. PICK new : new = Log(s)'
  OBVIOUS
<1>10. new = [old EXCEPT ![i] = Entry(u)]
  <2>1. new = EntriesOf(ListTurns(s)')
    BY <1>9 DEF Log, EntriesOf
  <2>2. old = EntriesOf(f)
    BY <1>5, <1>8, LogIs
  <2>3. EntriesOf([f EXCEPT ![i] = u]) = [EntriesOf(f) EXCEPT ![i] = Entry(u)]
    BY <1>6, <1>7, EntriesReplaced, ZenonT(60)
  <2> QED BY <1>7, <2>1, <2>2, <2>3
<1>11. old \in Seq({Entry(y) : y \in Of(s)}) /\ Len(old) = Len(f) /\ old[i] = Entry(t)
  BY <1>5, <1>6, <1>7, <1>8, EntriesOfIs, LogIs
<1>12. DOMAIN old = 1 .. Len(f) /\ i \in DOMAIN old
  BY <1>6, <1>11
<1>13. new[i] = Entry(u) /\ Len(new) = Len(old)
  <2>1. new[i] = Entry(u)
    BY <1>10, <1>12
  <2>2. DOMAIN new = DOMAIN old
    BY <1>10
  <2>3. new \in Seq({Entry(y) : y \in Of(s)} \cup {Entry(u)}) /\ Len(new) = Len(old)
    <3> DEFINE E == {Entry(y) : y \in Of(s)} \cup {Entry(u)}
    <3>1. old \in Seq(E) /\ Entry(u) \in E /\ i \in 1 .. Len(old)
      BY <1>11
    <3> HIDE DEF E
    <3>2. new \in Seq(E) /\ Len(new) = Len(old)
      BY <1>10, <3>1, ExceptSeq
    <3> QED BY <3>2 DEF E
  <2> QED BY <2>1, <2>3
<1>14. new # old
  BY <1>1, <1>4, <1>11, <1>13 DEF Entry
<1>15. Promise!Edited(old, new)
  <2>1. old[i].kind = "note" /\ new[i].kind = "note"
    BY <1>1, <1>4, <1>11, <1>13 DEF Entry
  <2>2. new = [old EXCEPT ![i] = new[i]]
    BY <1>10, <1>13
  <2> QED BY <1>12, <1>13, <2>1, <2>2 DEF Promise!Edited
<1>16. session[s] = "live" /\ UNCHANGED session
  BY <1>2 DEF Inv, RowsAreOfLive, UpdateNote
<1>17. \A r \in Sessions \ {s} : Of(r)' = Of(r)
  BY <1>2, UpdateReplaces
<1> QED BY <1>8, <1>9, <1>14, <1>15, <1>16, <1>17, PromisedWrite DEF Inv

LEMMA DeletePromised ==
  ASSUME Inv, NEW t \in turns, DeleteNote(t)
  PROVE  Promise!Next
<1>1. TypeOK /\ t \in Turns /\ t.kind = "note"
  BY DEF Inv, TypeOK, DeleteNote, Notes
<1>2. PICK s \in Sessions : s = t.session
  BY <1>1 DEF Turns
<1>3. PICK f : f = ListTurns(s)
  OBVIOUS
<1>4. f \in Seq(Of(s)) /\ Len(f) \in Nat
  BY <1>3 DEF Inv, TurnsAreListed, Listed
<1>5. PICK i \in 1 .. Len(f) : f[i] = t /\ ListTurns(s)' = RemoveAt(f, i)
  BY <1>2, <1>3, DeleteRemoves
<1>6. PICK old : old = Log(s)
  OBVIOUS
<1>7. PICK new : new = Log(s)'
  OBVIOUS
<1>8. new = RemoveAt(old, i)
  <2>1. new = EntriesOf(ListTurns(s)')
    BY <1>7 DEF Log, EntriesOf
  <2> QED BY <1>3, <1>4, <1>5, <1>6, <2>1, EntriesRemoved, LogIs
<1>9. old \in Seq({Entry(y) : y \in Of(s)}) /\ Len(old) = Len(f) /\ old[i] = Entry(t)
  BY <1>3, <1>4, <1>5, <1>6, EntriesOfIs, LogIs
<1>10. i \in DOMAIN old /\ i \in 1 .. Len(old)
  BY <1>4, <1>9
<1>11. Len(new) = Len(old) - 1
  BY <1>8, <1>9, <1>10, RemoveAtIs
<1>12. new # old
  BY <1>4, <1>9, <1>11
<1>13. Promise!RemoveAt(old, i) = RemoveAt(old, i)
  BY DEF Promise!RemoveAt, RemoveAt
<1>14. Promise!Withdrawn(old, new)
  BY <1>1, <1>8, <1>9, <1>10, <1>13 DEF Promise!Withdrawn, Entry
<1>15. session[s] = "live" /\ UNCHANGED session
  BY <1>2 DEF Inv, RowsAreOfLive, DeleteNote
<1>16. \A r \in Sessions \ {s} : Of(r)' = Of(r)
  BY <1>2, DeleteRemoves
<1> QED BY <1>6, <1>7, <1>12, <1>14, <1>15, <1>16, PromisedWrite DEF Inv

LEMMA NextPromised ==
  Inv /\ [Next]_vars =>
    [Promise!Next]_<<{s \in Sessions : session[s] = "live"}, [s \in Sessions |-> Log(s)]>>
<1> SUFFICES ASSUME Inv, [Next]_vars
             PROVE  [Promise!Next]_<<{s \in Sessions : session[s] = "live"},
                                     [s \in Sessions |-> Log(s)]>>
  OBVIOUS
<1> SUFFICES Promise!Next \/ UNCHANGED <<session, turns>>
  <2>1. ASSUME UNCHANGED <<session, turns>>
        PROVE  /\ {s \in Sessions : session[s] = "live"}' = {s \in Sessions : session[s] = "live"}
               /\ [s \in Sessions |-> Log(s)]' = [s \in Sessions |-> Log(s)]
    <3>1. \A s \in Sessions : Of(s)' = Of(s)
      BY <2>1 DEF Of
    <3>2. \A s \in Sessions : ListTurns(s)' = ListTurns(s)
      BY <3>1, OthersStay DEF Inv
    <3>3. \A s \in Sessions : Log(s)' = Log(s)
      BY <3>2 DEF Log
    <3> QED BY <2>1, <3>3
  <2> QED BY <2>1
<1>1. ASSUME NEW s \in Sessions, UpsertSession(s) PROVE Promise!Next
  <2>1. \A r \in Sessions : Of(r)' = Of(r)
    BY <1>1 DEF UpsertSession, Of
  <2>2. \A r \in Sessions : Log(r)' = Log(r)
    BY <2>1, OthersStay DEF Inv, Log
  <2>3. /\ s \notin {r \in Sessions : session[r] = "live"}
        /\ {r \in Sessions : session[r] = "live"}' = {r \in Sessions : session[r] = "live"} \cup {s}
    BY <1>1 DEF UpsertSession, Inv, TypeOK
  <2>4. Promise!Begin(s)
    BY <2>2, <2>3 DEF Promise!Begin
  <2> QED BY <2>2, <2>4 DEF Promise!Next
<1>2. ASSUME NEW s \in Sessions, DeleteSession(s) PROVE Promise!Next
  <2>1. turns' = {t \in turns : t.session # s}
    BY <1>2 DEF DeleteSession, Of
  <2>2. Of(s)' = {} /\ \A r \in Sessions \ {s} : Of(r)' = Of(r)
    BY <2>1 DEF Of
  <2>3. \A r \in Sessions \ {s} : Log(r)' = Log(r)
    BY <2>2, OthersStay DEF Inv, Log
  <2>4. Log(s)' = <<>>
    <3>1. ListTurns(s)' = <<>>
      BY <2>2, NoRowsNoList
    <3>2. DOMAIN <<>> = {}
      OBVIOUS
    <3> QED BY <3>1, <3>2 DEF Log
  <2>5. /\ s \in {r \in Sessions : session[r] = "live"}
        /\ {r \in Sessions : session[r] = "live"}' = {r \in Sessions : session[r] = "live"} \ {s}
    BY <1>2 DEF DeleteSession, Inv, TypeOK
  <2>6. Promise!Delete(s)
    BY <2>4, <2>5 DEF Promise!Delete
  <2> QED BY <2>3, <2>6 DEF Promise!Next
<1>3. ASSUME NEW w \in Writers, NEW x \in Words, InsertNote(w, x)
      PROVE  Promise!Next \/ UNCHANGED <<session, turns>>
  BY <1>3, InsertPromised DEF InsertNote, Kinds, Statuses
<1>4. ASSUME NEW w \in Writers, NEW x \in Words, NEW k \in Statuses, InsertTurn(w, k, x)
      PROVE  Promise!Next \/ UNCHANGED <<session, turns>>
  BY <1>4, InsertPromised DEF InsertTurn, Kinds
<1>5. ASSUME NEW w \in Writers, NEW s \in Sessions, BeginNote(w, s) \/ BeginAsk(w, s)
      PROVE  UNCHANGED <<session, turns>>
  BY <1>5 DEF BeginNote, BeginAsk, tables
<1>6. ASSUME NEW w \in Writers, NEW ids, ReadHistory(w, ids)
      PROVE  UNCHANGED <<session, turns>>
  BY <1>6 DEF ReadHistory, tables
<1>7. CASE Restart
  BY <1>7 DEF Restart, tables
<1>8. CASE UNCHANGED vars
  BY <1>8 DEF vars, tables
<1> QED BY <1>1, <1>2, <1>3, <1>4, <1>5, <1>6, <1>7, <1>8, UpdatePromised, DeletePromised DEF Next

(* The store keeps what Conversation promises of a session (insert_turn_tx,
   list_turns, update_note, delete_note and delete_session of storage/store.rs):
   its turns are read in the order they were committed, questions stay as they
   are, only notes are edited or withdrawn, and a deleted session gets no turn. *)
THEOREM ConversationKept == Spec => ImplementsConversation
BY InitPromised, NextPromised, Inductive, PTL DEF Spec, ImplementsConversation, Promise!Spec

-----------------------------------------------------------------------------
(* What an ask replays. *)

(* Rows of different ordinals can be listed: by induction over the largest. *)
Apart(S) == \A t, u \in S : t.ordinal = u.ordinal => t = u

Listable(S) == \E f \in Seq(S) : Lists(f, Len(f), S)

LEMMA ListingExists ==
  ASSUME NEW n \in Nat, NEW S, Apart(S), \A t \in S : t.ordinal \in 1..n
  PROVE  Listable(S)
<1> DEFINE Within(T, m) == T \subseteq S /\ \A t \in T : t.ordinal \in 1..m
           Bad == {m \in Nat : \E T \in SUBSET S : Within(T, m) /\ ~Listable(T)}
<1> SUFFICES ASSUME Bad # {} PROVE FALSE
  OBVIOUS
<1>1. PICK m \in Bad : \A k \in Bad : m <= k
  <2>1. Bad \subseteq Nat
    OBVIOUS
  <2> HIDE DEF Bad
  <2> QED BY <2>1, LeastNatural
<1>2. m \in Nat
  OBVIOUS
<1>3. PICK T \in SUBSET S : Within(T, m) /\ ~Listable(T)
  OBVIOUS
<1>4. ASSUME NEW U \in SUBSET S, m # 0, Within(U, m - 1) PROVE Listable(U)
  BY <1>1, <1>2, <1>4
<1> HIDE DEF Bad
<1>5. m # 0
  <2>1. ASSUME m = 0 PROVE FALSE
    <3>1. T = {}
      BY <1>3, <2>1
    <3>2. <<>> \in Seq({}) /\ Len(<<>>) = 0 /\ Lists(<<>>, 0, {})
      BY DEF Lists, Sorted
    <3> QED BY <1>3, <3>1, <3>2 DEF Listable
  <2> QED BY <2>1
<1>6. PICK t \in T : t.ordinal = m
  <2>1. ASSUME \A t \in T : t.ordinal # m PROVE FALSE
    <3>1. Within(T, m - 1)
      BY <1>2, <1>3, <1>5, <2>1
    <3> QED BY <1>3, <1>4, <1>5, <3>1
  <2> QED BY <2>1
<1> DEFINE U == T \ {t}
<1>7. \A u \in U : u.ordinal \in 1..(m - 1) /\ u.ordinal < t.ordinal
  BY <1>2, <1>3, <1>6 DEF Apart
<1>8. PICK f \in Seq(U) : Lists(f, Len(f), U)
  <2>1. U \in SUBSET S /\ Within(U, m - 1)
    BY <1>3, <1>7
  <2> HIDE DEF U
  <2> QED BY <1>4, <1>5, <2>1 DEF Listable
<1>9. T = U \cup {t}
  OBVIOUS
<1> HIDE DEF U
<1>10. /\ Len(f) \in Nat /\ Append(f, t) \in Seq(T) /\ Len(Append(f, t)) = Len(f) + 1
       /\ Lists(Append(f, t), Len(f) + 1, T)
  <2>1. Len(f) \in Nat
    BY <1>8
  <2>2. Append(f, t) \in Seq(T) /\ Lists(Append(f, t), Len(f) + 1, T)
    BY <1>7, <1>8, <1>9, <2>1, ListsAppended
  <2>3. Len(Append(f, t)) = Len(f) + 1
    BY <1>8, AppendProperties
  <2> QED BY <2>1, <2>2, <2>3
<1> QED BY <1>3, <1>10 DEF Listable

LEMMA AnswersAreListed ==
  ASSUME TypeOK, TurnsAreListed, NEW s \in Sessions
  PROVE  /\ InOrder(Answers(s)) \in Seq(Answers(s))
         /\ Lists(InOrder(Answers(s)), Len(InOrder(Answers(s))), Answers(s))
<1>1. /\ MaxTurns \in Nat /\ Answers(s) \subseteq Of(s) /\ HasOrdinals(Of(s))
      /\ \A t \in Of(s) : t.ordinal \in 1..MaxTurns
  BY TurnTypes DEF Answers, Of
<1>2. Apart(Of(s))
  <2> DEFINE f == ListTurns(s)
  <2>1. f \in Seq(Of(s)) /\ Lists(f, Len(f), Of(s)) /\ Len(f) \in Nat
    BY DEF TurnsAreListed, Listed
  <2> HIDE DEF f
  <2>2. ASSUME NEW t \in Of(s), NEW u \in Of(s), t.ordinal = u.ordinal PROVE t = u
    <3>1. PICK i \in 1..Len(f) : f[i] = t
      BY <2>1 DEF Lists
    <3>2. PICK k \in 1..Len(f) : f[k] = u
      BY <2>1 DEF Lists
    <3>3. t.ordinal \in Nat
      BY <1>1 DEF HasOrdinals
    <3>4. ~(i < k) /\ ~(k < i)
      BY <2>1, <2>2, <3>1, <3>2, <3>3 DEF Lists, Sorted
    <3> QED BY <2>1, <3>1, <3>2, <3>4
  <2> QED BY <2>2 DEF Apart
<1>3. Apart(Answers(s)) /\ HasOrdinals(Answers(s)) /\ \A t \in Answers(s) : t.ordinal \in 1..MaxTurns
  BY <1>1, <1>2 DEF Apart, HasOrdinals
<1>4. PICK f \in Seq(Answers(s)) : Lists(f, Len(f), Answers(s))
  BY <1>1, <1>3, ListingExists DEF Listable
<1>5. InOrder(Answers(s)) = f
  BY <1>3, <1>4, Listing
<1> QED BY <1>4, <1>5

(* As many of them as fit, the newest. *)
Fits(list, asked, answers) ==
  /\ Len(asked) \in Nat /\ Len(list) \in 0..Len(asked) /\ list \in Seq(answers)
  /\ Lists(asked, Len(asked), answers)
  /\ \A i \in 1..Len(list) : /\ Len(asked) - Len(list) + i \in 1..Len(asked)
                             /\ list[i] = asked[Len(asked) - Len(list) + i]
  /\ 2 * Len(list) < MaxHistory \/ Len(list) = 0
  /\ Len(list) = Len(asked) \/ 2 * (Len(list) + 1) >= MaxHistory

LEMMA ReplayedIs ==
  ASSUME TypeOK, TurnsAreListed, NEW s \in Sessions,
         NEW asked, asked = InOrder(Answers(s)), NEW list, list = Replayed(s)
  PROVE  Fits(list, asked, Answers(s))
<1>1. asked \in Seq(Answers(s)) /\ Lists(asked, Len(asked), Answers(s))
  BY AnswersAreListed
<1>2. Len(asked) \in Nat /\ MaxHistory \in Nat
  BY <1>1, StoreBounds
<1> DEFINE take == IF MaxHistory = 0 THEN 0 ELSE (MaxHistory - 1) \div 2
           from == IF Len(asked) > take THEN Len(asked) - take + 1 ELSE 1
<1>3. list = SubSeq(asked, from, Len(asked))
  BY DEF Replayed
<1>4. take \in Nat /\ (take = 0 \/ 2 * take < MaxHistory) /\ 2 * (take + 1) >= MaxHistory
  <2>1. CASE MaxHistory = 0
    BY <2>1
  <2>2. CASE MaxHistory # 0
    <3>1. MaxHistory - 1 \in Nat
      BY <1>2, <2>2
    <3>2. \A k \in Nat : k \div 2 \in Nat /\ 2 * (k \div 2) <= k /\ k <= 2 * (k \div 2) + 1
      OBVIOUS
    <3> QED BY <1>2, <2>2, <3>1, <3>2
  <2> QED BY <2>1, <2>2
<1> HIDE DEF take
<1>5. from \in 1..(Len(asked) + 1)
  BY <1>2, <1>4
<1>6. /\ list \in Seq(Answers(s)) /\ Len(list) = Len(asked) - from + 1
      /\ \A i \in 1..Len(list) : list[i] = asked[from + i - 1]
  <2> HIDE DEF from
  <2> QED BY <1>1, <1>2, <1>3, <1>5
<1>7. Len(list) = IF Len(asked) > take THEN take ELSE Len(asked)
  BY <1>2, <1>4, <1>6
<1> HIDE DEF from
<1>8. \A i \in 1..Len(list) : /\ Len(asked) - Len(list) + i \in 1..Len(asked)
                              /\ from + i - 1 = Len(asked) - Len(list) + i
  BY <1>2, <1>5, <1>6
<1>9. /\ Len(list) \in 0..Len(asked)
      /\ 2 * Len(list) < MaxHistory \/ Len(list) = 0
      /\ Len(list) = Len(asked) \/ 2 * (Len(list) + 1) >= MaxHistory
  BY ONLY <1>2, <1>4, <1>7
<1> QED BY <1>1, <1>2, <1>6, <1>8, <1>9 DEF Fits

(* How much of a quota is left where the newest come first. *)
Later(wanted, i) == {k \in wanted : k > i}

Quota(n, q, wanted) ==
  CHOOSE f : f = [i \in 1..(n + 1) |->
    IF i > n THEN q ELSE IF i \in wanted /\ f[i + 1] > 0 THEN f[i + 1] - 1 ELSE f[i + 1]]

LEMMA QuotaIs ==
  ASSUME NEW n \in Nat, NEW q \in Nat, NEW wanted, wanted \subseteq 1..n,
         NEW left, left = Quota(n, q, wanted)
  PROVE  \A i \in wanted : left[i + 1] > 0 <=> Cardinality(Later(wanted, i)) < q
<1> DEFINE After(i) == Cardinality({k \in wanted : k >= i})
           g == [i \in 1..(n + 1) |-> IF q > After(i) THEN q - After(i) ELSE 0]
           Is(f) == f = [i \in 1..(n + 1) |->
             IF i > n THEN q
             ELSE IF i \in wanted /\ f[i + 1] > 0 THEN f[i + 1] - 1 ELSE f[i + 1]]
<1>0. \A k \in wanted : k \in Nat /\ k \in 1..n
  OBVIOUS
<1>1. IsFiniteSet(wanted) /\ \A i : IsFiniteSet({k \in wanted : k >= i}) /\ After(i) \in Nat
  <2>1. IsFiniteSet(1..n)
    BY FS_Interval
  <2>2. \A T \in SUBSET (1..n) : IsFiniteSet(T) /\ Cardinality(T) \in Nat
    BY <2>1, FS_Subset, FS_CardinalityType
  <2>3. \A i : {k \in wanted : k >= i} \in SUBSET (1..n)
    OBVIOUS
  <2> QED BY <2>2, <2>3
<1>2. After(n + 1) = 0
  <2>1. {k \in wanted : k >= n + 1} = {}
    BY ONLY <1>0, n \in Nat
  <2> QED BY <2>1, FS_EmptySet
<1>3. ASSUME NEW i \in 1..n
      PROVE  After(i) = IF i \in wanted THEN After(i + 1) + 1 ELSE After(i + 1)
  <2> DEFINE later == {k \in wanted : k >= i + 1}
  <2>1. CASE i \in wanted
    <3>1. {k \in wanted : k >= i} = later \cup {i} /\ i \notin later
      <4>1. i \in Nat /\ i \notin later
        OBVIOUS
      <4>2. \A k \in wanted : k >= i <=> k >= i + 1 \/ k = i
        BY ONLY <1>0, <4>1
      <4> QED BY ONLY <2>1, <4>1, <4>2
    <3>2. IsFiniteSet(later)
      BY <1>1
    <3> HIDE DEF later
    <3>3. Cardinality(later \cup {i}) = Cardinality(later) + 1
      BY <3>1, <3>2, FS_AddElement
    <3> QED BY <2>1, <3>1, <3>3 DEF later
  <2>2. CASE i \notin wanted
    <3>1. {k \in wanted : k >= i} = later
      BY ONLY <1>0, <2>2, i \in 1..n
    <3> QED BY <2>2, <3>1
  <2> QED BY <2>1, <2>2
<1> HIDE DEF After
<1>4. Is(g)
  <2>1. ASSUME NEW i \in 1..(n + 1)
        PROVE  g[i] = IF i > n THEN q
                      ELSE IF i \in wanted /\ g[i + 1] > 0 THEN g[i + 1] - 1 ELSE g[i + 1]
    <3>1. CASE i > n
      <4>1. i = n + 1 /\ g[i] = IF q > After(i) THEN q - After(i) ELSE 0
        BY <3>1
      <4> QED BY <1>2, <3>1, <4>1
    <3>2. CASE i \in 1..n
      <4>1. /\ g[i] = IF q > After(i) THEN q - After(i) ELSE 0
            /\ g[i + 1] = IF q > After(i + 1) THEN q - After(i + 1) ELSE 0
        BY <3>2
      <4>2. After(i) \in Nat /\ After(i + 1) \in Nat
        BY <1>1
      <4> HIDE DEF g
      <4> QED BY <1>3, <3>2, <4>1, <4>2
    <3> QED BY <3>1, <3>2
  <2>2. g = [i \in 1..(n + 1) |-> g[i]]
    OBVIOUS
  <2> HIDE DEF g
  <2> QED BY <2>1, <2>2
<1>5. left = CHOOSE f : Is(f)
  BY DEF Quota
<1> HIDE DEF Is
<1>6. Is(left)
  BY <1>4, <1>5
<1> DEFINE Bad == {j \in 0..n : left[n + 1 - j] # g[n + 1 - j]}
<1>7. Bad = {}
  <2> SUFFICES ASSUME Bad # {} PROVE FALSE
    OBVIOUS
  <2>1. PICK j \in Bad : \A m \in Bad : j <= m
    <3>1. Bad \subseteq Nat
      OBVIOUS
    <3> HIDE DEF Bad
    <3> QED BY <3>1, LeastNatural
  <2>2. j \in 0..n /\ left[n + 1 - j] # g[n + 1 - j]
    OBVIOUS
  <2>3. j # 0 => left[n + 2 - j] = g[n + 2 - j]
    <3> SUFFICES ASSUME j # 0 PROVE left[n + 2 - j] = g[n + 2 - j]
      OBVIOUS
    <3>1. j - 1 \in 0..n /\ n + 1 - (j - 1) = n + 2 - j /\ ~(j <= j - 1)
      BY <2>2
    <3>2. j - 1 \notin Bad
      BY <2>1, <3>1
    <3> QED BY <3>1, <3>2
  <2> DEFINE i == n + 1 - j
  <2>4. i \in 1..(n + 1) /\ (j = 0 <=> i > n) /\ n + 2 - j = i + 1
    BY <2>2
  <2> HIDE DEF i, g, Bad
  <2>5. /\ left[i] = IF i > n THEN q
                     ELSE IF i \in wanted /\ left[i + 1] > 0 THEN left[i + 1] - 1 ELSE left[i + 1]
        /\ g[i] = IF i > n THEN q
                  ELSE IF i \in wanted /\ g[i + 1] > 0 THEN g[i + 1] - 1 ELSE g[i + 1]
    BY <1>4, <1>6, <2>4 DEF Is
  <2>6. left[i] # g[i] /\ (j # 0 => left[i + 1] = g[i + 1])
    BY <2>2, <2>3, <2>4 DEF i
  <2> QED BY <2>4, <2>5, <2>6
<1>8. ASSUME NEW i \in 1..(n + 1) PROVE left[i] = g[i]
  <2>1. n + 1 - i \in 0..n /\ n + 1 - (n + 1 - i) = i
    OBVIOUS
  <2>2. n + 1 - i \notin Bad
    BY <1>7
  <2> QED BY <2>1, <2>2
<1> HIDE DEF Bad
<1>9. ASSUME NEW i \in wanted
      PROVE  left[i + 1] > 0 <=> Cardinality(Later(wanted, i)) < q
  <2>1. i + 1 \in 1..(n + 1) /\ Later(wanted, i) = {k \in wanted : k >= i + 1}
    BY ONLY <1>0, i \in wanted, n \in Nat DEF Later
  <2>2. Cardinality(Later(wanted, i)) = After(i + 1)
    BY <2>1 DEF After
  <2>3. left[i + 1] = IF q > After(i + 1) THEN q - After(i + 1) ELSE 0
    BY <1>8, <2>1
  <2>4. After(i + 1) \in Nat
    BY <1>1
  <2> QED BY <2>2, <2>3, <2>4
<1> QED BY <1>9

(* The turns with tool results are the newest that are wanted. *)
LEMMA FullTurnsIs ==
  ASSUME NEW list, NEW ids, Len(list) \in Nat, DOMAIN list = 1..Len(list),
         NEW wanted,
         wanted = {i \in DOMAIN list : i + ReplayFull > Len(list) \/ list[i].born \in ids}
  PROVE  FullTurns(list, ids) =
           {i \in wanted : Cardinality(Later(wanted, i)) < ReplayMaxFull}
<1> DEFINE left == Quota(Len(list), ReplayMaxFull, wanted)
<1>1. FullTurns(list, ids) = {i \in wanted : left[i + 1] > 0}
  BY ZenonT(40) DEF FullTurns, Quota
<1>2. wanted \subseteq 1..Len(list) /\ ReplayMaxFull \in Nat
  BY StoreBounds
<1>3. PICK f : f = left
  OBVIOUS
<1>4. \A i \in wanted : f[i + 1] > 0 <=> Cardinality(Later(wanted, i)) < ReplayMaxFull
  <2> HIDE DEF left
  <2>1. f = Quota(Len(list), ReplayMaxFull, wanted)
    BY <1>3 DEF left
  <2> QED BY ONLY <1>2, <2>1, Len(list) \in Nat, QuotaIs
<1> HIDE DEF left
<1> QED BY <1>1, <1>3, <1>4

-----------------------------------------------------------------------------
(* The rows and what was ever committed. *)

RowsAreHistory ==
  \A t \in turns :
    /\ t.born \in 1..Len(history)
    /\ history[t.born].session = t.session
    /\ history[t.born].kind = t.kind /\ history[t.born].status = t.status

ReplaysAreOfWriters == replay = [w \in Writers |-> replay[w]]

BornInOrder ==
  \A t, u \in turns : (t.session = u.session /\ t.ordinal < u.ordinal) => t.born < u.born

(* A question leaves the table with its session only. *)
AnswersStay ==
  \A b \in 1..Len(history) :
    /\ session[history[b].session] # "new"
    /\ (history[b].kind = "question" /\ session[history[b].session] = "live") =>
         \E t \in turns : t.born = b

WritersAreLate ==
  \A w \in Writers : /\ stage[w] # "idle" => session[about[w]] # "new"
                     /\ stage[w] = "ask" => replay[w].at \in 0..Len(history)

Kept ==
  RowsAreHistory /\ BornInOrder /\ AnswersStay /\ ReplaysAreOfWriters /\ WritersAreLate

(* What any step does to the tables, and to a writer. *)
Grows ==
  /\ Len(history) \in Nat /\ Len(history') \in Nat /\ Len(history) <= Len(history')
  /\ \A b \in 1..Len(history) : history'[b] = history[b]
  /\ \A s \in Sessions : /\ session'[s] = "new" => session[s] = "new"
                         /\ session'[s] = "live" => session[s] \in {"new", "live"}

Stays(w) == stage'[w] = stage[w] /\ about'[w] = about[w] /\ replay'[w] = replay[w]

Begins(w) == /\ stage'[w] \in {"note", "opened"} /\ about'[w] \in Sessions
             /\ session'[about'[w]] = "live"

LEMMA StepGrows ==
  ASSUME Inv, [Next]_vars
  PROVE  Grows
<1>1. TypeOK /\ Len(history) \in Nat
  BY TurnTypes DEF Inv
<1>2. ASSUME UNCHANGED <<session, history>> PROVE Grows
  BY <1>1, <1>2 DEF Grows
<1>3. ASSUME NEW s, NEW kind, NEW status, NEW word, Insert(s, kind, status, word),
             s \in Sessions, kind \in Kinds, status \in Statuses
      PROVE  Grows
  <2>1. CASE session[s] # "live"
    BY <1>2, <1>3, <2>1 DEF Insert, tables
  <2>2. CASE session[s] = "live"
    <3>1. /\ history' = Append(history, [session |-> s, kind |-> kind, status |-> status])
          /\ session' = session
      BY <1>3, <2>2 DEF Insert
    <3> DEFINE Past == [session : Sessions, kind : Kinds, status : Statuses]
    <3>2. /\ history \in Seq(Past)
          /\ [session |-> s, kind |-> kind, status |-> status] \in Past
      BY <1>1, <1>3 DEF TypeOK
    <3> HIDE DEF Past
    <3>3. /\ Len(history') = Len(history) + 1
          /\ \A b \in 1..Len(history) : history'[b] = history[b]
      BY ONLY <3>1, <3>2, AppendProperties
    <3> QED BY ONLY <1>1, <3>1, <3>3 DEF Grows
  <2> QED BY <2>1, <2>2
<1>4. ASSUME NEW s \in Sessions, UpsertSession(s) \/ DeleteSession(s) PROVE Grows
  BY <1>1, <1>4 DEF UpsertSession, DeleteSession, Grows, TypeOK
<1>5. ASSUME NEW t \in turns, DeleteNote(t) \/ \E x \in Words : UpdateNote(t, x) PROVE Grows
  BY <1>2, <1>5 DEF DeleteNote, UpdateNote
<1>6. ASSUME NEW w \in Writers, NEW s \in Sessions, BeginNote(w, s) \/ BeginAsk(w, s) PROVE Grows
  BY <1>2, <1>6 DEF BeginNote, BeginAsk, tables
<1>7. ASSUME NEW w \in Writers, NEW ids, ReadHistory(w, ids) PROVE Grows
  BY <1>2, <1>7 DEF ReadHistory, tables
<1>8. ASSUME NEW w \in Writers, NEW x \in Words, InsertNote(w, x) PROVE Grows
  BY <1>3, <1>8 DEF InsertNote, Kinds, Statuses, Inv, WritersKnowTheirs
<1>9. ASSUME NEW w \in Writers, NEW x \in Words, NEW k \in Statuses, InsertTurn(w, k, x) PROVE Grows
  BY <1>3, <1>9 DEF InsertTurn, Kinds, Inv, WritersKnowTheirs
<1>10. CASE Restart
  BY <1>2, <1>10 DEF Restart, tables
<1>11. CASE UNCHANGED vars
  BY <1>2, <1>11 DEF vars, tables
<1> QED BY <1>4, <1>5, <1>6, <1>7, <1>8, <1>9, <1>10, <1>11 DEF Next

LEMMA StepOfReplays ==
  ASSUME Inv, ReplaysAreOfWriters, [Next]_vars
  PROVE  ReplaysAreOfWriters'
<1>1. CASE UNCHANGED replay
  BY <1>1 DEF ReplaysAreOfWriters
<1>2. ASSUME NEW w \in Writers, NEW r, replay' = [replay EXCEPT ![w] = r]
      PROVE  ReplaysAreOfWriters'
  BY <1>2 DEF ReplaysAreOfWriters
<1>3. CASE Restart
  BY <1>3 DEF Restart, ReplaysAreOfWriters
<1> QED BY <1>1, <1>2, <1>3
        DEF Next, vars, UpsertSession, DeleteSession, DeleteNote, UpdateNote, BeginNote, BeginAsk,
            ReadHistory, InsertNote, InsertTurn

LEMMA StepOfWriter ==
  ASSUME Inv, ReplaysAreOfWriters, [Next]_vars, NEW v \in Writers, stage'[v] # "idle"
  PROVE  \/ Stays(v)
         \/ Begins(v)
         \/ \E ids : ReadHistory(v, ids)
<1>1. TypeOK
  BY DEF Inv
<1>2. ASSUME UNCHANGED <<stage, about, replay>> PROVE Stays(v)
  BY <1>2 DEF Stays
<1>3. ASSUME NEW s \in Sessions, UpsertSession(s) \/ DeleteSession(s) PROVE Stays(v)
  BY <1>2, <1>3 DEF UpsertSession, DeleteSession
<1>4. ASSUME NEW t \in turns, DeleteNote(t) \/ \E x \in Words : UpdateNote(t, x) PROVE Stays(v)
  BY <1>2, <1>4 DEF DeleteNote, UpdateNote
<1>5. ASSUME NEW w \in Writers, NEW s \in Sessions, BeginNote(w, s) \/ BeginAsk(w, s)
      PROVE  Stays(v) \/ Begins(v)
  BY <1>1, <1>5 DEF BeginNote, BeginAsk, Goto, tables, TypeOK, Stays, Begins
<1>6. ASSUME NEW w \in Writers, NEW ids, ReadHistory(w, ids), w # v PROVE Stays(v)
  <2>1. stage'[v] = stage[v] /\ about'[v] = about[v]
    BY <1>1, <1>6 DEF ReadHistory, Goto, TypeOK
  <2>2. replay'[v] = replay[v]
    BY <1>6 DEF ReadHistory, ReplaysAreOfWriters
  <2> QED BY <2>1, <2>2 DEF Stays
<1>7. ASSUME NEW w \in Writers, Leave(w), replay' = replay \/ replay' = [replay EXCEPT ![w] = NoReplay]
      PROVE  Stays(v)
  <2>1. v # w
    BY <1>1, <1>7 DEF Leave, Goto, TypeOK
  <2>2. stage'[v] = stage[v] /\ about'[v] = about[v]
    BY <1>1, <1>7, <2>1 DEF Leave, Goto, TypeOK
  <2>3. replay'[v] = replay[v]
    BY <1>7, <2>1 DEF ReplaysAreOfWriters
  <2> QED BY <2>2, <2>3 DEF Stays
<1>8. ASSUME NEW w \in Writers, NEW x \in Words, InsertNote(w, x) PROVE Stays(v)
  BY <1>7, <1>8 DEF InsertNote
<1>9. ASSUME NEW w \in Writers, NEW x \in Words, NEW k \in Statuses, InsertTurn(w, k, x) PROVE Stays(v)
  BY <1>7, <1>9 DEF InsertTurn
<1>10. CASE Restart
  BY <1>10 DEF Restart
<1>11. CASE UNCHANGED vars
  BY <1>2, <1>11 DEF vars
<1> QED BY <1>3, <1>4, <1>5, <1>6, <1>8, <1>9, <1>10, <1>11 DEF Next

LEMMA WritersStayLate ==
  ASSUME Inv, ReplaysAreOfWriters, WritersAreLate, [Next]_vars
  PROVE  WritersAreLate'
<1>1. Grows
  BY StepGrows
<1> SUFFICES ASSUME NEW v \in Writers, stage'[v] # "idle"
             PROVE  /\ session'[about'[v]] # "new"
                    /\ stage'[v] = "ask" => replay'[v].at \in 0..Len(history')
  BY DEF WritersAreLate
<1>2. CASE Stays(v)
  <2>1. /\ stage[v] # "idle" /\ about[v] \in Sessions /\ session[about[v]] # "new"
        /\ stage[v] = "ask" => replay[v].at \in 0..Len(history)
    BY <1>2 DEF Stays, WritersAreLate, Inv, WritersKnowTheirs
  <2> QED BY ONLY <1>1, <1>2, <2>1 DEF Stays, Grows
<1>3. CASE Begins(v)
  BY <1>3 DEF Begins
<1>4. ASSUME NEW ids, ReadHistory(v, ids)
      PROVE  session'[about'[v]] # "new" /\ replay'[v].at \in 0..Len(history')
  <2>1. stage[v] = "opened" /\ UNCHANGED <<session, history, about>>
    BY <1>4 DEF ReadHistory, tables
  <2>2. session'[about'[v]] # "new"
    BY <2>1 DEF WritersAreLate
  <2>3. replay'[v].at = Len(history)
    <3>1. DOMAIN replay = Writers
      BY DEF ReplaysAreOfWriters
    <3> QED BY <1>4, <3>1 DEF ReadHistory
  <2> QED BY ONLY <1>1, <2>1, <2>2, <2>3 DEF Grows
<1> QED BY <1>2, <1>3, <1>4, StepOfWriter

LEMMA RowsKept ==
  ASSUME Inv, RowsAreHistory, BornInOrder, AnswersStay, [Next]_vars
  PROVE  RowsAreHistory' /\ BornInOrder' /\ AnswersStay'
<1> DEFINE Rows == RowsAreHistory /\ BornInOrder /\ AnswersStay
<1>1. TypeOK /\ Len(history) \in Nat
  BY TurnTypes DEF Inv
<1>2. ASSUME UNCHANGED <<session, turns, history>> PROVE Rows'
  BY <1>2 DEF RowsAreHistory, BornInOrder, AnswersStay
<1>3. ASSUME NEW s \in Sessions, UpsertSession(s) PROVE Rows'
  <2>1. RowsAreHistory' /\ BornInOrder'
    BY <1>3 DEF UpsertSession, RowsAreHistory, BornInOrder
  <2>2. \A b \in 1..Len(history) : history[b].session # s
    BY <1>3 DEF UpsertSession, AnswersStay
  <2>3. \A r : r # s => session'[r] = session[r]
    BY <1>3 DEF UpsertSession
  <2>4. AnswersStay'
    BY <1>3, <2>2, <2>3 DEF UpsertSession, AnswersStay
  <2> QED BY <2>1, <2>4
<1>4. ASSUME NEW s \in Sessions, DeleteSession(s) PROVE Rows'
  <2>1. /\ turns' = {t \in turns : t.session # s} /\ history' = history
        /\ session'[s] = "deleted" /\ \A r : r # s => session'[r] = session[r]
    BY <1>1, <1>4 DEF DeleteSession, Of, TypeOK
  <2>2. RowsAreHistory' /\ BornInOrder'
    BY ONLY <2>1, RowsAreHistory, BornInOrder DEF RowsAreHistory, BornInOrder
  <2>3. AnswersStay'
    <3> SUFFICES ASSUME NEW b \in 1..Len(history)
                 PROVE  /\ session'[history[b].session] # "new"
                        /\ (history[b].kind = "question" /\ session'[history[b].session] = "live")
                             => \E t \in turns' : t.born = b
      BY <2>1 DEF AnswersStay
    <3>1. session[history[b].session] # "new"
      BY DEF AnswersStay
    <3>2. ASSUME history[b].kind = "question", session'[history[b].session] = "live"
          PROVE  \E t \in turns' : t.born = b
      <4>1. history[b].session # s /\ session[history[b].session] = "live"
        BY <2>1, <3>2
      <4>2. PICK t \in turns : t.born = b
        BY <3>2, <4>1 DEF AnswersStay
      <4>3. t.session = history[b].session
        BY ONLY <4>2, RowsAreHistory DEF RowsAreHistory
      <4> QED BY <2>1, <4>1, <4>2, <4>3
    <3> QED BY <2>1, <3>1, <3>2
  <2> QED BY <2>2, <2>3
<1>5. ASSUME NEW t \in turns, DeleteNote(t) PROVE Rows'
  <2>1. t.kind = "note" /\ turns' = turns \ {t} /\ UNCHANGED <<session, history>>
    BY <1>5 DEF DeleteNote, Notes
  <2>2. RowsAreHistory' /\ BornInOrder'
    BY ONLY <2>1, RowsAreHistory, BornInOrder DEF RowsAreHistory, BornInOrder
  <2>3. history[t.born].kind = "note"
    BY ONLY <2>1, t \in turns, RowsAreHistory DEF RowsAreHistory
  <2>4. AnswersStay'
    BY ONLY <2>1, <2>3, AnswersStay DEF AnswersStay
  <2> QED BY <2>2, <2>4
<1>6. ASSUME NEW t \in turns, NEW x \in Words, UpdateNote(t, x) PROVE Rows'
  <2>1. PICK u : u = [t EXCEPT !.word = x]
    OBVIOUS
  <2>2. /\ u.session = t.session /\ u.ordinal = t.ordinal /\ u.born = t.born
        /\ u.kind = t.kind /\ u.status = t.status
    BY <1>1, <2>1 DEF TypeOK, Turns
  <2>3. turns' = (turns \ {t}) \cup {u} /\ UNCHANGED <<session, history>>
    BY <1>6, <2>1 DEF UpdateNote
  <2>4. RowsAreHistory' /\ BornInOrder'
    BY ONLY <2>2, <2>3, t \in turns, RowsAreHistory, BornInOrder DEF RowsAreHistory, BornInOrder
  <2>5. AnswersStay'
    BY ONLY <2>2, <2>3, AnswersStay DEF AnswersStay
  <2> QED BY <2>4, <2>5
<1>7. ASSUME NEW s \in Sessions, NEW kind \in Kinds, NEW status \in Statuses, NEW word \in Words,
             Len(history) < MaxTurns, Insert(s, kind, status, word)
      PROVE  Rows'
  <2>1. CASE session[s] # "live"
    BY <1>2, <1>7, <2>1 DEF Insert, tables
  <2>2. CASE session[s] = "live"
    <3>1. PICK t \in Turns : Appends(s, t)
      BY <1>7, <2>2, InsertAppends
    <3> DEFINE e == [session |-> s, kind |-> t.kind, status |-> t.status]
               n == Len(history)
    <3>2. /\ turns' = turns \cup {t} /\ t.session = s /\ t.born = n + 1 /\ session' = session
          /\ \A u \in turns : u.session = s => u.ordinal < t.ordinal
      BY <1>7, <2>2, <3>1 DEF Appends, Of, Insert
    <3>3. /\ n \in Nat /\ Len(history') = n + 1 /\ history'[n + 1] = e
          /\ \A b \in 1..n : history'[b] = history[b]
      <4> DEFINE Past == [session : Sessions, kind : Kinds, status : Statuses]
      <4>1. history \in Seq(Past) /\ e \in Past /\ history' = Append(history, e)
        BY <1>1, <3>1 DEF TypeOK, Turns, Appends
      <4> HIDE DEF Past, e
      <4>2. Len(history) \in Nat
        BY <1>1
      <4> QED BY ONLY <4>1, <4>2, AppendProperties
    <3>4. /\ history'[n + 1].session = s /\ history'[n + 1].kind = t.kind
          /\ history'[n + 1].status = t.status
      BY <3>3
    <3>5. t.ordinal \in Nat /\ \A u \in turns : u.ordinal \in Nat
      BY <1>1, TurnTypes DEF Turns
    <3> HIDE DEF n
    <3>6. RowsAreHistory'
      BY ONLY <3>2, <3>3, <3>4, RowsAreHistory DEF RowsAreHistory, n
    <3>7. BornInOrder'
      BY ONLY <3>2, <3>3, <3>5, RowsAreHistory, BornInOrder DEF RowsAreHistory, BornInOrder, n
    <3>8. AnswersStay'
      BY ONLY <2>2, <3>2, <3>3, AnswersStay DEF AnswersStay, n
    <3> QED BY <3>6, <3>7, <3>8
  <2> QED BY <2>1, <2>2
<1>8. ASSUME NEW w \in Writers, NEW s \in Sessions, BeginNote(w, s) \/ BeginAsk(w, s) PROVE Rows'
  BY <1>2, <1>8 DEF BeginNote, BeginAsk, tables
<1>9. ASSUME NEW w \in Writers, NEW ids, ReadHistory(w, ids) PROVE Rows'
  BY <1>2, <1>9 DEF ReadHistory, tables
<1>10. ASSUME NEW w \in Writers, NEW x \in Words, InsertNote(w, x) PROVE Rows'
  BY <1>7, <1>10 DEF InsertNote, Kinds, Statuses, Inv, WritersKnowTheirs
<1>11. ASSUME NEW w \in Writers, NEW x \in Words, NEW k \in Statuses, InsertTurn(w, k, x) PROVE Rows'
  BY <1>7, <1>11 DEF InsertTurn, Kinds, Inv, WritersKnowTheirs
<1>12. CASE Restart
  BY <1>2, <1>12 DEF Restart, tables
<1>13. CASE UNCHANGED vars
  BY <1>2, <1>13 DEF vars, tables
<1> QED BY <1>3, <1>4, <1>5, <1>6, <1>8, <1>9, <1>10, <1>11, <1>12, <1>13 DEF Next

-----------------------------------------------------------------------------
(* What an ask is given. *)

Given(r) == {r.turns[i].id : i \in DOMAIN r.turns}

(* Whatever becomes of the session. *)
GivenOf(r, answered) ==
  /\ Given(r) \subseteq answered
  /\ \A i, k \in DOMAIN r.turns : i < k => r.turns[i].id < r.turns[k].id
  /\ \A b \in answered, c \in Given(r) : b > c => b \in Given(r)
  /\ 2 * Len(r.turns) < MaxHistory \/ r.turns = <<>>
  /\ {i \in DOMAIN r.turns : r.turns[i].full} = Newest(r.turns, r.ids)

GivenAll(r, answered) == Given(r) = answered \/ 2 * (Len(r.turns) + 1) >= MaxHistory

Gives(w) ==
  LET answered == Answered(about[w], replay[w].at)
  IN  /\ GivenOf(replay[w], answered)
      /\ session[about[w]] = "live" => GivenAll(replay[w], answered)

LEMMA ReplayKeepsNewestIs ==
  ReplayKeepsNewest <=> \A w \in Writers : stage[w] = "ask" => Gives(w)
BY DEF ReplayKeepsNewest, Gives, GivenOf, GivenAll, Given

(* The answered questions of a session, listed by ordinal, are listed by when
   they were committed, and while it is live none is missing. *)
LEMMA AnswersAreHistory ==
  ASSUME Inv, Kept, NEW s \in Sessions, NEW n \in Nat, NEW asked, Lists(asked, n, Answers(s)),
         NEW answered, answered = Answered(s, Len(history))
  PROVE  /\ \A i \in 1..n : asked[i].born \in answered /\ asked[i].born \in Nat
         /\ \A i, k \in 1..n : i < k => asked[i].born < asked[k].born
         /\ session[s] = "live" => \A b \in answered : \E i \in 1..n : asked[i].born = b
         /\ session[s] # "live" => n = 0
<1>1. /\ asked \in [1..n -> Answers(s)] /\ \A t \in Answers(s) : \E i \in 1..n : asked[i] = t
      /\ \A i, k \in 1..n : i < k => asked[i].ordinal < asked[k].ordinal
  BY DEF Lists, Sorted
<1>2. \A t \in Answers(s) : t \in turns /\ t.session = s /\ t.kind = "question" /\ t.status = "ok"
  BY DEF Answers, Of
<1>3. \A t \in Answers(s) : t.born \in answered /\ t.born \in Nat
  <2>1. RowsAreHistory /\ Len(history) \in Nat
    BY TurnTypes DEF Kept, Inv
  <2> QED BY ONLY <1>2, <2>1, answered = Answered(s, Len(history)) DEF RowsAreHistory, Answered
<1>4. \A t, u \in Answers(s) : t.ordinal < u.ordinal => t.born < u.born
  BY <1>2 DEF Kept, BornInOrder
<1>5. ASSUME session[s] = "live", NEW b \in answered PROVE \E i \in 1..n : asked[i].born = b
  <2>1. /\ b \in 1..Len(history) /\ history[b].session = s
        /\ history[b].kind = "question" /\ history[b].status = "ok"
    BY DEF Answered
  <2>2. PICK t \in turns : t.born = b
    BY <1>5, <2>1 DEF Kept, AnswersStay
  <2>3. history[b].session = t.session /\ history[b].kind = t.kind /\ history[b].status = t.status
    <3>1. RowsAreHistory
      BY DEF Kept
    <3> QED BY ONLY <2>2, <3>1 DEF RowsAreHistory
  <2>4. t \in Answers(s)
    BY <2>1, <2>2, <2>3 DEF Answers, Of
  <2> QED BY <1>1, <2>2, <2>4
<1>6. ASSUME session[s] # "live" PROVE n = 0
  <2>1. Answers(s) = {}
    BY <1>2, <1>6 DEF Inv, RowsAreOfLive
  <2> QED BY <1>1, <2>1
<1>7. \A i \in 1..n : asked[i] \in Answers(s)
  BY <1>1
<1> QED BY ONLY <1>1, <1>3, <1>4, <1>5, <1>6, <1>7

LEMMA ReadGives ==
  ASSUME Inv, Kept, NEW s \in Sessions, NEW ids, NEW list, list = Replayed(s),
         NEW r, r = [at |-> Len(history), ids |-> ids \cap {list[i].born : i \in DOMAIN list},
                     turns |-> [i \in DOMAIN list |->
                       [id |-> list[i].born, full |-> i \in FullTurns(list, ids)]]],
         NEW answered, answered = Answered(s, Len(history))
  PROVE  GivenOf(r, answered) /\ (session[s] = "live" => GivenAll(r, answered))
<1>1. PICK asked : asked = InOrder(Answers(s))
  OBVIOUS
<1>2. /\ Len(asked) \in Nat /\ Len(list) \in 0..Len(asked) /\ list \in Seq(Answers(s))
      /\ Lists(asked, Len(asked), Answers(s))
      /\ \A i \in 1..Len(list) : /\ Len(asked) - Len(list) + i \in 1..Len(asked)
                                 /\ list[i] = asked[Len(asked) - Len(list) + i]
      /\ 2 * Len(list) < MaxHistory \/ Len(list) = 0
      /\ Len(list) = Len(asked) \/ 2 * (Len(list) + 1) >= MaxHistory
  <2>1. TypeOK /\ TurnsAreListed
    BY DEF Inv
  <2>2. Fits(list, asked, Answers(s))
    BY <1>1, <2>1, ReplayedIs
  <2> QED BY <2>2 DEF Fits
<1>3. PICK n \in Nat : n = Len(asked)
  BY <1>2
<1>4. PICK m \in 0..n : m = Len(list)
  BY <1>2, <1>3
<1>5. /\ \A i \in 1..n : asked[i].born \in answered /\ asked[i].born \in Nat
      /\ \A i, k \in 1..n : i < k => asked[i].born < asked[k].born
      /\ session[s] = "live" => \A b \in answered : \E i \in 1..n : asked[i].born = b
      /\ session[s] # "live" => n = 0
  <2>1. Lists(asked, n, Answers(s))
    BY <1>2, <1>3
  <2> QED BY ONLY <2>1, Inv, Kept, s \in Sessions, n \in Nat, answered = Answered(s, Len(history)),
                  AnswersAreHistory
<1>6. \A i \in 1..m : n - m + i \in 1..n /\ list[i].born = asked[n - m + i].born
  BY <1>2, <1>3, <1>4
<1>7. DOMAIN list = 1..m /\ Len(list) = m
  BY <1>2, <1>4
<1>8. /\ DOMAIN r.turns = 1..m
      /\ \A i \in 1..m : /\ r.turns[i].id = list[i].born
                         /\ r.turns[i].full = (i \in FullTurns(list, ids))
      /\ r.ids = ids \cap {list[i].born : i \in 1..m}
  BY <1>7
<1>9. Len(r.turns) = m /\ (m = 0 => r.turns = <<>>)
  <2>1. r.turns = [i \in 1..m |-> [id |-> list[i].born, full |-> i \in FullTurns(list, ids)]]
    BY <1>7
  <2>2. m \in Nat
    BY <1>4
  <2> QED BY ONLY <2>1, <2>2
<1>10. Given(r) = {asked[n - m + i].born : i \in 1..m}
  <2>1. Given(r) = {r.turns[i].id : i \in 1..m}
    BY <1>8 DEF Given
  <2>2. \A i \in 1..m : r.turns[i].id = asked[n - m + i].born
    BY ONLY <1>6, <1>8
  <2> QED BY ONLY <2>1, <2>2
<1>11. Given(r) \subseteq answered
  BY ONLY <1>5, <1>6, <1>10
<1>12. \A i, k \in DOMAIN r.turns : i < k => r.turns[i].id < r.turns[k].id
  <2> SUFFICES ASSUME NEW i \in 1..m, NEW k \in 1..m, i < k PROVE r.turns[i].id < r.turns[k].id
    BY <1>8
  <2>1. n - m + i < n - m + k
    BY <1>4
  <2> QED BY <1>5, <1>6, <1>8, <2>1
<1>13. ASSUME NEW b \in answered, NEW c \in Given(r), b > c PROVE b \in Given(r)
  <2>1. PICK i \in 1..m : c = asked[n - m + i].born
    BY <1>10
  <2>2. n # 0
    BY ONLY <2>1, n \in Nat, m \in 0..n
  <2>3. PICK k \in 1..n : b = asked[k].born
    BY <1>5, <2>2
  <2>4. ~(k <= n - m + i)
    <3>1. b \in Nat /\ c \in Nat /\ ~(b < c) /\ b # c
      BY ONLY <1>5, <1>6, <1>13, <2>1, <2>3
    <3>2. n - m + i \in 1..n /\ (k < n - m + i => b < c)
      BY ONLY <1>5, <1>6, <2>1, <2>3
    <3>3. k # n - m + i
      BY ONLY <2>1, <2>3, <3>1
    <3> QED BY ONLY <3>1, <3>2, <3>3, <2>3
  <2>5. k - (n - m) \in 1..m /\ n - m + (k - (n - m)) = k
    BY ONLY <2>1, <2>3, <2>4, n \in Nat, m \in 0..n
  <2> QED BY <1>10, <2>3, <2>5
<1>14. 2 * Len(r.turns) < MaxHistory \/ r.turns = <<>>
  BY <1>2, <1>4, <1>9
<1>15. {i \in DOMAIN r.turns : r.turns[i].full} = Newest(r.turns, r.ids)
  <2>1. PICK wanted :
          wanted = {i \in DOMAIN list : i + ReplayFull > Len(list) \/ list[i].born \in ids}
    OBVIOUS
  <2>2. FullTurns(list, ids) = {i \in wanted : Cardinality(Later(wanted, i)) < ReplayMaxFull}
    <3>1. Len(list) \in Nat /\ DOMAIN list = 1..Len(list)
      BY <1>2
    <3> QED BY <2>1, <3>1, FullTurnsIs
  <2>3. wanted = {i \in DOMAIN r.turns : \/ i + ReplayFull > Len(r.turns)
                                         \/ r.turns[i].id \in r.ids}
    BY ONLY <1>7, <1>8, <1>9, <2>1
  <2>4. Newest(r.turns, r.ids) = {i \in wanted : Cardinality(Later(wanted, i)) < ReplayMaxFull}
    BY <2>3, Zenon DEF Newest, Later
  <2>5. wanted \subseteq 1..m
    BY <1>7, <2>1
  <2>6. {i \in DOMAIN r.turns : r.turns[i].full} = {i \in 1..m : i \in FullTurns(list, ids)}
    BY ONLY <1>8
  <2> QED BY ONLY <2>2, <2>4, <2>5, <2>6
<1>16. ASSUME session[s] = "live" PROVE GivenAll(r, answered)
  <2>1. CASE m = n
    <3>1. \A i \in 1..n : n - m + i = i
      BY <2>1
    <3>2. Given(r) = {asked[i].born : i \in 1..n}
      BY ONLY <1>10, <2>1, <3>1
    <3>3. Given(r) = answered
      BY ONLY <1>5, <1>16, <3>2
    <3> QED BY <3>3 DEF GivenAll
  <2>2. CASE m # n
    BY <1>2, <1>3, <1>4, <1>9, <2>2 DEF GivenAll
  <2> QED BY <2>1, <2>2
<1>17. GivenOf(r, answered)
  BY <1>11, <1>12, <1>13, <1>14, <1>15 DEF GivenOf
<1> QED BY <1>16, <1>17

LEMMA GivesStays ==
  ASSUME Inv, Kept, Grows, NEW w \in Writers, stage[w] = "ask", Gives(w), Stays(w)
  PROVE  Gives(w)'
<1>1. PICK r : r = replay[w]
  OBVIOUS
<1>2. PICK s \in Sessions : s = about[w]
  BY DEF Inv, WritersKnowTheirs
<1>3. replay'[w] = r /\ about'[w] = s
  BY <1>1, <1>2 DEF Stays
<1>4. r.at \in 0..Len(history) /\ Len(history) \in Nat /\ session[s] # "new"
  <2>1. WritersAreLate
    BY DEF Kept
  <2> QED BY <1>1, <1>2, <2>1 DEF WritersAreLate, Grows
<1>5. \A b \in 1..r.at : history'[b] = history[b]
  BY <1>4 DEF Grows
<1>6. Answered(about[w], replay[w].at)' = Answered(about[w], replay[w].at)
  BY ONLY <1>1, <1>2, <1>3, <1>5 DEF Answered
<1>7. session'[s] = "live" => session[s] = "live"
  BY <1>4 DEF Grows
<1> QED BY <1>1, <1>2, <1>3, <1>6, <1>7 DEF Gives, GivenOf, GivenAll, Given, Newest

LEMMA GivesRead ==
  ASSUME Inv, Kept, NEW w \in Writers, NEW ids, ReadHistory(w, ids)
  PROVE  Gives(w)'
<1>1. stage[w] = "opened" /\ UNCHANGED <<session, history, about>>
  BY DEF ReadHistory, tables
<1>2. PICK s \in Sessions : s = about[w]
  BY <1>1 DEF Inv, WritersKnowTheirs
<1>3. PICK list : list = Replayed(s)
  OBVIOUS
<1>4. PICK r :
        r = [at |-> Len(history), ids |-> ids \cap {list[i].born : i \in DOMAIN list},
             turns |-> [i \in DOMAIN list |->
               [id |-> list[i].born, full |-> i \in FullTurns(list, ids)]]]
  OBVIOUS
<1>5. replay'[w] = r
  <2>1. DOMAIN replay = Writers
    BY DEF Kept, ReplaysAreOfWriters
  <2>2. replay' = [replay EXCEPT ![w] = r]
    BY <1>2, <1>3, <1>4 DEF ReadHistory
  <2> QED BY <2>1, <2>2
<1>6. PICK answered : answered = Answered(s, Len(history))
  OBVIOUS
<1>7. GivenOf(r, answered) /\ (session[s] = "live" => GivenAll(r, answered))
  BY <1>3, <1>4, <1>6, ReadGives
<1>8. r.at = Len(history)
  BY <1>4
<1>9. Answered(about[w], replay[w].at)' = answered
  BY ONLY <1>1, <1>2, <1>5, <1>6, <1>8 DEF Answered
<1> QED BY ONLY <1>1, <1>2, <1>5, <1>7, <1>9 DEF Gives, GivenOf, GivenAll, Given, Newest

-----------------------------------------------------------------------------
Replays == Kept /\ ReplayKeepsNewest

LEMMA InitReplays == Init => Replays
<1> SUFFICES ASSUME Init PROVE Replays
  OBVIOUS
<1>1. turns = {} /\ Len(history) = 0 /\ \A w \in Writers : stage[w] = "idle"
  BY DEF Init
<1>2. RowsAreHistory /\ BornInOrder /\ AnswersStay
  BY <1>1 DEF RowsAreHistory, BornInOrder, AnswersStay
<1>3. ReplaysAreOfWriters
  BY DEF Init, ReplaysAreOfWriters
<1>4. WritersAreLate /\ ReplayKeepsNewest
  BY <1>1, ReplayKeepsNewestIs DEF WritersAreLate
<1> QED BY <1>2, <1>3, <1>4 DEF Replays, Kept

LEMMA NextReplays == Inv /\ Replays /\ [Next]_vars => Replays'
<1> SUFFICES ASSUME Inv, Replays, [Next]_vars PROVE Replays'
  OBVIOUS
<1>1. Kept /\ Grows
  BY StepGrows DEF Replays
<1>2. Kept'
  BY <1>1, RowsKept, StepOfReplays, WritersStayLate DEF Kept
<1>3. ASSUME NEW w \in Writers, stage'[w] = "ask" PROVE Gives(w)'
  <2>1. CASE Stays(w)
    <3>1. stage[w] = "ask"
      BY <1>3, <2>1 DEF Stays
    <3>2. Gives(w)
      BY <3>1, ReplayKeepsNewestIs DEF Replays
    <3> QED BY <1>1, <2>1, <3>1, <3>2, GivesStays
  <2>2. CASE Begins(w)
    BY <1>3, <2>2 DEF Begins
  <2>3. ASSUME NEW ids, ReadHistory(w, ids) PROVE Gives(w)'
    BY <1>1, <2>3, GivesRead
  <2> QED BY <1>1, <1>3, <2>1, <2>2, <2>3, StepOfWriter DEF Kept
<1>4. ReplayKeepsNewest'
  <2>1. \A w \in Writers : stage'[w] = "ask" => Gives(w)'
    BY <1>3
  <2>2. (ReplayKeepsNewest <=> \A w \in Writers : stage[w] = "ask" => Gives(w))'
    BY ReplayKeepsNewestIs, PTL
  <2> QED BY <2>1, <2>2
<1> QED BY <1>2, <1>4 DEF Replays

(* An ask is given the newest answered questions of its own session
   (build_history_messages of agent/loop_.rs over list_turns): in the order they
   were committed, none left out between them, none of a question that failed or
   was cancelled, as many as the message limit allows, with the tool results of
   the newest ones it wants up to the quota, whoever writes, edits or deletes
   while it runs and whatever turns the client named. *)
THEOREM NewestAreReplayed == Spec => []ReplayKeepsNewest
<1>1. Spec => [](Inv /\ Replays)
  BY InitInv, NextInv, InitReplays, NextReplays, PTL DEF Spec
<1>2. Inv /\ Replays => ReplayKeepsNewest
  BY DEF Replays
<1> QED BY <1>1, <1>2, PTL

=============================================================================

------------------------------- MODULE Pairing ------------------------------
(***************************************************************************)
(* One-time pairing codes (pairing.rs, and the routes /v1/pair/issue and   *)
(* /v1/pair): the codes issued, their expiry, and the ledger of failures   *)
(* of the source the requests come from, with its two locks taken one      *)
(* after the other.                                                        *)
(*                                                                         *)
(* Abstractions.  Codes are never guessed twice over: a code is a number   *)
(* given out once, and 0 is any code that was never issued.  One source    *)
(* address (ledgers of two addresses share nothing).  The clock ticks once *)
(* per Window; a code lives TTL ticks.                                     *)
(***************************************************************************)
EXTENDS Settings

CONSTANTS
  MaxFailures,   \* MAX_FAILURES
  TTL,           \* lifetime of a code, in ticks
  MaxClock       \* bound of the clock

ASSUME PairingAssumption == MaxFailures \in Nat \ {0} /\ TTL \in Nat /\ MaxClock \in Nat

VARIABLES
  codes,      \* PairingStore.inner: the expiry of each code in the store
  issued,     \* when each code was issued
  ledger,     \* the FailureWindow of the source: its failures and the first one's time
  clock,
  redeemed    \* <<code, time>> of each accepted pairing, in order

pairingVars == <<codes, issued, ledger, clock, redeemed>>

NoFailures == [count |-> 0, first |-> 0]

PairingInit ==
  /\ codes = << >> /\ issued = << >> /\ ledger = NoFailures /\ clock = 0 /\ redeemed = << >>

Restricted(f, S) == [x \in S |-> f[x]]

-----------------------------------------------------------------------------
(* FailureWindow: a window of one tick. *)

Lapsed(w)    == w.count = 0 \/ clock - w.first > 1
OverLimit(w) == w.count >= MaxFailures /\ ~Lapsed(w)
Recorded(w)  ==
  IF Lapsed(w) THEN [count |-> 1, first |-> clock] ELSE [w EXCEPT !.count = @ + 1]

\* prune: the codes still alive.
Alive(c) == c \in DOMAIN codes /\ codes[c] >= clock
Pruned   == {c \in DOMAIN codes : codes[c] >= clock}

\* Mutant: a code that pairs stays in the store.
RemainingWithIt(c) == Pruned
Remaining(c) == Pruned \ {c}

-----------------------------------------------------------------------------

Issue(s) ==
  /\ Arrive(s, "issue", Idle)
  /\ issued' = Append(issued, clock)
  /\ codes' = [c \in Pruned \cup {Len(issued')} |-> issued'[c] + TTL]
  /\ UNCHANGED <<settingsVars, up, ledger, clock, redeemed>>

PairArrives(s) ==
  /\ \E c \in 0 .. Len(issued) :
       Arrive(s, "pair", [Idle EXCEPT !.op = "pair", !.pc = "check", !.arg = c])
  /\ UNCHANGED <<settingsVars, up, pairingVars>>

\* The ledger is checked under its lock, which is then released.
PairChecks(s) ==
  /\ At(s, "pair", "check")
  /\ LET kept == IF Lapsed(ledger) THEN NoFailures ELSE ledger IN
     /\ ledger' = kept
     /\ IF OverLimit(kept) THEN Done(s) ELSE Step(s, "redeem")
  /\ UNCHANGED <<todo, settingsVars, up, codes, issued, clock, redeemed>>

Redeem(s) ==
  /\ At(s, "pair", "redeem")
  /\ LET c == job[s].arg IN
     /\ codes' = Restricted(codes, Remaining(c))
     /\ IF Alive(c)
        THEN Step(s, "forgive") /\ redeemed' = Append(redeemed, <<c, clock>>)
        ELSE Step(s, "record") /\ UNCHANGED redeemed
  /\ UNCHANGED <<todo, settingsVars, up, issued, ledger, clock>>

\* 401, or 429 when this very failure tipped the source over.
PairFails(s) ==
  /\ At(s, "pair", "record")
  /\ ledger' = Recorded(ledger)
  /\ Done(s)
  /\ UNCHANGED <<todo, settingsVars, up, codes, issued, clock, redeemed>>

\* The ledger forgets the source; an extension that sent its origin has it persisted.
PairSucceeds(s) ==
  /\ At(s, "pair", "forgive")
  /\ ledger' = NoFailures
  /\ \/ job' = [job EXCEPT ![s].pc = "origin", ![s].arg = 0]
     \/ Done(s)
  /\ UNCHANGED <<todo, settingsVars, up, codes, issued, clock, redeemed>>

\* Time passes, where anything can see it.
Tick ==
  /\ clock < MaxClock
  /\ codes # << >> \/ ledger # NoFailures
  /\ clock' = clock + 1
  /\ UNCHANGED <<todo, job, settingsVars, up, codes, issued, ledger, redeemed>>
=============================================================================

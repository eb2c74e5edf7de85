---------------------------- MODULE Conversation ----------------------------
(***************************************************************************)
(* What the review store promises about a session: it is a list of entries  *)
(* in the order they were committed.  Questions stay as they are until the   *)
(* session is deleted; notes may be edited or withdrawn; a deleted session   *)
(* has no entry, and gets none.                                             *)
(***************************************************************************)
EXTENDS Naturals, SequencesExt

CONSTANTS Sessions, Entries, IsNote(_)

VARIABLES
  live,   \* sessions that exist
  log     \* the entries of each session

Init == live = {} /\ log = [s \in Sessions |-> <<>>]

Added(old, new) == new # <<>> /\ Last(new) \in Entries /\ new = Append(old, Last(new))

Edited(old, new) ==
  /\ Len(new) = Len(old)
  /\ \E i \in DOMAIN old :
       IsNote(old[i]) /\ IsNote(new[i]) /\ new = [old EXCEPT ![i] = new[i]]

Withdrawn(old, new) == \E i \in DOMAIN old : IsNote(old[i]) /\ new = RemoveAt(old, i)

Write(s) ==
  /\ s \in live /\ log'[s] # log[s]
  /\ Added(log[s], log'[s]) \/ Edited(log[s], log'[s]) \/ Withdrawn(log[s], log'[s])
  /\ UNCHANGED live

Begin(s) ==
  /\ s \notin live
  /\ live' = live \cup {s}
  /\ UNCHANGED log

Delete(s) ==
  /\ s \in live
  /\ live' = live \ {s}
  /\ log'[s] = <<>>

Next ==
  \E s \in Sessions :
    /\ Begin(s) \/ Delete(s) \/ Write(s)
    /\ \A r \in Sessions \ {s} : log'[r] = log[r]

Spec == Init /\ [][Next]_<<live, log>>
=============================================================================

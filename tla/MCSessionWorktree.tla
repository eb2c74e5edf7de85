------------------------- MODULE MCSessionWorktree -------------------------
(* Two pull requests of one clone: r1, which two requests are for, and r2, which one is for.
   Two requests are made (bound): two for r1, or one for each ref.  Only r1 is pushed, and
   checkouts are evicted only beside r1's requests and after its last push (bounds). *)
EXTENDS SessionWorktree

CONSTANTS r1, r2, j1, j2, j3

MCRefOf == [j \in Jobs |-> IF j = j3 THEN r2 ELSE r1]
MCOneClone == [r \in Refs |-> "clone"]
MCOwnDir == [r \in Refs |-> r]
MCEarlier == {<<r1>>}

MCNext ==
  /\ Next
  /\ task'[j3] # "idle" => task'[j2] = "idle" /\ sweep' = <<>>
  /\ origin'[r2] = 1
  /\ sweep' # <<>> => origin[r1] = MaxPushes

MCSpec == Init /\ [][MCNext]_vars /\ \A j \in Jobs : WF_vars(Task(j))
=============================================================================

---------------------------- MODULE SnapshotFeed ----------------------------
(***************************************************************************)
(* What the daemon promises its clients about state: a value published to  *)
(* a group, atomically.  Whoever is in the group has been handed the       *)
(* published value and nothing newer; publishing hands the new value to    *)
(* the whole group in one step, and joining hands the newcomer the value   *)
(* current at that step.  No member is ever ahead of or behind another.    *)
(***************************************************************************)
CONSTANTS Members, Values, None

VARIABLES
  published,  \* newest value handed out, None before the first
  group,      \* the members
  copy        \* per member, the newest value it was handed; None outside

feedVars == <<published, group, copy>>

FeedInit ==
  /\ published = None
  /\ group = {}
  /\ copy = [m \in Members |-> None]

\* Every member of g, and nobody else, now holds v.
Handed(g, v) == [m \in Members |-> IF m \in g THEN v ELSE None]

\* A new value goes to the whole group, or to nobody if there is no group.
Publish(v) ==
  /\ v # published
  /\ published' = v
  /\ UNCHANGED group
  /\ copy' = Handed(group, v)

\* A newcomer is handed the current value; if it is new, so is everybody.
Join(m, v) ==
  /\ m \notin group
  /\ published' = v
  /\ group' = group \cup {m}
  /\ copy' = Handed(group', v)

Leave(m) ==
  /\ m \in group
  /\ group' = group \ {m}
  /\ copy' = [copy EXCEPT ![m] = None]
  /\ UNCHANGED published

FeedNext ==
  \/ \E v \in Values : Publish(v)
  \/ \E m \in Members, v \in Values : Join(m, v)
  \/ \E m \in Members : Leave(m)

FeedSpec == FeedInit /\ [][FeedNext]_feedVars
=============================================================================

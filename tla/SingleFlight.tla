---------------------------- MODULE SingleFlight ----------------------------
(***************************************************************************)
(* What the filter list store promises of its downloads, without saying    *)
(* how: for each key one caller at most leads a download, the callers that *)
(* meet it wait for it and all go on when it is over, and no more than     *)
(* Slots of the downloads are active at a time.                            *)
(***************************************************************************)
EXTENDS Naturals, FiniteSets

CONSTANTS Caller, Key, NoKey, Slots

VARIABLE part   \* per caller: the role it has in the download of a key

Role == {"leads", "active", "waits"}
None == [role |-> "none", key |-> NoKey]
Part == {None} \cup [role : Role, key : Key]

Leads(c, k) == part[c].role \in {"leads", "active"} /\ part[c].key = k
Active == {c \in Caller : part[c].role = "active"}
Becomes(c, role, k) == part' = [part EXCEPT ![c] = [role |-> role, key |-> k]]

Init == part = [c \in Caller |-> None]

Lead(c, k) == part[c] = None /\ ~(\E x \in Caller : Leads(x, k)) /\ Becomes(c, "leads", k)
Join(c, k) == part[c] = None /\ (\E x \in Caller : Leads(x, k)) /\ Becomes(c, "waits", k)

Activate(c) == /\ part[c].role = "leads" /\ Cardinality(Active) < Slots
               /\ Becomes(c, "active", part[c].key)
Pause(c) == part[c].role = "active" /\ Becomes(c, "leads", part[c].key)

\* The end of a download is the end of the wait for all that wait for it.
Leave(c, k) ==
  /\ Leads(c, k)
  /\ part' = [x \in Caller |-> IF x = c \/ part[x] = [role |-> "waits", key |-> k]
                               THEN None ELSE part[x]]

GiveUp(c) == part[c].role = "waits" /\ part' = [part EXCEPT ![c] = None]

Next == \E c \in Caller : \/ Activate(c) \/ Pause(c) \/ GiveUp(c)
                          \/ \E k \in Key : Lead(c, k) \/ Join(c, k) \/ Leave(c, k)

Spec == Init /\ [][Next]_part
=============================================================================

------------------------------ MODULE ListCache ------------------------------
(***************************************************************************)
(* What the filter list store takes for granted of its cache.  Per list it *)
(* has the bytes of one response and describes them (validators, expiry):  *)
(* rightly, or by a response from before.  It writes its descriptions      *)
(* behind, one index for all lists, and a crash leaves the bytes and the   *)
(* index.  Responses are numbered in the order in which they are promoted. *)
(***************************************************************************)
EXTENDS Naturals

CONSTANTS
  Hash,     \* the lists
  Response  \* the responses, numbers from 0 for none

VARIABLES
  running,
  bytes,    \* per list: the response whose bytes there are, 0 for none
  known,    \* per list: {the response that its entry describes}, {} for no entry
  saved,    \* the same in the index on disk
  landing   \* {<<list, response>>}: its bytes are in place, its entry is to follow

vars == <<running, bytes, known, saved, landing>>

Description == {{}} \cup {{r} : r \in Response}

Init ==
  /\ running = TRUE
  /\ bytes = [h \in Hash |-> 0]
  /\ known = [h \in Hash |-> {}]
  /\ saved = [h \in Hash |-> {}]
  /\ landing = {}

\* A promotion: the bytes first, newer than whatever there is of the list ...
Land(h, r) ==
  /\ running /\ landing = {}
  /\ \A old \in {bytes[h]} \cup known[h] \cup saved[h] : old < r
  /\ bytes' = [bytes EXCEPT ![h] = r]
  /\ landing' = {<<h, r>>}
  /\ UNCHANGED <<running, known, saved>>

\* ... then the entry of those bytes.
Describe(h, r) ==
  /\ <<h, r>> \in landing
  /\ landing' = {}
  /\ known' = [known EXCEPT ![h] = {r}]
  /\ UNCHANGED <<running, bytes, saved>>

\* The files may be removed by others.
Purge(h) ==
  /\ bytes[h] # 0
  /\ bytes' = [bytes EXCEPT ![h] = 0]
  /\ UNCHANGED <<running, known, saved, landing>>

\* An entry goes when its bytes have gone; or when others took their place, if
\* the entry of those is about to come.
Drop(h) ==
  /\ bytes[h] = 0 \/ \E r \in Response : <<h, r>> \in landing
  /\ known' = [known EXCEPT ![h] = {}]
  /\ UNCHANGED <<running, bytes, saved, landing>>

\* An index written late, by whichever call, takes back no description that is
\* saved and still right, and describes no response that has not landed.
Save ==
  /\ running
  /\ saved' \in [Hash -> Description]
  /\ \A h \in Hash :
       /\ known[h] # {} /\ saved[h] = known[h] => saved'[h] = known[h]
       /\ bytes[h] # 0 => \A r \in saved'[h] : r <= bytes[h]
  /\ UNCHANGED <<running, bytes, known, landing>>

Crash ==
  /\ running
  /\ running' = FALSE
  /\ known' = [h \in Hash |-> {}]
  /\ landing' = {}
  /\ UNCHANGED <<bytes, saved>>

\* Every file is known again, as the index describes it if it does and can be
\* read, otherwise as one of which nothing is known; or it is collected.
Restart ==
  /\ ~running
  /\ running' = TRUE
  /\ \E readable \in BOOLEAN, collected \in SUBSET Hash :
       /\ bytes' = [h \in Hash |-> IF h \in collected THEN 0 ELSE bytes[h]]
       /\ known' = [h \in Hash |-> CASE bytes'[h] = 0 -> {}
                                     [] bytes'[h] # 0 /\ readable /\ saved[h] # {} -> saved[h]
                                     [] OTHER -> {0}]
  /\ UNCHANGED <<saved, landing>>

Next ==
  \/ \E h \in Hash : Purge(h) \/ Drop(h) \/ \E r \in Response : Land(h, r) \/ Describe(h, r)
  \/ Save \/ Crash \/ Restart

Spec == Init /\ [][Next]_vars

-----------------------------------------------------------------------------
\* What the store needs: the validators that it sends are never those of bytes it
\* does not have, and no list is kept on disk and forgotten.
NotNewer ==
  \A h \in Hash : bytes[h] # 0 => \A r \in known[h] \cup saved[h] : r <= bytes[h]
NoneForgotten ==
  running => \A h \in Hash :
    bytes[h] # 0 => known[h] # {} \/ \E r \in Response : <<h, r>> \in landing
Reliable == NotNewer /\ NoneForgotten
=============================================================================

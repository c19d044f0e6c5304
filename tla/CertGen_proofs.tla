---------------------------- MODULE CertGen_proofs ----------------------------
(***************************************************************************)
(* What CertGen says of the chains it serves, for any threads and hosts,   *)
(* any bound on the clock, and any durations in the order of the code's.   *)
(***************************************************************************)
EXTENDS CertGen, FiniteSetTheorems, TLAPS

-----------------------------------------------------------------------------
(* The inductive invariant                                                 *)

(* The clock, the intermediate and the entries have their types.  Which    *)
(* hosts the cache keeps, and in which order, does not matter for chains.  *)
FieldsOK ==
  /\ now \in 0 .. MaxTime /\ peak \in now .. MaxTime
  /\ cert \in Period \cup {None}
  /\ \A h \in DOMAIN cache : cache[h] \in Entry
  /\ pc \in [Thread -> {"idle", "issue", "sign", "put"}]
  /\ issuer \in [Thread -> Period \cup {None}]
  /\ leaf \in [Thread -> Leaf \cup {None}]
  /\ \A t \in Thread : /\ pc[t] = "sign" => issuer[t] \in Period
                       /\ pc[t] = "put"  => leaf[t] \in Leaf

(* Whatever was signed, was signed when the clock showed some time up to   *)
(* its peak, and backdated from there.                                     *)
Backdated(p) == p.from <= peak - Backdate

(* A leaf is backdated, like its issuer, and ends no later than it.        *)
GoodLeaf(l) == Backdated(l) /\ Backdated(l.issuer) /\ l.to <= l.issuer.to

ChainInv ==
  /\ cert # None => Backdated(cert)
  /\ \A t \in Thread : /\ pc[t] = "sign" => Backdated(issuer[t])
                       /\ pc[t] = "put"  => GoodLeaf(leaf[t])
  /\ \A h \in DOMAIN cache : /\ GoodLeaf(cache[h].leaf)
                             /\ cache[h].expiresAt = cache[h].leaf.to - Margin

IInv == FieldsOK /\ ChainInv

-----------------------------------------------------------------------------
(* The types of certificates                                               *)

(* The durations, and their order.                                         *)
LEMMA Durations ==
  /\ TTL \in Nat /\ Backdate \in Nat /\ Margin \in Nat /\ Retry \in Nat /\ MaxTime \in Nat
  /\ TTL > 0 /\ Margin <= Backdate /\ Backdate < TTL
BY CertGenAssumption

(* The periods of certificates are made of integers.                       *)
LEMMA Periods ==
  /\ \A p \in Period : p.from \in -Backdate .. MaxTime /\ p.to \in 0 .. Forever
  /\ \A l \in Leaf : /\ l.from \in -Backdate .. MaxTime /\ l.to \in 0 .. MaxTime + TTL
                     /\ l.issuer \in Period
  /\ \A e \in Entry : e.leaf \in Leaf /\ e.expiresAt \in Int
BY Durations DEF Period, Leaf, Entry

(* The issuers are certificates, signed now at the latest, and valid now.  *)
LEMMA Issuers ==
  ASSUME now \in 0 .. MaxTime, peak \in now .. MaxTime
  PROVE  \A p \in {Root, Intermediate} :
           p \in Period /\ Backdated(p) /\ p.from <= now /\ now < p.to
BY Durations DEF Root, Intermediate, Period, Forever, Backdated

(* So is a leaf of a good issuer good.                                     *)
LEMMA NewLeaf ==
  ASSUME now \in 0 .. MaxTime, peak \in now .. MaxTime,
         NEW p \in Period, Backdated(p)
  PROVE  LeafFrom(p) \in Leaf /\ GoodLeaf(LeafFrom(p))
<1>1. p.from \in Int /\ p.to \in 0 .. Forever
  BY Periods
<1>2. Minimum(now + TTL, p.to) \in 0 .. MaxTime + TTL /\ Minimum(now + TTL, p.to) <= p.to
  BY <1>1, Durations DEF Minimum, Forever
<1>3. QED
  BY <1>1, <1>2, Durations DEF LeafFrom, Leaf, GoodLeaf, Backdated

(* The clock's peak only grows, and what is good stays so.                 *)
LEMMA PeakGrows ==
  ASSUME peak \in Int, peak' \in Int, peak' >= peak
  PROVE  /\ \A p \in Period : Backdated(p) => Backdated(p)'
         /\ \A l \in Leaf : GoodLeaf(l) => GoodLeaf(l)'
BY Periods, Durations DEF Backdated, GoodLeaf

-----------------------------------------------------------------------------
(* The steps                                                               *)

(* The cache only loses entries, or gains one that a thread has in hand.   *)
CacheLoses == DOMAIN cache' \subseteq DOMAIN cache /\ \A h \in DOMAIN cache' : cache'[h] = cache[h]

(* While the clock stands, the cache loses entries and the threads only    *)
(* give up what they have, the invariant stands too.                       *)
LEMMA LosingStep ==
  ASSUME IInv, CacheLoses, UNCHANGED <<now, peak, cert>>,
         pc' \in [Thread -> {"idle", "issue", "sign", "put"}],
         issuer' \in [Thread -> Period \cup {None}], leaf' \in [Thread -> Leaf \cup {None}],
         \A t \in Thread : \/ pc'[t] \in {"idle", "issue"}
                           \/ pc'[t] = pc[t] /\ issuer'[t] = issuer[t] /\ leaf'[t] = leaf[t]
  PROVE  IInv'
<1>1. FieldsOK'
  BY DEF IInv, FieldsOK, CacheLoses
<1>2. ChainInv'
  BY DEF IInv, ChainInv, CacheLoses, GoodLeaf, Backdated
<1>3. QED
  BY <1>1, <1>2 DEF IInv

(* A thread that is done has nothing in hand.                              *)
LEMMA DoneTypes ==
  ASSUME FieldsOK, NEW t \in Thread, Done(t)
  PROVE  /\ pc' \in [Thread -> {"idle", "issue", "sign", "put"}]
         /\ issuer' \in [Thread -> Period \cup {None}] /\ leaf' \in [Thread -> Leaf \cup {None}]
         /\ pc'[t] = "idle"
         /\ \A x \in Thread \ {t} : pc'[x] = pc[x] /\ issuer'[x] = issuer[x] /\ leaf'[x] = leaf[x]
BY DEF FieldsOK, Done

(* The cache's Get only loses an entry.                                    *)
LEMMA GetStep ==
  ASSUME IInv, NEW t \in Thread, NEW h \in Host, Get(t, h)
  PROVE  IInv'
<1>1. CacheLoses
  BY DEF Get, Without, Restrict, CacheLoses
<1>2. CASE UNCHANGED thread
  BY <1>1, <1>2, LosingStep DEF Get, thread, IInv, FieldsOK
<1>3. CASE pc' = [pc EXCEPT ![t] = "issue"] /\ UNCHANGED <<issuer, leaf>>
  BY <1>1, <1>3, LosingStep DEF Get, IInv, FieldsOK
<1>4. QED
  BY <1>2, <1>3 DEF Get

(* The issuer of a step of Issue, and that it is good, when it has one.    *)
LEMMA IssueGives ==
  ASSUME FieldsOK, ChainInv, NEW t \in Thread, Issue(t)
  PROVE  \/ Done(t) /\ UNCHANGED cert
         \/ /\ pc' = [pc EXCEPT ![t] = "sign"] /\ leaf' = leaf
            /\ \E p \in Period : /\ issuer' = [issuer EXCEPT ![t] = p]
                                 /\ Backdated(p) /\ p.from <= now /\ now < p.to
            /\ cert' = cert \/ cert' = Intermediate
<1>1. now \in 0 .. MaxTime /\ peak \in now .. MaxTime /\ cert \in Period \cup {None}
  BY DEF FieldsOK
<1>2. Usable => cert \in Period /\ Backdated(cert) /\ cert.from <= now /\ now < cert.to
  BY <1>1 DEF Usable, ChainInv
<1>3. CASE ~hardware
  BY <1>1, <1>3, Issuers DEF Issue
<1>4. CASE hardware /\ pc' = [pc EXCEPT ![t] = "sign"] /\ cert' = Intermediate
           /\ issuer' = [issuer EXCEPT ![t] = cert'] /\ leaf' = leaf
  BY <1>1, <1>4, Issuers
<1>5. CASE hardware /\ pc' = [pc EXCEPT ![t] = "sign"] /\ Usable /\ cert' = cert
           /\ issuer' = [issuer EXCEPT ![t] = cert'] /\ leaf' = leaf
  BY <1>2, <1>5
<1>6. CASE hardware /\ Done(t) /\ cert' = cert
  BY <1>6
<1>7. QED
  BY <1>3, <1>4, <1>5, <1>6 DEF Issue

(* A thread that reads the issuer, rotating it or not, has a backdated one.*)
LEMMA IssueStep ==
  ASSUME IInv, NEW t \in Thread, Issue(t)
  PROVE  IInv'
<1>1. UNCHANGED <<now, peak, cache>>
  BY DEF Issue
<1>2. CASE Done(t) /\ UNCHANGED cert
  BY <1>1, <1>2, DoneTypes, LosingStep DEF IInv, CacheLoses
<1>3. ASSUME NEW p \in Period, pc' = [pc EXCEPT ![t] = "sign"], leaf' = leaf,
             issuer' = [issuer EXCEPT ![t] = p], Backdated(p),
             cert' = cert \/ cert' = Intermediate
      PROVE  IInv'
  <2>1. cert' = cert \/ (cert' \in Period /\ Backdated(cert'))
    BY <1>3, Issuers DEF IInv, FieldsOK
  <2>2. FieldsOK'
    BY <1>1, <1>3, <2>1 DEF IInv, FieldsOK
  <2>3. ChainInv'
    BY <1>1, <1>3, <2>1 DEF IInv, FieldsOK, ChainInv, GoodLeaf, Backdated
  <2>4. QED
    BY <2>2, <2>3 DEF IInv
<1>4. QED
  BY <1>2, <1>3, IssueGives DEF IInv

(* A thread that signs has a good leaf.                                    *)
LEMMA SignStep ==
  ASSUME IInv, NEW t \in Thread, Sign(t)
  PROVE  IInv'
<1> DEFINE l == LeafFrom(issuer[t])
<1>1. l \in Leaf /\ GoodLeaf(l)
  BY NewLeaf DEF IInv, FieldsOK, ChainInv, Sign
<1>2. /\ leaf' = [leaf EXCEPT ![t] = l] /\ pc' = [pc EXCEPT ![t] = "put"]
      /\ UNCHANGED <<now, peak, cert, cache, issuer>>
  BY DEF Sign
<1>3. FieldsOK'
  BY <1>1, <1>2 DEF IInv, FieldsOK
<1>4. ChainInv'
  BY <1>1, <1>2 DEF IInv, FieldsOK, ChainInv, GoodLeaf, Backdated
<1>5. QED
  BY <1>3, <1>4 DEF IInv

(* The entry that Put makes is of the good leaf the thread has.            *)
LEMMA PutStep ==
  ASSUME IInv, NEW t \in Thread, Put(t)
  PROVE  IInv'
<1> DEFINE l == leaf[t]
           e == [leaf |-> l, expiresAt |-> l.to - Margin]
<1>1. l \in Leaf /\ GoodLeaf(l) /\ Done(t) /\ UNCHANGED <<now, peak, cert>>
  BY DEF Put, IInv, FieldsOK, ChainInv
<1>2. e \in Entry
  <2>1. l.to - Margin \in -Margin .. MaxTime + TTL
    BY <1>1, Periods, Durations
  <2>2. QED
    BY <1>1, <2>1 DEF Entry
<1>3. \A h \in DOMAIN cache' : cache'[h] = e \/ (h \in DOMAIN cache /\ cache'[h] = cache[h])
  BY DEF Put, Entered
<1>4. FieldsOK'
  BY <1>1, <1>2, <1>3, DoneTypes DEF IInv, FieldsOK
<1>5. ChainInv'
  BY <1>1, <1>3, DoneTypes DEF IInv, FieldsOK, ChainInv, GoodLeaf, Backdated
<1>6. QED
  BY <1>4, <1>5 DEF IInv

(* When the clock goes on, its peak may grow; when it is set back, it stands.*)
LEMMA ClockStep ==
  ASSUME IInv, Clock
  PROVE  IInv'
<1>1. now' \in 0 .. MaxTime /\ peak' \in now' .. MaxTime /\ peak' >= peak
  BY Durations DEF Clock, Minimum, IInv, FieldsOK
<1>2. UNCHANGED <<cert, cache, pc, issuer, leaf>>
  BY DEF Clock, thread
<1>3. FieldsOK'
  BY <1>1, <1>2 DEF IInv, FieldsOK
<1>4. /\ \A p \in Period : Backdated(p) => Backdated(p)'
      /\ \A l \in Leaf : GoodLeaf(l) => GoodLeaf(l)'
  BY <1>1, Durations, PeakGrows DEF IInv, FieldsOK
<1>5. ChainInv'
  BY <1>2, <1>4, Periods DEF IInv, FieldsOK, ChainInv
<1>6. QED
  BY <1>3, <1>5 DEF IInv

(* Every step keeps the invariant.                                         *)
LEMMA StepInvariant == IInv /\ [Next]_vars => IInv'
<1> SUFFICES ASSUME IInv, [Next]_vars
             PROVE  IInv'
  OBVIOUS
<1>1. CASE Clean
  BY <1>1, LosingStep DEF Clean, Without, Restrict, CacheLoses, thread, IInv, FieldsOK
<1>2. CASE UNCHANGED vars
  BY <1>2, LosingStep DEF vars, CacheLoses, IInv, FieldsOK
<1>3. QED
  BY <1>1, <1>2, GetStep, IssueStep, SignStep, PutStep, ClockStep DEF Next

(* The invariant holds at the start.                                       *)
LEMMA InitInvariant == Init => IInv
BY Durations DEF Init, IInv, FieldsOK, ChainInv

-----------------------------------------------------------------------------
(* The leaf cache                                                          *)

LruInv == DOMAIN cache \subseteq Host /\ list \in Seq(Host) /\ LruAgrees

(* How many places a list of length n has.                                 *)
LEMMA Places == \A n \in Nat : IsFiniteSet(1 .. n) /\ Cardinality(1 .. n) = n
BY FS_Interval

(* The list has as many places as there are hosts in it.                   *)
LEMMA ListFacts ==
  ASSUME LruInv
  PROVE  /\ list \in [1 .. Len(list) -> Host] /\ Len(list) \in Nat /\ IsInjective(list)
         /\ IsFiniteSet(DOMAIN cache) /\ Cardinality(DOMAIN cache) = Len(list)
         /\ DOMAIN cache = ToSet(list) /\ Len(list) <= MaxSize
         /\ list # << >> => Last(list) \in DOMAIN cache
<1>1. /\ list \in [1 .. Len(list) -> Host] /\ Len(list) \in Nat /\ IsInjective(list)
      /\ DOMAIN cache = ToSet(list) /\ Len(list) <= MaxSize
  BY DEF LruInv, LruAgrees
<1>2. /\ list \in Surjection(1 .. Len(list), ToSet(list))
      /\ list \in Injection(1 .. Len(list), ToSet(list))
  BY <1>1 DEF Surjection, Injection, ToSet
<1>3. IsFiniteSet(1 .. Len(list)) /\ Cardinality(1 .. Len(list)) = Len(list)
  BY <1>1, Places
<1>4. IsFiniteSet(ToSet(list)) /\ Cardinality(ToSet(list)) = Len(list)
  BY <1>2, <1>3, FS_Surjection
<1>5. list # << >> => Last(list) \in ToSet(list)
  BY <1>1 DEF Last, ToSet, LruInv
<1>6. QED
  BY <1>1, <1>4, <1>5

(* Hosts put in the order of the list are each there once.                 *)
LEMMA OrderedFacts ==
  ASSUME LruInv, NEW hosts, hosts \subseteq DOMAIN cache, NEW s \in InOrder(hosts)
  PROVE  /\ IsFiniteSet(hosts)
         /\ s \in Seq(Host) /\ IsInjective(s) /\ ToSet(s) = hosts /\ Len(s) = Cardinality(hosts)
<1>1. IsFiniteSet(hosts) /\ Cardinality(hosts) \in Nat
  BY ListFacts, FS_Subset, FS_CardinalityType
<1>2. s \in [1 .. Cardinality(hosts) -> hosts]
  BY DEF InOrder
<1>3. ASSUME NEW i \in DOMAIN s, NEW j \in DOMAIN s, i < j
      PROVE  s[i] # s[j]
  <2>1. PICK a, b \in DOMAIN list : a < b /\ list[a] = s[i] /\ list[b] = s[j]
    BY <1>3 DEF InOrder, Before
  <2>2. a # b
    BY <2>1, ListFacts
  <2>3. QED
    BY <2>1, <2>2, ListFacts DEF IsInjective
<1>4. IsInjective(s)
  BY <1>1, <1>2, <1>3 DEF IsInjective
<1>5. s \in Injection(1 .. Cardinality(hosts), hosts)
  BY <1>2, <1>4 DEF Injection
<1>6. s \in Surjection(1 .. Cardinality(hosts), hosts)
  BY <1>1, <1>5, FS_Injection, FS_Interval
<1>7. ToSet(s) = hosts
  BY <1>2, <1>6 DEF Surjection, ToSet
<1>8. s \in Seq(Host) /\ Len(s) = Cardinality(hosts)
  BY <1>1, <1>2 DEF LruInv
<1>9. QED
  BY <1>1, <1>4, <1>7, <1>8

(* Taking hosts out of the cache takes them out of the list.               *)
LEMMA WithoutAgrees ==
  ASSUME LruInv, NEW hosts, Without(hosts)
  PROVE  LruInv'
<1>1. DOMAIN cache' = DOMAIN cache \ hosts /\ list' \in InOrder(DOMAIN cache \ hosts)
  BY ListFacts DEF Without, Restrict
<1>2. /\ list' \in Seq(Host) /\ IsInjective(list') /\ ToSet(list') = DOMAIN cache \ hosts
      /\ Len(list') = Cardinality(DOMAIN cache \ hosts)
  BY <1>1, OrderedFacts
<1>3. Cardinality(DOMAIN cache \ hosts) <= Cardinality(DOMAIN cache)
  BY ListFacts, FS_Subset
<1>4. Len(list') <= MaxSize
  BY <1>2, <1>3, ListFacts, CertGenAssumption
<1>5. QED
  BY <1>1, <1>2, <1>4 DEF LruInv, LruAgrees

(* A host that comes to the front is there once, and behind it are those   *)
(* that are left.                                                          *)
LEMMA FrontFacts ==
  ASSUME LruInv, NEW h \in Host, NEW evicted, NEW l \in ToFront(h, evicted)
  PROVE  /\ l \in Seq(Host) /\ IsInjective(l) /\ ToSet(l) = {h} \cup (DOMAIN cache \ evicted)
         /\ Len(l) = 1 + Cardinality(DOMAIN cache \ ({h} \cup evicted))
<1> DEFINE rest == DOMAIN cache \ ({h} \cup evicted)
<1>1. PICK s \in InOrder(rest) : l = <<h>> \o s
  BY ListFacts DEF ToFront
<1>2. s \in Seq(Host) /\ IsInjective(s) /\ ToSet(s) = rest /\ Len(s) = Cardinality(rest)
  BY <1>1, OrderedFacts
<1>3. /\ l \in Seq(Host) /\ Len(l) = 1 + Len(s) /\ Len(s) \in Nat
      /\ l[1] = h /\ \A i \in 2 .. Len(l) : l[i] = s[i - 1]
  <2>1. <<h>> \in Seq(Host) /\ Len(<<h>>) = 1 /\ <<h>>[1] = h /\ Len(s) \in Nat
    BY <1>2
  <2>2. l \in Seq(Host) /\ Len(l) = 1 + Len(s)
    BY <1>1, <1>2, <2>1
  <2>3. l[1] = h /\ \A i \in 2 .. Len(l) : l[i] = s[i - 1]
    BY <1>1, <1>2, <2>1, <2>2
  <2>4. QED
    BY <2>1, <2>2, <2>3
<1>4. DOMAIN l = 1 .. Len(l) /\ DOMAIN s = 1 .. Len(s)
  BY <1>2, <1>3
<1>5. \A i \in DOMAIN s : s[i] # h /\ s[i] \in rest
  BY <1>2 DEF ToSet
<1>6. IsInjective(l)
  <2>1. SUFFICES ASSUME NEW i \in 1 .. Len(l), NEW j \in 1 .. Len(l), l[i] = l[j]  PROVE i = j
    BY <1>4 DEF IsInjective
  <2>2. CASE i = 1 \/ j = 1
    BY <2>1, <2>2, <1>3, <1>4, <1>5
  <2>3. CASE i # 1 /\ j # 1
    <3>1. /\ i - 1 \in DOMAIN s /\ j - 1 \in DOMAIN s
          /\ s[i - 1] = s[j - 1]
      BY <2>1, <2>3, <1>3, <1>4
    <3>2. i - 1 = j - 1
      BY <3>1, <1>2 DEF IsInjective
    <3>3. QED
      BY <3>2
  <2>4. QED
    BY <2>2, <2>3
<1>7. ToSet(l) = {h} \cup rest
  <2>1. \A i \in 1 .. Len(l) : l[i] \in {h} \cup rest
    BY <1>3, <1>4, <1>5
  <2>2. \A x \in rest : \E i \in 1 .. Len(s) : x = s[i]
    BY <1>2, <1>4 DEF ToSet
  <2>3. \A i \in 1 .. Len(s) : i + 1 \in 1 .. Len(l) /\ l[i + 1] = s[i]
    BY <1>3
  <2>4. 1 \in 1 .. Len(l)
    BY <1>3
  <2>5. QED
    BY <1>3, <1>4, <2>1, <2>2, <2>3, <2>4 DEF ToSet
<1>8. QED
  BY <1>2, <1>3, <1>6, <1>7

(* So Put keeps to the size of the cache.                                  *)
LEMMA PutAgrees ==
  ASSUME LruInv, NEW t \in Thread, host[t] \in Host, Put(t)
  PROVE  LruInv'
<1> DEFINE h == host[t]
           evicted == IF h \notin DOMAIN cache /\ Len(list) >= MaxSize THEN {Last(list)} ELSE {}
<1>1. DOMAIN cache' = {h} \cup (DOMAIN cache \ evicted) /\ list' \in ToFront(h, evicted)
  BY DEF Put
<1>2. /\ list' \in Seq(Host) /\ IsInjective(list') /\ ToSet(list') = DOMAIN cache'
      /\ Len(list') = 1 + Cardinality(DOMAIN cache \ ({h} \cup evicted))
  BY <1>1, FrontFacts
<1>3. /\ MaxSize \in Nat /\ MaxSize > 0 /\ Len(list) \in Nat /\ Len(list) <= MaxSize
      /\ IsFiniteSet(DOMAIN cache) /\ Cardinality(DOMAIN cache) = Len(list)
  BY ListFacts, CertGenAssumption
<1>4. CASE h \in DOMAIN cache
  <2>1. DOMAIN cache \ ({h} \cup evicted) = DOMAIN cache \ {h}
    BY <1>4
  <2>2. Cardinality(DOMAIN cache \ ({h} \cup evicted)) = Len(list) - 1
    BY <1>3, <1>4, <2>1, FS_RemoveElement
  <2>3. QED
    BY <1>1, <1>2, <1>3, <2>2 DEF LruInv, LruAgrees
<1>5. CASE h \notin DOMAIN cache /\ Len(list) >= MaxSize
  <2>1. list # << >>
    BY <1>3, <1>5
  <2>2. /\ DOMAIN cache \ ({h} \cup evicted) = DOMAIN cache \ {Last(list)}
        /\ Last(list) \in DOMAIN cache
    BY <1>5, <2>1, ListFacts
  <2>3. Cardinality(DOMAIN cache \ ({h} \cup evicted)) = Len(list) - 1
    BY <1>3, <2>2, FS_RemoveElement
  <2>4. QED
    BY <1>1, <1>2, <1>3, <2>3 DEF LruInv, LruAgrees
<1>6. CASE h \notin DOMAIN cache /\ Len(list) < MaxSize
  <2>1. ~(Len(list) >= MaxSize)
    BY <1>3, <1>6
  <2>2. DOMAIN cache \ ({h} \cup evicted) = DOMAIN cache
    BY <1>6, <2>1
  <2>3. QED
    BY <1>1, <1>2, <1>3, <1>6, <2>2 DEF LruInv, LruAgrees
<1>7. QED
  BY <1>3, <1>4, <1>5, <1>6

(* A thread in GetCertificate has a host.                                  *)
RestOK ==
  /\ hardware \in BOOLEAN /\ retryAt \in 0 .. MaxTime + Retry
  /\ host \in [Thread -> Host \cup {None}]
  /\ \A t \in Thread : pc[t] # "idle" => host[t] \in Host

(* And keeps it to the end.                                                *)
LEMMA RestStep ==
  ASSUME FieldsOK, RestOK, [Next]_vars
  PROVE  RestOK'
<1>1. ASSUME NEW t \in Thread, Done(t), UNCHANGED <<hardware, retryAt>>  PROVE RestOK'
  BY <1>1 DEF FieldsOK, RestOK, Done
<1>2. ASSUME NEW t \in Thread, NEW h \in Host, Get(t, h)  PROVE RestOK'
  BY <1>2 DEF FieldsOK, RestOK, Get, thread
<1>3. ASSUME NEW t \in Thread, Issue(t), ~Done(t)  PROVE RestOK'
  <2>1. retryAt' \in {retryAt, now + Retry} /\ UNCHANGED <<hardware, host>>
    BY <1>3 DEF Issue
  <2>2. now + Retry \in 0 .. MaxTime + Retry
    BY Durations DEF FieldsOK
  <2>3. pc[t] = "issue" /\ pc' = [pc EXCEPT ![t] = "sign"]
    BY <1>3 DEF Issue
  <2>4. QED
    BY <2>1, <2>2, <2>3 DEF FieldsOK, RestOK
<1>4. ASSUME NEW t \in Thread, Sign(t)  PROVE RestOK'
  BY <1>4 DEF FieldsOK, RestOK, Sign
<1>5. CASE Clean \/ Clock \/ UNCHANGED vars
  BY <1>5 DEF RestOK, Clean, Clock, vars, thread
<1>6. \A t \in Thread :
        Put(t) \/ (Issue(t) /\ Done(t)) => Done(t) /\ UNCHANGED <<hardware, retryAt>>
  BY DEF Put, Issue, Done, FieldsOK
<1>7. QED
  BY <1>1, <1>2, <1>3, <1>4, <1>5, <1>6 DEF Next

(* Every step keeps the map and the list of the cache together.            *)
LEMMA LruStep ==
  ASSUME RestOK, LruInv, [Next]_vars
  PROVE  LruInv'
<1>1. CASE UNCHANGED <<cache, list>>
  BY <1>1 DEF LruInv, LruAgrees
<1>2. ASSUME NEW t \in Thread, NEW h \in Host, Get(t, h)  PROVE LruInv'
  <2>1. CASE h \in DOMAIN cache /\ ~Expired(h)
    <3>1. cache' = cache /\ list' \in ToFront(h, {}) /\ {h} \cup (DOMAIN cache \ {}) = DOMAIN cache
      BY <1>2, <2>1 DEF Get
    <3>2. /\ list' \in Seq(Host) /\ IsInjective(list') /\ ToSet(list') = DOMAIN cache
          /\ Len(list') = 1 + Cardinality(DOMAIN cache \ ({h} \cup {}))
      BY <3>1, FrontFacts
    <3>3. DOMAIN cache \ ({h} \cup {}) = DOMAIN cache \ {h}
      OBVIOUS
    <3>4. Cardinality(DOMAIN cache \ {h}) = Len(list) - 1
      BY <2>1, ListFacts, FS_RemoveElement
    <3>5. QED
      BY <3>1, <3>2, <3>3, <3>4, ListFacts DEF LruInv, LruAgrees
  <2>2. CASE ~(h \in DOMAIN cache /\ ~Expired(h))
    BY <1>1, <1>2, <2>2, WithoutAgrees DEF Get
  <2>3. QED
    BY <2>1, <2>2
<1>3. ASSUME NEW t \in Thread, Put(t)  PROVE LruInv'
  BY <1>3, PutAgrees DEF RestOK, Put
<1>4. CASE Clean
  BY <1>4, WithoutAgrees DEF Clean
<1>5. QED
  BY <1>1, <1>2, <1>3, <1>4 DEF Next, Issue, Sign, Clock, vars

-----------------------------------------------------------------------------
(* The theorems                                                            *)

(* The invariant on which the theorems below rest holds in every state.    *)
THEOREM Invariance == Spec => []IInv
BY InitInvariant, StepInvariant, PTL DEF Spec

(* Every variable has its type, and the map and the list of the leaf cache *)
(* hold the same hosts, each once and at most MaxSize (certLRUCache).      *)
THEOREM TypeCorrect == Spec => []TypeOK
<1>1. Init => RestOK /\ LruInv
  BY CertGenAssumption DEF Init, RestOK, LruInv, LruAgrees, ToSet, IsInjective
<1>2. IInv /\ RestOK /\ LruInv /\ [Next]_vars => (RestOK /\ LruInv)'
  BY RestStep, LruStep DEF IInv
<1>3. IInv /\ RestOK /\ LruInv => TypeOK
  BY DEF IInv, FieldsOK, RestOK, LruInv, TypeOK
<1>4. QED
  BY <1>1, <1>2, <1>3, Invariance, PTL DEF Spec

(* A leaf served from the cache, and the intermediate that signed it, stay *)
(* valid for Margin more; and neither starts in the future while the clock *)
(* is not corrected by more than Backdate (certLRUCache.Get, sign, rotate). *)
THEOREM ChainsAreValid == Spec => []ServedChainIsValid
<1>1. IInv => ServedChainIsValid
  <2> SUFFICES ASSUME IInv, NEW h \in DOMAIN cache, ~Expired(h)
               PROVE  LET l == cache[h].leaf
                      IN  /\ now + Margin <= l.to /\ now + Margin <= l.issuer.to
                          /\ now + Backdate >= peak => l.from <= now /\ l.issuer.from <= now
    BY DEF ServedChainIsValid, CachedChainIsCurrent, BackdateCovers, Served
  <2> DEFINE l == cache[h].leaf
  <2>1. /\ l \in Leaf /\ now \in Int /\ peak \in Int
        /\ GoodLeaf(l) /\ cache[h].expiresAt = l.to - Margin
    BY Periods, Durations DEF IInv, FieldsOK, ChainInv
  <2>2. l.to \in Int /\ l.issuer.to \in Int /\ l.from \in Int /\ l.issuer.from \in Int
    BY <2>1, Periods, Durations
  <2>3. QED
    BY <2>1, <2>2, Durations DEF GoodLeaf, Backdated, Expired
<1>2. QED
  BY Invariance, <1>1, PTL

(* A step that gives a thread an issuer gives it a valid one.              *)
ValidIssuer == \A t \in Thread : issuer[t] = None /\ issuer'[t] # None =>
                 issuer'[t].from <= now /\ now < issuer'[t].to

(* Only Issue gives a thread an issuer.                                    *)
LEMMA ValidIssuerStep == IInv /\ [Next]_vars => ValidIssuer
<1> SUFFICES ASSUME IInv, [Next]_vars, NEW t \in Thread, issuer[t] = None, issuer'[t] # None
             PROVE  issuer'[t].from <= now /\ now < issuer'[t].to
  BY DEF ValidIssuer
<1>1. PICK x \in Thread : Issue(x)
  BY DEF IInv, FieldsOK, Next, vars, thread, Get, Sign, Put, Done, Clean, Clock
<1>2. QED
  BY <1>1, IssueGives DEF IInv, FieldsOK, Done

(* Every leaf is signed by an issuer that is valid at the moment, also     *)
(* after the clock went back or a rotation failed (intermediateIssuer).    *)
THEOREM IssuersAreValid == Spec => IssuerIsValid
<1>1. IInv /\ [Next]_vars => [ValidIssuer]_vars
  BY ValidIssuerStep
<1>2. QED
  BY Invariance, <1>1, PTL DEF Spec, IssuerIsValid, ValidIssuer
=============================================================================

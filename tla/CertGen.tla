------------------------------- MODULE CertGen -------------------------------
(***************************************************************************)
(* The certificate generator of a running proxy (internal/certgen): the    *)
(* issuer that signs the leaves (the root itself when its key is on disk,  *)
(* a short-lived intermediate when it is in hardware), and the LRU cache   *)
(* of leaves.  A certificate is its validity period, a leaf also carries   *)
(* its issuer's.  Each thread is a TLS handshake inside GetCertificate;    *)
(* the system clock advances and is set back at any time.                  *)
(***************************************************************************)
EXTENDS Integers, Sequences, SequencesExt, Functions

CONSTANTS
  Thread, Host,
  TTL,       \* certTTL and intermediateTTL
  Backdate,  \* backdate
  Margin,    \* intermediateRenewMargin and the buffer of the leaf cache
  Retry,     \* intermediateRetryInterval
  MaxSize,   \* cacheMaxSize
  MaxTime,   \* bound: the clock stays in 0 .. MaxTime
  None

ASSUME CertGenAssumption ==
  /\ {TTL, Backdate, Margin, Retry, MaxSize, MaxTime} \subseteq Nat \ {0}
  /\ Retry <= Margin /\ Margin <= Backdate /\ Backdate < TTL
  /\ None \notin Host

Forever == MaxTime + 2 * TTL   \* the expiry of the root, 32 years away
Period == [from : -Backdate .. MaxTime, to : 0 .. Forever]
Root == [from |-> -Backdate, to |-> Forever]

VARIABLES
  hardware,  \* CA.HardwareBacked
  now,       \* the system clock
  peak,      \* the latest time the clock has shown
  cert,      \* intermediateIssuer.cert
  retryAt,   \* intermediateIssuer.retryAt
  cache,     \* certLRUCache.cache: host -> leaf and its expiry
  list,      \* certLRUCache.list, the front first
  pc, host, issuer, leaf   \* per thread: GetCertificate

vars == <<hardware, now, peak, cert, retryAt, cache, list, pc, host, issuer, leaf>>
thread == <<pc, host, issuer, leaf>>

Leaf == [from : -Backdate .. MaxTime, to : 0 .. MaxTime + TTL, issuer : Period]
Entry == [leaf : Leaf, expiresAt : -Margin .. MaxTime + TTL]

\* The map and the list of the cache hold the same hosts, each once, and never
\* more than MaxSize.
LruAgrees ==
  /\ ToSet(list) = DOMAIN cache /\ IsInjective(list)
  /\ Len(list) <= MaxSize

\* Every variable has its type, and the map and the list of the leaf cache agree:
\* otherwise an eviction takes a host that is not there, or entries leak (lru.go).
TypeOK ==
  /\ hardware \in BOOLEAN /\ now \in 0 .. MaxTime /\ peak \in now .. MaxTime
  /\ cert \in Period \cup {None} /\ retryAt \in 0 .. MaxTime + Retry
  /\ DOMAIN cache \subseteq Host /\ \A h \in DOMAIN cache : cache[h] \in Entry
  /\ list \in Seq(Host)
  /\ pc \in [Thread -> {"idle", "issue", "sign", "put"}]
  /\ host \in [Thread -> Host \cup {None}]
  /\ issuer \in [Thread -> Period \cup {None}]
  /\ leaf \in [Thread -> Leaf \cup {None}]
  /\ LruAgrees

Init ==
  /\ hardware \in BOOLEAN /\ now = 0 /\ peak = 0
  /\ cert = None /\ retryAt = 0
  /\ cache = << >> /\ list = << >>
  /\ pc = [t \in Thread |-> "idle"] /\ host = [t \in Thread |-> None]
  /\ issuer = [t \in Thread |-> None] /\ leaf = [t \in Thread |-> None]

Minimum(a, b) == IF a < b THEN a ELSE b

\* These hosts in the order of the list: the one sequence that has each of them.
Before(g, h) == \E i, j \in DOMAIN list : i < j /\ list[i] = g /\ list[j] = h
InOrder(hosts) ==
  {s \in [1 .. Cardinality(hosts) -> hosts] :
     \A i, j \in DOMAIN s : i < j => Before(s[i], s[j])}
ToFront(h, evicted) == {<<h>> \o s : s \in InOrder(ToSet(list) \ ({h} \cup evicted))}
Without(hosts) ==
  /\ cache' = Restrict(cache, DOMAIN cache \ hosts)
  /\ list' \in InOrder(ToSet(list) \ hosts)

Done(t) ==
  /\ pc' = [pc EXCEPT ![t] = "idle"] /\ host' = [host EXCEPT ![t] = None]
  /\ issuer' = [issuer EXCEPT ![t] = None] /\ leaf' = [leaf EXCEPT ![t] = None]

-----------------------------------------------------------------------------
Expired(h) == now > cache[h].expiresAt

\* GetCertificate begins: certLRUCache.Get.
Get(t, h) ==
  /\ pc[t] = "idle"
  /\ IF h \in DOMAIN cache /\ ~Expired(h)
       THEN list' \in ToFront(h, {}) /\ UNCHANGED <<cache, thread>>
       ELSE /\ IF h \in DOMAIN cache THEN Without({h}) ELSE UNCHANGED <<cache, list>>
            /\ pc' = [pc EXCEPT ![t] = "issue"] /\ host' = [host EXCEPT ![t] = h]
            /\ UNCHANGED <<issuer, leaf>>
  /\ UNCHANGED <<hardware, now, peak, cert, retryAt>>

\* intermediateIssuer.rotate: the new intermediate.
Intermediate == [from |-> now - Backdate, to |-> now + TTL]

Usable_wrong == cert # None /\ now < cert.to

Usable == cert # None /\ cert.from <= now /\ now < cert.to

MayRotate == now + Margin > cert.to /\ now >= retryAt

\* rotate when current asks for it; signing with the hardware may fail, which
\* ends the call only without a usable intermediate.
Issue(t) ==
  /\ pc[t] = "issue"
  /\ \/ /\ ~hardware /\ issuer' = [issuer EXCEPT ![t] = Root] /\ UNCHANGED <<cert, retryAt>>
        /\ pc' = [pc EXCEPT ![t] = "sign"] /\ UNCHANGED <<host, leaf>>
     \/ /\ hardware
        /\ \/ ~Usable /\ cert' = Intermediate /\ UNCHANGED retryAt
           \/ Usable /\ MayRotate /\ cert' = Intermediate /\ UNCHANGED retryAt
           \/ Usable /\ MayRotate /\ retryAt' = now + Retry /\ UNCHANGED cert
           \/ Usable /\ ~MayRotate /\ UNCHANGED <<cert, retryAt>>
        /\ issuer' = [issuer EXCEPT ![t] = cert']
        /\ pc' = [pc EXCEPT ![t] = "sign"] /\ UNCHANGED <<host, leaf>>
     \/ hardware /\ ~Usable /\ Done(t) /\ UNCHANGED <<cert, retryAt>>
  /\ UNCHANGED <<hardware, now, peak, cache, list>>

LeafFrom_wrong(iss) == [from |-> now - Backdate, to |-> now + TTL, issuer |-> iss]

\* A leaf never outlives its issuer.
LeafFrom(iss) == [from |-> now - Backdate, to |-> Minimum(now + TTL, iss.to), issuer |-> iss]

Sign(t) ==
  /\ pc[t] = "sign"
  /\ leaf' = [leaf EXCEPT ![t] = LeafFrom(issuer[t])]
  /\ pc' = [pc EXCEPT ![t] = "put"]
  /\ UNCHANGED <<hardware, now, peak, cert, retryAt, cache, list, host, issuer>>

Entered(t) == [leaf |-> leaf[t], expiresAt |-> leaf[t].to - Margin]

\* certLRUCache.Put: evicts the host at the back when the cache is full.
Put(t) ==
  /\ pc[t] = "put" /\ Done(t)
  /\ LET evicted == IF host[t] \notin DOMAIN cache /\ Len(list) >= MaxSize THEN {Last(list)} ELSE {}
     IN /\ cache' = [h \in {host[t]} \cup (DOMAIN cache \ evicted) |->
                       IF h = host[t] THEN Entered(t) ELSE cache[h]]
        /\ list' \in ToFront(host[t], evicted)
  /\ UNCHANGED <<hardware, now, peak, cert, retryAt>>

Clean_wrong ==
  /\ cache' = Restrict(cache, {h \in DOMAIN cache : ~Expired(h)})
  /\ cache' # cache
  /\ UNCHANGED <<hardware, now, peak, cert, retryAt, list, thread>>

\* The cleaner's tick.
Clean ==
  /\ \E h \in DOMAIN cache : Expired(h)
  /\ Without({h \in DOMAIN cache : Expired(h)})
  /\ UNCHANGED <<hardware, now, peak, cert, retryAt, thread>>

\* The clock advances by one, or is corrected backwards by any amount.
Clock ==
  /\ now' \in 0 .. Minimum(now + 1, MaxTime) \ {now}
  /\ peak' = IF now' > peak THEN now' ELSE peak
  /\ UNCHANGED <<hardware, cert, retryAt, cache, list, thread>>

Next ==
  \/ \E t \in Thread : (\E h \in Host : Get(t, h)) \/ Issue(t) \/ Sign(t) \/ Put(t)
  \/ Clean \/ Clock

Spec == Init /\ [][Next]_vars

-----------------------------------------------------------------------------
\* The leaf the cache would serve for a host
Served == {cache[h].leaf : h \in {h \in DOMAIN cache : ~Expired(h)}}

CachedChainIsCurrent ==
  \A l \in Served : now + Margin <= l.to /\ now + Margin <= l.issuer.to

BackdateCovers ==
  now + Backdate >= peak => \A l \in Served : l.from <= now /\ l.issuer.from <= now

\* A leaf served from the cache, and the intermediate it was signed by however
\* long ago, stay valid for the rest of a handshake: a rotation between
\* reading the issuer and caching the leaf does not matter (get.go:57).  And
\* while the clock is never corrected by more than Backdate, neither starts in
\* the future (backdate).
ServedChainIsValid == CachedChainIsCurrent /\ BackdateCovers

\* Every leaf is signed by an issuer that was valid when it was asked for, even
\* when the clock went back or a rotation failed (issuer.go:79).
IssuerIsValid ==
  [][\A t \in Thread : issuer[t] = None /\ issuer'[t] # None =>
       issuer'[t].from <= now /\ now < issuer'[t].to]_vars

-----------------------------------------------------------------------------
\* A claim that the code does not keep (README, section 5): an intermediate that
\* is not valid yet "is replaced, not kept until the clock catches up"
\* (issuer.go:77), but the leaves it signed stay cached.
FutureChainIsReplaced ==
  \A l \in Served : l.issuer.from <= now
=============================================================================

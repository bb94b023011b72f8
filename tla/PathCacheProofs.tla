--------------------------- MODULE PathCacheProofs ---------------------------
(***************************************************************************)
(* Proofs about the path cache, for any number of threads, paths, entries  *)
(* and any CACHE_EXPIRE_TIME: its types, the order of its queues, on which *)
(* chkCacheExpire relies, the pointers that handlers keep after            *)
(* PathCacheLock is given up, and that what lookups are told is right      *)
(* CACHE_EXPIRE_TIME after the last event that may have left it wrong.     *)
(***************************************************************************)
EXTENDS PathCache, CollectionLemmas

(***************************************************************************)
(* The inductive invariant, in parts.                                      *)
(***************************************************************************)
Ages == 0..CACHE_EXPIRE_TIME
Stats == Versions \cup {0}
EntryType == [path : Paths \cup {NoPath}, age : Ages, ver : Stats, loc : BOOLEAN]

\* An entry is in one queue at most, and once; each queue is ordered by age.
Ordered(q, ent) == \A i, j \in 1..Len(q) : i < j => ent[q[i]].age >= ent[q[j]].age
Queue(q) == q \in Seq(Entries) /\ IsInjective(q)

CacheInv ==
  /\ Queue(PathArray) /\ Queue(NonExistPathArray)
  /\ ToSet(PathArray) \cap ToSet(NonExistPathArray) = {}
  /\ Ordered(PathArray, entry) /\ Ordered(NonExistPathArray, entry)
  /\ entry \in [Entries -> EntryType]

SrvInv == server \in [Paths -> Stats] /\ creating \subseteq Paths

\* A handler has its paths when it needs them, and a pointer only between the
\* match and its use.
PathPCs == PCs \ {"idle", "readdir"}
WaitPCs == {"rename", "renameUnlink", "renameAgain"}
LatePCs == {"renameRmTo", "renameMatch", "renameAdd", "renameRmFrom"}
DestPCs == {"rename", "renameUnlink", "renameAgain", "renameRmTo", "renameMatch",
            "renameAdd", "renameRmFrom"}
PtrPCs  == {"use", "mknodSet", "renameAdd", "truncUse", "changeUse", "closePut"}

ThreadType ==
  /\ pc \in [Threads -> PCs]
  /\ path \in [Threads -> Paths \cup {NoPath}] /\ dest \in [Threads -> Paths \cup {NoPath}]
  /\ ptr \in [Threads -> Entries \cup {NoEntry}]
  /\ caller \in [Threads -> {"none", "getattr", "mknod", "open"}]
  /\ stbuf \in [Threads -> [Paths -> Stats]]
  /\ todo \in [Threads -> SUBSET Paths]
  /\ ptrAge \in [Threads -> Ages]

ControlInv ==
  \A t \in Threads :
    /\ pc[t] \in PathPCs => path[t] \in Paths
    /\ pc[t] \in DestPCs => dest[t] \in Paths
    /\ pc[t] = "idle" => path[t] = NoPath /\ dest[t] = NoPath /\ todo[t] = {}
    /\ ptr[t] # NoEntry => pc[t] \in PtrPCs

HistInv ==
  /\ suspect \subseteq Threads /\ calm \in [Paths -> Ages] /\ ops \in 0..MaxOps

\* Handlers that overlap on a path know it.
MetInv ==
  \A t, u \in Threads : t # u /\ pc[t] # "idle" /\ pc[u] # "idle"
                          /\ PathsOf(t) \cap PathsOf(u) # {} => {t, u} \subseteq suspect

\* What a pointer was set to is still there, and not older than the pointer.
PtrInv ==
  \A t \in Threads :
    ptr[t] # NoEntry /\ t \notin suspect /\ ptrAge[t] < CACHE_EXPIRE_TIME =>
      /\ ptr[t] \in ToSet(PathArray)
      /\ entry[ptr[t]].path = path[t]
      /\ entry[ptr[t]].age <= ptrAge[t]

PathCacheInv ==
  CacheInv /\ SrvInv /\ ThreadType /\ ControlInv /\ HistInv /\ MetInv /\ PtrInv

-------------------------------------------------------------------------------
(***************************************************************************)
(* The queues.  Whatever is removed, the rest keeps its order.             *)
(***************************************************************************)
SubQueue(r, q) ==
  /\ r \in Seq(Entries)
  /\ \E f \in [1..Len(r) -> 1..Len(q)] :
       /\ \A i, j \in 1..Len(r) : i < j => f[i] < f[j]
       /\ \A i \in 1..Len(r) : r[i] = q[f[i]]

LEMMA SubQueueKeeps ==
  ASSUME NEW q, NEW r, Queue(q), SubQueue(r, q)
  PROVE  Queue(r) /\ ToSet(r) \subseteq ToSet(q) /\ (Ordered(q, entry) => Ordered(r, entry))
<1>1. /\ Len(q) \in Nat /\ DOMAIN q = 1..Len(q) /\ Len(r) \in Nat /\ DOMAIN r = 1..Len(r)
  BY DEF Queue, SubQueue
<1>2. PICK f \in [1..Len(r) -> 1..Len(q)] :
             /\ \A i, j \in 1..Len(r) : i < j => f[i] < f[j]
             /\ \A i \in 1..Len(r) : r[i] = q[f[i]]
  BY DEF SubQueue
<1>3. IsInjective(r)
  <2> SUFFICES ASSUME NEW i \in 1..Len(r), NEW j \in 1..Len(r), r[i] = r[j] PROVE i = j
    BY <1>1 DEF IsInjective
  <2>1. f[i] = f[j]
    BY <1>1, <1>2 DEF Queue, IsInjective
  <2>2. i < j \/ j < i \/ i = j
    BY <1>1
  <2>3. f[i] \in Int /\ f[j] \in Int
    BY <1>2
  <2> QED
    BY <1>2, <2>1, <2>2, <2>3
<1>4. ToSet(r) \subseteq ToSet(q)
  BY <1>1, <1>2 DEF ToSet
<1>5. ASSUME Ordered(q, entry) PROVE Ordered(r, entry)
  BY <1>2, <1>5 DEF Ordered
<1> QED
  BY <1>3, <1>4, <1>5 DEF Queue, SubQueue

LEMMA SubQueueSame ==
  ASSUME NEW q, Queue(q)
  PROVE  SubQueue(q, q)
<1> DEFINE f == [i \in 1..Len(q) |-> i]
<1>1. f \in [1..Len(q) -> 1..Len(q)]
  OBVIOUS
<1>2. /\ \A i, j \in 1..Len(q) : i < j => f[i] < f[j]
      /\ \A i \in 1..Len(q) : q[i] = q[f[i]]
  OBVIOUS
<1> QED
  BY <1>1, <1>2 DEF SubQueue, Queue

\* chkCacheExpire finds where to stop.
LEMMA ExpireStops ==
  ASSUME NEW q, Queue(q)
  PROVE  \E n \in 0..Len(q) :
           /\ \A i \in 1..n : Expired(q[i])
           /\ n < Len(q) => ~Expired(q[n + 1])
           /\ chkCacheExpire(q) \in Seq(Entries) /\ Len(chkCacheExpire(q)) = Len(q) - n
           /\ \A i \in 1..Len(q) - n : chkCacheExpire(q)[i] = q[n + i]
<1> DEFINE Stop(k) == /\ \A i \in 1..k : Expired(q[i])
                      /\ k < Len(q) => ~Expired(q[k + 1])
           n == CHOOSE k \in 0..Len(q) : Stop(k)
           r == chkCacheExpire(q)
<1>0. q \in Seq(Entries) /\ Len(q) \in Nat /\ DOMAIN q = 1..Len(q)
  BY DEF Queue
<1>1. \E k \in 0..Len(q) : Stop(k)
  <2> DEFINE K == {k \in 0..Len(q) : k < Len(q) => ~Expired(q[k + 1])}
  <2>1. K \in SUBSET Nat /\ K # {}
    <3>1. Len(q) \in K
      BY <1>0
    <3> QED
      BY <1>0, <3>1
  <2>2. Min(K) \in K /\ \A k \in K : Min(K) <= k
    BY <2>1, MinInSet
  <2>3. ASSUME NEW i \in 1..Min(K) PROVE Expired(q[i])
    <3>1. i - 1 \in 0..Len(q) /\ i - 1 < Min(K) /\ i - 1 < Len(q) /\ (i - 1) + 1 = i
      BY <1>0, <2>2
    <3>2. i - 1 \notin K
      BY <1>0, <2>2, <3>1
    <3> QED
      BY <3>1, <3>2
  <2>4. Stop(Min(K))
    BY <2>2, <2>3
  <2> QED
    BY <2>2, <2>4
<1>2. n \in 0..Len(q) /\ Stop(n)
  BY <1>1
<1>3. r = SubSeq(q, n + 1, Len(q))
  BY DEF chkCacheExpire
<1> HIDE DEF n, r
<1>4. /\ r \in Seq(Entries) /\ Len(r) = Len(q) - n
      /\ \A i \in 1..Len(q) - n : r[i] = q[n + i]
  <2>1. n \in Nat /\ n <= Len(q)
    BY <1>0, <1>2
  <2>2. \A i \in n + 1..Len(q) : q[i] \in Entries
    BY <1>0, <2>1
  <2>3. /\ r \in Seq(Entries)
        /\ Len(r) = IF n + 1 <= Len(q) THEN Len(q) - (n + 1) + 1 ELSE 0
        /\ \A i \in 1..Len(q) - (n + 1) + 1 : r[i] = q[(n + 1) + i - 1]
    BY <1>0, <1>3, <2>1, <2>2, SubSeqProperties
  <2>4. Len(r) = Len(q) - n
    <3>1. n \in Nat /\ Len(q) \in Nat /\ n <= Len(q)
      BY <1>0, <2>1
    <3>2. Len(r) = IF n + 1 <= Len(q) THEN Len(q) - (n + 1) + 1 ELSE 0
      BY <2>3
    <3> QED
      BY ONLY <3>1, <3>2
  <2>5. ASSUME NEW i \in 1..Len(q) - n PROVE r[i] = q[n + i]
    <3>1. i \in 1..Len(q) - (n + 1) + 1 /\ (n + 1) + i - 1 = n + i
      BY <1>0, <2>1
    <3> QED
      BY <2>3, <3>1
  <2> QED
    BY <2>3, <2>4, <2>5
<1> QED
  BY <1>2, <1>4 DEF r

\* Only what has expired is gone.
LEMMA ExpireSub ==
  ASSUME NEW q, Queue(q)
  PROVE  /\ SubQueue(chkCacheExpire(q), q)
         /\ \A e \in ToSet(q) \ ToSet(chkCacheExpire(q)) : Expired(e)
<1> DEFINE r == chkCacheExpire(q)
<1>0. q \in Seq(Entries) /\ Len(q) \in Nat /\ DOMAIN q = 1..Len(q)
  BY DEF Queue
<1>1. PICK n \in 0..Len(q) :
             /\ \A i \in 1..n : Expired(q[i])
             /\ r \in Seq(Entries) /\ Len(r) = Len(q) - n
             /\ \A i \in 1..Len(q) - n : r[i] = q[n + i]
  BY ExpireStops
<1> HIDE DEF r
<1>2. n \in 0..Len(q) /\ \A i \in 1..n : Expired(q[i])
  BY <1>1
<1>4. /\ r \in Seq(Entries) /\ Len(r) = Len(q) - n
      /\ \A i \in 1..Len(q) - n : r[i] = q[n + i]
  BY <1>1
<1>5. SubQueue(r, q)
  <2> DEFINE f == [i \in 1..Len(r) |-> n + i]
  <2>1. f \in [1..Len(r) -> 1..Len(q)]
    BY <1>0, <1>2, <1>4
  <2>2. /\ \A i, j \in 1..Len(r) : i < j => f[i] < f[j]
        /\ \A i \in 1..Len(r) : r[i] = q[f[i]]
    BY <1>0, <1>2, <1>4
  <2> QED
    BY <1>4, <2>1, <2>2 DEF SubQueue
<1>6. ASSUME NEW e \in ToSet(q), e \notin ToSet(r) PROVE Expired(e)
  <2>1. PICK i \in 1..Len(q) : e = q[i]
    BY <1>0 DEF ToSet
  <2>2. CASE i <= n
    BY <1>0, <1>2, <2>1, <2>2
  <2>3. CASE i > n
    <3>1. i - n \in 1..Len(q) - n /\ n + (i - n) = i
      BY <1>0, <1>2, <2>3
    <3>2. i - n \in DOMAIN r /\ r[i - n] = q[i]
      BY <1>4, <3>1
    <3> QED
      BY <1>6, <2>1, <3>2 DEF ToSet
  <2> QED
    BY <1>0, <1>2, <2>2, <2>3
<1> QED
  BY <1>5, <1>6 DEF r

\* In a queue that is ordered by age nothing that has expired is left.
LEMMA ExpireLeaves ==
  ASSUME NEW q, Queue(q), Ordered(q, entry), entry \in [Entries -> EntryType]
  PROVE  \A e \in ToSet(chkCacheExpire(q)) : ~Expired(e)
<1> DEFINE r == chkCacheExpire(q)
<1>0. q \in Seq(Entries) /\ Len(q) \in Nat /\ CACHE_EXPIRE_TIME \in Nat
  BY PathCacheAssumption DEF PathCacheAssumption, Queue
<1>1. PICK n \in 0..Len(q) :
             /\ n < Len(q) => ~Expired(q[n + 1])
             /\ r \in Seq(Entries) /\ Len(r) = Len(q) - n
             /\ \A i \in 1..Len(q) - n : r[i] = q[n + i]
  BY ExpireStops
<1> HIDE DEF r
<1>2. ASSUME NEW e \in ToSet(r) PROVE ~Expired(e)
  <2>1. PICK i \in 1..Len(r) : e = r[i]
    BY <1>1 DEF ToSet
  <2>2. n < Len(q) /\ n + i \in 1..Len(q) /\ n + 1 \in 1..Len(q) /\ e = q[n + i]
    BY <1>0, <1>1, <2>1
  <2>3. n + i = n + 1 \/ n + 1 < n + i
    BY <1>1, <2>1
  <2>4. q[n + i] = q[n + 1] \/ entry[q[n + 1]].age >= entry[q[n + i]].age
    BY <2>2, <2>3 DEF Ordered
  <2>5. q[n + 1] \in Entries /\ q[n + i] \in Entries
    BY <1>0, <2>2
  <2>6. entry[q[n + 1]].age \in Nat /\ entry[q[n + i]].age \in Nat
    BY <2>5 DEF EntryType, Ages
  <2>7. ~Expired(q[n + 1])
    BY <1>1, <2>2
  <2> QED
    BY <1>0, <2>2, <2>4, <2>6, <2>7 DEF Expired
<1> QED
  BY <1>2 DEF r

\* What SelectInSeq finds, if there is an entry of the path at all.
LEMMA FirstOf ==
  ASSUME NEW q, Queue(q), NEW p, Has(q, p)
  PROVE  LET k == SelectInSeq(q, LAMBDA e : entry[e].path = p) IN
           /\ k \in 1..Len(q) /\ entry[q[k]].path = p
           /\ First(q, p) = q[k] /\ rmPathFromCache(q, p) = RemoveAt(q, k)
<1> DEFINE I == {i \in 1..Len(q) : entry[q[i]].path = p}
           k == SelectInSeq(q, LAMBDA e : entry[e].path = p)
<1>1. I \in SUBSET Nat /\ I # {}
  BY DEF Has
<1>2. Min(I) \in I
  BY <1>1, MinInSet
<1>3. k = Min(I)
  BY <1>1 DEF SelectInSeq
<1>4. rmPathFromCache(q, p) = RemoveAt(q, k)
  BY DEF rmPathFromCache, RemoveFirstMatch, Has
<1> QED
  BY <1>2, <1>3, <1>4 DEF First

\* rmPathFromCache removes at most one entry, of that path.
LEMMA RemoveSub ==
  ASSUME NEW q, Queue(q), NEW p
  PROVE  /\ SubQueue(rmPathFromCache(q, p), q)
         /\ \A e \in ToSet(q) \ ToSet(rmPathFromCache(q, p)) : entry[e].path = p
<1>1. CASE ~Has(q, p)
  <2>1. rmPathFromCache(q, p) = q
    BY <1>1 DEF rmPathFromCache, RemoveFirstMatch, Has
  <2> QED
    BY <2>1, SubQueueSame
<1>2. CASE Has(q, p)
  <2> DEFINE r == rmPathFromCache(q, p)
  <2>0. q \in Seq(Entries) /\ Len(q) \in Nat /\ DOMAIN q = 1..Len(q)
    BY DEF Queue
  <2>1. PICK k \in 1..Len(q) : entry[q[k]].path = p /\ r = RemoveAt(q, k)
    BY <1>2, FirstOf
  <2> HIDE DEF r
  <2>2. /\ r \in Seq(Entries) /\ Len(r) = Len(q) - 1 /\ DOMAIN r = 1..Len(q) - 1
        /\ \A i \in 1..Len(q) - 1 : r[i] = IF i < k THEN q[i] ELSE q[i + 1]
    BY <2>0, <2>1, RemoveAtElements
  <2>3. SubQueue(r, q)
    <3> DEFINE f == [i \in 1..Len(r) |-> IF i < k THEN i ELSE i + 1]
    <3>1. f \in [1..Len(r) -> 1..Len(q)]
      BY <2>0, <2>2
    <3>2. /\ \A i, j \in 1..Len(r) : i < j => f[i] < f[j]
          /\ \A i \in 1..Len(r) : r[i] = q[f[i]]
      BY <2>0, <2>2
    <3> QED
      BY <2>2, <3>1, <3>2 DEF SubQueue
  <2>4. ASSUME NEW e \in ToSet(q), e \notin ToSet(r) PROVE entry[e].path = p
    <3>1. PICK i \in 1..Len(q) : e = q[i]
      BY <2>0 DEF ToSet
    <3>2. CASE i < k
      <4>1. i \in DOMAIN r /\ r[i] = q[i]
        BY <2>0, <2>2, <3>2
      <4> QED
        BY <2>4, <3>1, <4>1 DEF ToSet
    <3>3. CASE i > k
      <4>1. i - 1 \in 1..Len(q) - 1 /\ ~(i - 1 < k) /\ (i - 1) + 1 = i
        BY <2>0, <3>3
      <4>2. i - 1 \in DOMAIN r /\ r[i - 1] = q[i]
        BY <2>2, <4>1
      <4> QED
        BY <2>4, <3>1, <4>2 DEF ToSet
    <3> QED
      BY <2>0, <2>1, <3>1, <3>2, <3>3
  <2> QED
    BY <2>3, <2>4 DEF r
<1> QED
  BY <1>1, <1>2

-------------------------------------------------------------------------------
(***************************************************************************)
(* What a critical section does to the cache.                              *)
(***************************************************************************)
\* What is not gone from PathArray keeps its path and its age; what is gone had
\* expired, or belonged to a path of the thread that has the lock.
Spares(t) ==
  \A e \in ToSet(PathArray) :
    \/ /\ e \in ToSet(PathArray')
       /\ entry'[e].path = entry[e].path /\ entry'[e].age = entry[e].age
    \/ Expired(e)
    \/ entry[e].path \in PathsOf(t)

LEMMA Records ==
  /\ CACHE_EXPIRE_TIME \in Nat \ {0} /\ 0 \in Ages /\ Free \in EntryType
  /\ \A p \in Paths \cup {NoPath}, v \in Stats, l \in BOOLEAN :
       NewEntry(p, v, l) \in EntryType /\ NewEntry(p, v, l).age = 0
<1>1. CACHE_EXPIRE_TIME \in Nat \ {0} /\ 0 \in Ages
  BY PathCacheAssumption DEF PathCacheAssumption, Ages
<1> QED
  BY <1>1 DEF Free, NewEntry, EntryType, Stats

LEMMA SetCacheGives ==
  ASSUME NEW q, NEW r, NEW ent \in [Entries -> EntryType],
         Queue(q), Queue(r), ToSet(q) \cap ToSet(r) = {},
         Ordered(q, ent), Ordered(r, ent), SetCache(q, r, ent)
  PROVE  /\ CacheInv' /\ PathArray' = q /\ NonExistPathArray' = r
         /\ \A e \in ToSet(q) \cup ToSet(r) : entry'[e] = ent[e]
<1>1. PathArray' = q /\ NonExistPathArray' = r
  BY DEF SetCache
<1>2. Range(q) = ToSet(q) /\ Range(r) = ToSet(r)
  BY DEF Range, ToSet
<1>3. ToSet(q) \subseteq Entries /\ ToSet(r) \subseteq Entries
  BY DEF Queue, ToSet
<1>4. /\ entry' \in [Entries -> EntryType]
      /\ \A e \in ToSet(q) \cup ToSet(r) : entry'[e] = ent[e]
  BY <1>2, <1>3, Records DEF SetCache
<1>5. Ordered(q, entry') /\ Ordered(r, entry')
  <2>1. \A i \in 1..Len(q) : entry'[q[i]] = ent[q[i]]
    BY <1>4 DEF Queue, ToSet
  <2>2. \A i \in 1..Len(r) : entry'[r[i]] = ent[r[i]]
    BY <1>4 DEF Queue, ToSet
  <2> QED
    BY <2>1, <2>2 DEF Ordered
<1> QED
  BY <1>1, <1>4, <1>5 DEF CacheInv, Queue, Ordered

\* Removal from either queue, or from both.
LEMMA RemovalKeeps ==
  ASSUME CacheInv, NEW q, NEW r, SubQueue(q, PathArray), SubQueue(r, NonExistPathArray),
         SetCache(q, r, entry)
  PROVE  /\ CacheInv' /\ PathArray' = q /\ ToSet(q) \subseteq ToSet(PathArray)
         /\ NonExistPathArray' = r /\ ToSet(r) \subseteq ToSet(NonExistPathArray)
         /\ \A e \in ToSet(q) \cup ToSet(r) : entry'[e] = entry[e]
<1>1. /\ Queue(q) /\ ToSet(q) \subseteq ToSet(PathArray) /\ Ordered(q, entry)
      /\ Queue(r) /\ ToSet(r) \subseteq ToSet(NonExistPathArray) /\ Ordered(r, entry)
  BY SubQueueKeeps DEF CacheInv
<1>2. ToSet(q) \cap ToSet(r) = {} /\ entry \in [Entries -> EntryType]
  BY <1>1 DEF CacheInv
<1> QED
  BY <1>1, <1>2, SetCacheGives

LEMMA ExpireKeeps ==
  ASSUME CacheInv, NEW t, ExpirePath \/ ExpireNonExist
  PROVE  CacheInv' /\ Spares(t)
<1>0. Queue(PathArray) /\ Queue(NonExistPathArray)
  BY DEF CacheInv
<1>1. CASE ExpirePath
  <2> DEFINE q == chkCacheExpire(PathArray)
  <2>1. /\ SubQueue(q, PathArray) /\ SubQueue(NonExistPathArray, NonExistPathArray)
        /\ \A e \in ToSet(PathArray) \ ToSet(q) : Expired(e)
    BY <1>0, ExpireSub, SubQueueSame
  <2>2. SetCache(q, NonExistPathArray, entry)
    BY <1>1 DEF ExpirePath
  <2> HIDE DEF q
  <2>3. CacheInv' /\ PathArray' = q /\ \A e \in ToSet(q) : entry'[e] = entry[e]
    BY <2>1, <2>2, RemovalKeeps
  <2> QED
    BY <2>1, <2>3 DEF Spares
<1>2. CASE ExpireNonExist
  <2> DEFINE r == chkCacheExpire(NonExistPathArray)
  <2>1. SubQueue(PathArray, PathArray) /\ SubQueue(r, NonExistPathArray)
    BY <1>0, ExpireSub, SubQueueSame
  <2>2. SetCache(PathArray, r, entry)
    BY <1>2 DEF ExpireNonExist
  <2> HIDE DEF r
  <2>3. CacheInv' /\ PathArray' = PathArray /\ \A e \in ToSet(PathArray) : entry'[e] = entry[e]
    BY <2>1, <2>2, RemovalKeeps
  <2> QED
    BY <2>3 DEF Spares
<1> QED
  BY <1>1, <1>2

LEMMA RemoveKeeps ==
  ASSUME CacheInv, NEW t, NEW p, RmNonExist(p) \/ (RmPath(p) /\ p \in PathsOf(t))
  PROVE  CacheInv' /\ Spares(t)
<1>0. Queue(PathArray) /\ Queue(NonExistPathArray)
  BY DEF CacheInv
<1>1. CASE RmPath(p) /\ p \in PathsOf(t)
  <2> DEFINE q == rmPathFromCache(PathArray, p)
  <2>1. /\ SubQueue(q, PathArray) /\ SubQueue(NonExistPathArray, NonExistPathArray)
        /\ \A e \in ToSet(PathArray) \ ToSet(q) : entry[e].path = p
    BY <1>0, RemoveSub, SubQueueSame
  <2>2. SetCache(q, NonExistPathArray, entry)
    BY <1>1 DEF RmPath
  <2> HIDE DEF q
  <2>3. CacheInv' /\ PathArray' = q /\ \A e \in ToSet(q) : entry'[e] = entry[e]
    BY <2>1, <2>2, RemovalKeeps
  <2> QED
    BY <1>1, <2>1, <2>3 DEF Spares
<1>2. CASE RmNonExist(p)
  <2> DEFINE r == rmPathFromCache(NonExistPathArray, p)
  <2>1. SubQueue(PathArray, PathArray) /\ SubQueue(r, NonExistPathArray)
    BY <1>0, RemoveSub, SubQueueSame
  <2>2. SetCache(PathArray, r, entry)
    BY <1>2 DEF RmNonExist
  <2> HIDE DEF r
  <2>3. CacheInv' /\ PathArray' = PathArray /\ \A e \in ToSet(PathArray) : entry'[e] = entry[e]
    BY <2>1, <2>2, RemovalKeeps
  <2> QED
    BY <2>3 DEF Spares
<1> QED
  BY <1>1, <1>2

\* A new entry goes to the bottom of a queue: it is the youngest.
LEMMA BottomOrdered ==
  ASSUME entry \in [Entries -> EntryType], NEW q, Queue(q), Ordered(q, entry),
         NEW e \in Entries, e \notin ToSet(q), NEW x \in EntryType, x.age = 0
  PROVE  /\ Queue(Append(q, e)) /\ ToSet(Append(q, e)) = ToSet(q) \cup {e}
         /\ Ordered(Append(q, e), [entry EXCEPT ![e] = x])
<1> DEFINE a == Append(q, e)
           ent == [entry EXCEPT ![e] = x]
<1>1. Queue(a) /\ ToSet(a) = ToSet(q) \cup {e}
  BY AppendElements DEF Queue
<1>2. /\ Len(q) \in Nat /\ Len(a) = Len(q) + 1 /\ a[Len(q) + 1] = e
      /\ \A i \in 1..Len(q) : a[i] = q[i] /\ q[i] # e /\ q[i] \in Entries
  BY DEF Queue, ToSet
<1>3. \A i \in 1..Len(q) : ent[a[i]] = entry[q[i]] /\ entry[q[i]].age \in Nat
  BY <1>2, Records DEF EntryType, Ages
<1>4. ent[e].age = 0
  OBVIOUS
<1> HIDE DEF a, ent
<1>5. Ordered(a, ent)
  <2> SUFFICES ASSUME NEW i \in 1..Len(a), NEW j \in 1..Len(a), i < j
               PROVE  ent[a[i]].age >= ent[a[j]].age
    BY DEF Ordered
  <2>1. i \in 1..Len(q)
    BY <1>2
  <2>2. CASE j \in 1..Len(q)
    BY <1>3, <2>1, <2>2 DEF Ordered
  <2>3. CASE j = Len(q) + 1
    BY <1>2, <1>3, <1>4, <2>1, <2>3
  <2> QED
    BY <1>2, <2>2, <2>3
<1> QED
  BY <1>1, <1>5 DEF a, ent

\* What is in a queue without the new entry stays as it is.
LEMMA OtherOrdered ==
  ASSUME entry \in [Entries -> EntryType], NEW q, Queue(q), Ordered(q, entry),
         NEW e \in Entries, e \notin ToSet(q), NEW ent, \A u \in Entries \ {e} : ent[u] = entry[u]
  PROVE  Ordered(q, ent) /\ \A u \in ToSet(q) : ent[u] = entry[u]
<1>1. \A i \in 1..Len(q) : q[i] # e /\ q[i] \in Entries
  BY DEF Queue, ToSet
<1>2. \A i \in 1..Len(q) : ent[q[i]] = entry[q[i]]
  BY <1>1
<1>3. \A u \in ToSet(q) : ent[u] = entry[u]
  BY <1>2 DEF Queue, ToSet
<1> QED
  BY <1>2, <1>3 DEF Ordered

LEMMA AddKeeps ==
  ASSUME CacheInv, NEW t, NEW p \in Paths \cup {NoPath}, NEW v \in Stats, NEW l \in BOOLEAN,
         AddPath(p, v, l) \/ AddNonExist(p)
  PROVE  CacheInv' /\ Spares(t)
<1>0. /\ Queue(PathArray) /\ Queue(NonExistPathArray) /\ entry \in [Entries -> EntryType]
      /\ Ordered(PathArray, entry) /\ Ordered(NonExistPathArray, entry)
      /\ ToSet(PathArray) \cap ToSet(NonExistPathArray) = {}
  BY DEF CacheInv
<1>1. CASE AddPath(p, v, l)
  <2> DEFINE x == NewEntry(p, v, l)
             q(e) == Append(PathArray, e)
             ent(e) == [entry EXCEPT ![e] = x]
  <2>1. PICK e \in Entries : ~Live(e) /\ SetCache(q(e), NonExistPathArray, ent(e))
    BY <1>1 DEF AddPath, AddEntry, queueBottom
  <2>2. e \notin ToSet(PathArray) /\ e \notin ToSet(NonExistPathArray)
    BY <2>1 DEF Live, Range, ToSet
  <2>3. x \in EntryType /\ x.age = 0
    BY Records
  <2> HIDE DEF x
  <2>4. Queue(q(e)) /\ ToSet(q(e)) = ToSet(PathArray) \cup {e} /\ Ordered(q(e), ent(e))
    BY <1>0, <2>2, <2>3, BottomOrdered
  <2>5. /\ Ordered(NonExistPathArray, ent(e))
        /\ \A u \in ToSet(PathArray) : ent(e)[u] = entry[u]
    <3>1. \A u \in Entries \ {e} : ent(e)[u] = entry[u]
      BY <1>0
    <3> HIDE DEF ent
    <3> QED
      BY <1>0, <2>2, <3>1, OtherOrdered
  <2>6. ent(e) \in [Entries -> EntryType] /\ ToSet(q(e)) \cap ToSet(NonExistPathArray) = {}
    BY <1>0, <2>2, <2>3, <2>4
  <2> HIDE DEF q, ent
  <2>7. CacheInv' /\ PathArray' = q(e) /\ \A u \in ToSet(q(e)) : entry'[u] = ent(e)[u]
    BY <1>0, <2>1, <2>4, <2>5, <2>6, SetCacheGives
  <2> QED
    BY <2>4, <2>5, <2>7 DEF Spares
<1>2. CASE AddNonExist(p)
  <2> DEFINE x == NewEntry(p, 0, FALSE)
             q(e) == Append(NonExistPathArray, e)
             ent(e) == [entry EXCEPT ![e] = x]
  <2>1. PICK e \in Entries : ~Live(e) /\ SetCache(PathArray, q(e), ent(e))
    BY <1>2 DEF AddNonExist, queueBottom
  <2>2. e \notin ToSet(PathArray) /\ e \notin ToSet(NonExistPathArray)
    BY <2>1 DEF Live, Range, ToSet
  <2>3. x \in EntryType /\ x.age = 0
    BY Records DEF Stats
  <2> HIDE DEF x
  <2>4. /\ Queue(q(e)) /\ ToSet(q(e)) = ToSet(NonExistPathArray) \cup {e}
        /\ Ordered(q(e), ent(e))
    BY <1>0, <2>2, <2>3, BottomOrdered
  <2>5. /\ Ordered(PathArray, ent(e))
        /\ \A u \in ToSet(PathArray) : ent(e)[u] = entry[u]
    <3>1. \A u \in Entries \ {e} : ent(e)[u] = entry[u]
      BY <1>0
    <3> HIDE DEF ent
    <3> QED
      BY <1>0, <2>2, <3>1, OtherOrdered
  <2>6. ent(e) \in [Entries -> EntryType] /\ ToSet(PathArray) \cap ToSet(q(e)) = {}
    BY <1>0, <2>2, <2>3, <2>4
  <2> HIDE DEF q, ent
  <2>7. CacheInv' /\ PathArray' = PathArray /\ \A u \in ToSet(PathArray) : entry'[u] = ent(e)[u]
    BY <1>0, <2>1, <2>4, <2>5, <2>6, SetCacheGives
  <2> QED
    BY <2>5, <2>7 DEF Spares
<1> QED
  BY <1>1, <1>2

\* The version or the local copy of an entry changes, or nothing does.
LEMMA StoreKeeps ==
  ASSUME CacheInv, NEW t, UNCHANGED <<PathArray, NonExistPathArray>>,
         \/ entry' = entry
         \/ \E e \in Entries, v \in Stats, l \in BOOLEAN :
              entry' = [entry EXCEPT ![e] = [@ EXCEPT !.ver = v, !.loc = l]]
  PROVE  CacheInv' /\ Spares(t)
<1>1. /\ entry' \in [Entries -> EntryType]
      /\ \A u \in Entries : entry'[u].path = entry[u].path /\ entry'[u].age = entry[u].age
  <2>0. entry \in [Entries -> EntryType]
    BY DEF CacheInv
  <2>1. CASE entry' = entry
    BY <2>0, <2>1
  <2>2. ASSUME NEW e \in Entries, NEW v \in Stats, NEW l \in BOOLEAN,
               entry' = [entry EXCEPT ![e] = [@ EXCEPT !.ver = v, !.loc = l]]
        PROVE  /\ entry' \in [Entries -> EntryType]
               /\ \A u \in Entries : entry'[u].path = entry[u].path /\ entry'[u].age = entry[u].age
    <3> DEFINE x == [entry[e] EXCEPT !.ver = v, !.loc = l]
    <3>1. x \in EntryType /\ x.path = entry[e].path /\ x.age = entry[e].age
      BY <2>0 DEF EntryType
    <3>2. entry' = [entry EXCEPT ![e] = x]
      BY <2>2
    <3> HIDE DEF x
    <3> QED
      BY <2>0, <3>1, <3>2
  <2> QED
    BY <2>1, <2>2
<1>2. /\ \A i \in 1..Len(PathArray) : PathArray[i] \in Entries
      /\ \A i \in 1..Len(NonExistPathArray) : NonExistPathArray[i] \in Entries
      /\ ToSet(PathArray) \subseteq Entries
  <2>1. PathArray \in Seq(Entries) /\ NonExistPathArray \in Seq(Entries)
    BY DEF CacheInv, Queue
  <2> QED
    BY ONLY <2>1, ElementsIn
<1>3. Ordered(PathArray, entry') /\ Ordered(NonExistPathArray, entry')
  BY <1>1, <1>2 DEF CacheInv, Ordered
<1> QED
  BY <1>1, <1>2, <1>3 DEF CacheInv, Spares, Queue, Ordered

-------------------------------------------------------------------------------
(***************************************************************************)
(* What a step of a thread does to the threads.                            *)
(***************************************************************************)
\* The pointer is dropped, or set to what the cache has for the path now, or to an
\* entry that is new.
PtrSet(t) ==
  \/ ptr'[t] = NoEntry
  \/ /\ ExpirePath /\ pc[t] # "idle"
     /\ path'[t] = path[t] /\ ptr'[t] = Match(path[t])
     /\ ptrAge'[t] = entry[Match(path[t])].age
  \/ /\ path'[t] = path[t] /\ ptr'[t] \in ToSet(PathArray')
     /\ entry'[ptr'[t]].path = path[t] /\ entry'[ptr'[t]].age <= ptrAge'[t]

\* The others stay as they are; t returns, goes on with its paths, or begins with
\* new ones, in which case it and the handlers it meets become suspect.
Shape(t) ==
  /\ \A u \in Threads \ {t} : /\ pc'[u] = pc[u] /\ path'[u] = path[u] /\ dest'[u] = dest[u]
                              /\ todo'[u] = todo[u]
                              /\ ptr'[u] = ptr[u] /\ ptrAge'[u] = ptrAge[u]
  /\ suspect \ {t} \subseteq suspect'
  /\ \/ pc'[t] = "idle"
     \/ pc[t] # "idle" /\ PathsOf(t)' \subseteq PathsOf(t) /\ suspect \subseteq suspect'
     \/ pc[t] = "idle" /\ suspect' = Meet(t, PathsOf(t)')
  /\ PtrSet(t)

ThreadInv == ThreadType /\ ControlInv /\ HistInv

LEMMA DoubtType ==
  ASSUME HistInv, NEW t, NEW S, Doubted(t, S)
  PROVE  calm' \in [Paths -> Ages]
BY Records DEF HistInv, Doubted, Doubt

LEMMA NoStatType == NoStat \in [Paths -> Stats] /\ 0 \in Stats
BY DEF NoStat, Stats

\* A handler returns.
LEMMA ReturnKeeps ==
  ASSUME ThreadInv, NEW t \in Threads, NEW from, NEW S, Return(t, from, S)
  PROVE  ThreadInv' /\ Shape(t)
<1>0. "idle" \in PCs /\ "idle" \notin PathPCs /\ "idle" \notin DestPCs
  BY DEF PCs, PathPCs, DestPCs
<1>1. /\ pc' \in [Threads -> PCs] /\ pc'[t] = "idle" /\ \A u \in Threads \ {t} : pc'[u] = pc[u]
  BY <1>0 DEF ThreadInv, ThreadType, Return, Goto
<1>2. /\ path' \in [Threads -> Paths \cup {NoPath}] /\ dest' \in [Threads -> Paths \cup {NoPath}]
      /\ path'[t] = NoPath /\ dest'[t] = NoPath
      /\ \A u \in Threads \ {t} : path'[u] = path[u] /\ dest'[u] = dest[u]
  BY DEF ThreadInv, ThreadType, Return
<1>3. /\ ptr' \in [Threads -> Entries \cup {NoEntry}] /\ ptrAge' \in [Threads -> Ages]
      /\ ptr'[t] = NoEntry
      /\ \A u \in Threads \ {t} : ptr'[u] = ptr[u] /\ ptrAge'[u] = ptrAge[u]
  BY Records DEF ThreadInv, ThreadType, Return, SetPtr
<1>4. /\ caller' \in [Threads -> {"none", "getattr", "mknod", "open"}]
      /\ stbuf' \in [Threads -> [Paths -> Stats]]
  BY NoStatType DEF ThreadInv, ThreadType, Return
<1>5. /\ todo' \in [Threads -> SUBSET Paths] /\ todo'[t] = {}
      /\ \A u \in Threads \ {t} : todo'[u] = todo[u]
  BY DEF ThreadInv, ThreadType, Return
<1>6. suspect' = suspect \ {t} /\ ops' = ops /\ calm' \in [Paths -> Ages]
  BY DoubtType DEF ThreadInv, Return
<1>7. ThreadType' /\ HistInv'
  BY <1>1, <1>2, <1>3, <1>4, <1>5, <1>6 DEF ThreadInv, ThreadType, HistInv
<1>8. ControlInv'
  BY <1>0, <1>1, <1>2, <1>3, <1>5 DEF ThreadInv, ControlInv
<1>9. Shape(t)
  BY <1>1, <1>2, <1>3, <1>5, <1>6 DEF Shape, PtrSet
<1> QED
  BY <1>7, <1>8, <1>9 DEF ThreadInv

\* A handler goes on.
LEMMA MoveKeeps ==
  ASSUME ThreadInv, NEW t \in Threads, NEW from, NEW to \in PCs \ {"idle"}, NEW S, NEW M,
         from # "idle", M \subseteq {t}, StepWith(t, from, to, S, M),
         UNCHANGED <<dest, caller>>,
         path' \in [Threads -> Paths \cup {NoPath}],
         ptr' \in [Threads -> Entries \cup {NoEntry}], ptrAge' \in [Threads -> Ages],
         stbuf' \in [Threads -> [Paths -> Stats]], todo' \in [Threads -> SUBSET Paths],
         \A u \in Threads \ {t} : /\ path'[u] = path[u] /\ todo'[u] = todo[u]
                                  /\ ptr'[u] = ptr[u] /\ ptrAge'[u] = ptrAge[u],
         to \in PathPCs => path'[t] \in Paths,
         to \in DestPCs => from \in DestPCs,
         ptr'[t] # NoEntry => to \in PtrPCs,
         ({path'[t], dest[t]} \ {NoPath}) \cup todo'[t] \subseteq PathsOf(t),
         PtrSet(t)
  PROVE  ThreadInv' /\ Shape(t)
<1>1. /\ pc' \in [Threads -> PCs] /\ pc'[t] = to /\ \A u \in Threads \ {t} : pc'[u] = pc[u]
      /\ pc[t] = from
  BY DEF ThreadInv, ThreadType, StepWith, Goto, At
<1>2. suspect' = suspect \cup M /\ ops' = ops /\ calm' \in [Paths -> Ages]
  BY DoubtType DEF ThreadInv, StepWith
<1>3. ThreadType' /\ HistInv'
  BY <1>1, <1>2 DEF ThreadInv, ThreadType, HistInv
<1>4. ControlInv'
  BY <1>1 DEF ThreadInv, ControlInv
<1>5. Shape(t)
  BY <1>1, <1>2 DEF Shape, PathsOf
<1> QED
  BY <1>3, <1>4, <1>5 DEF ThreadInv

\* ... with its locals unchanged, from a place where it has no pointer.
LEMMA PlainMove ==
  ASSUME ThreadInv, NEW t \in Threads, NEW from \in PCs \ {"idle"}, NEW to \in PCs \ {"idle"},
         NEW S, NEW M, M \subseteq {t}, StepWith(t, from, to, S, M), UNCHANGED locals,
         from \notin PtrPCs, from \in PathPCs, to \in DestPCs => from \in DestPCs
  PROVE  ThreadInv' /\ Shape(t)
<1>1. pc[t] = from
  BY DEF StepWith, Goto, At
<1>2. ptr[t] = NoEntry /\ path[t] \in Paths
  BY <1>1 DEF ThreadInv, ControlInv
<1>3. PtrSet(t)
  BY <1>2 DEF PtrSet, locals, ptrVars
<1>4. UNCHANGED <<path, dest, ptr, ptrAge, caller, stbuf, todo>>
  BY DEF locals, ptrVars
<1>5. ({path[t], dest[t]} \ {NoPath}) \cup todo[t] \subseteq PathsOf(t)
  BY DEF PathsOf
<1>6. ThreadType
  BY DEF ThreadInv
<1> QED
  BY <1>2, <1>3, <1>4, <1>5, <1>6, MoveKeeps DEF ThreadType

\* ... with a stat from the server.
LEMMA StatMove ==
  ASSUME ThreadInv, NEW t \in Threads, NEW from \in PCs \ {"idle"}, NEW to \in PCs \ {"idle"},
         NEW v \in Stats, Step(t, from, to), SetStat(t, v),
         UNCHANGED <<path, dest, ptrVars, caller, todo>>,
         from \notin PtrPCs, from \in PathPCs, to \notin DestPCs
  PROVE  ThreadInv' /\ Shape(t)
<1> DEFINE none == {}
<1>1. pc[t] = from /\ StepWith(t, from, to, none, none) /\ none \subseteq {t}
  BY DEF Step, StepWith, Goto, At
<1> HIDE DEF none
<1>2. ptr[t] = NoEntry /\ path[t] \in Paths
  BY <1>1 DEF ThreadInv, ControlInv
<1>3. PtrSet(t)
  BY <1>2 DEF PtrSet, ptrVars
<1>4. UNCHANGED <<path, dest, ptr, ptrAge, caller, todo>>
  BY DEF ptrVars
<1>5. ({path[t], dest[t]} \ {NoPath}) \cup todo[t] \subseteq PathsOf(t)
  BY DEF PathsOf
<1>6. ThreadType
  BY DEF ThreadInv
<1>7. stbuf' \in [Threads -> [Paths -> Stats]]
  BY <1>2, <1>6 DEF ThreadType, SetStat
<1> QED
  BY <1>1, <1>2, <1>3, <1>4, <1>5, <1>6, <1>7, MoveKeeps DEF ThreadType

\* ... with the pointer set or dropped.
LEMMA PtrMove ==
  ASSUME ThreadInv, CacheInv, NEW t \in Threads,
         NEW from \in PCs \ {"idle"}, NEW to \in PCs \ {"idle"},
         NEW S, NEW M, M \subseteq {t}, StepWith(t, from, to, S, M),
         NEW e \in Entries \cup {NoEntry}, SetPtr(t, e),
         UNCHANGED <<path, dest, caller, stbuf, todo>>,
         from \in PathPCs, to \in DestPCs => from \in DestPCs,
         e # NoEntry => to \in PtrPCs /\ ExpirePath /\ e = Match(path[t])
  PROVE  ThreadInv' /\ Shape(t)
<1>1. pc[t] = from
  BY DEF StepWith, Goto, At
<1>2. path[t] \in Paths
  BY <1>1 DEF ThreadInv, ControlInv
<1>3. ThreadType
  BY DEF ThreadInv
<1>4. (IF e = NoEntry THEN 0 ELSE entry[e].age) \in Ages
  BY Records DEF CacheInv, EntryType
<1>5. /\ ptr' \in [Threads -> Entries \cup {NoEntry}] /\ ptrAge' \in [Threads -> Ages]
      /\ ptr'[t] = e /\ ptrAge'[t] = IF e = NoEntry THEN 0 ELSE entry[e].age
      /\ \A u \in Threads \ {t} : ptr'[u] = ptr[u] /\ ptrAge'[u] = ptrAge[u]
  BY <1>3, <1>4 DEF ThreadType, SetPtr
<1>6. PtrSet(t)
  BY <1>1, <1>5 DEF PtrSet
<1>7. ({path[t], dest[t]} \ {NoPath}) \cup todo[t] \subseteq PathsOf(t)
  BY DEF PathsOf
<1> QED
  BY <1>2, <1>3, <1>5, <1>6, <1>7, MoveKeeps DEF ThreadType

\* The new entry is the last of PathArray.
LEMMA AddedEntry ==
  ASSUME CacheInv, NEW e \in Entries, NEW p, NEW v, NEW l, AddEntry(e, p, v, l)
  PROVE  /\ e \in ToSet(PathArray') /\ entry'[e].path = p /\ entry'[e].age = 0
         /\ entry'[e].ver = v /\ entry'[e].loc = l
<1>1. /\ PathArray \in Seq(Entries) /\ entry \in [Entries -> EntryType]
      /\ SetCache(Append(PathArray, e), NonExistPathArray, [entry EXCEPT ![e] = NewEntry(p, v, l)])
  BY DEF CacheInv, Queue, AddEntry, queueBottom
<1>2. e \in ToSet(Append(PathArray, e))
  BY <1>1, AppendElements
<1>3. e \in Range(Append(PathArray, e))
  BY <1>2 DEF Range, ToSet
<1>4. e \in ToSet(PathArray') /\ entry'[e] = NewEntry(p, v, l)
  BY <1>1, <1>2, <1>3 DEF SetCache
<1> QED
  BY <1>4 DEF NewEntry

\* ... with the pointer set to an entry it has just added.
LEMMA NewMove ==
  ASSUME ThreadInv, CacheInv, NEW t \in Threads,
         NEW from \in PCs \ {"idle"}, NEW to \in PCs \ {"idle"},
         NEW S, NEW M, M \subseteq {t}, StepWith(t, from, to, S, M),
         NEW e \in Entries, NEW v, AddEntry(e, path[t], v, FALSE), SetPtr(t, e),
         UNCHANGED <<path, dest, caller, stbuf, todo>>,
         from \in PathPCs, to \in PtrPCs, to \notin DestPCs
  PROVE  ThreadInv' /\ Shape(t)
<1>1. pc[t] = from
  BY DEF StepWith, Goto, At
<1>2. path[t] \in Paths
  BY <1>1 DEF ThreadInv, ControlInv
<1>3. ThreadType
  BY DEF ThreadInv
<1>4. (IF e = NoEntry THEN 0 ELSE entry[e].age) \in Ages /\ e # NoEntry
  BY Records, PathCacheAssumption DEF CacheInv, EntryType, PathCacheAssumption
<1>5. /\ ptr' \in [Threads -> Entries \cup {NoEntry}] /\ ptrAge' \in [Threads -> Ages]
      /\ ptr'[t] = e /\ \A u \in Threads \ {t} : ptr'[u] = ptr[u] /\ ptrAge'[u] = ptrAge[u]
  BY <1>3, <1>4 DEF ThreadType, SetPtr
<1>6. PtrSet(t)
  <2>1. e \in ToSet(PathArray') /\ entry'[e].path = path[t] /\ entry'[e].age = 0
    BY AddedEntry
  <2>2. ptrAge'[t] \in Nat
    BY <1>5 DEF Ages
  <2>3. entry'[e].age <= ptrAge'[t]
    BY <2>1, <2>2
  <2> QED
    BY <1>5, <2>1, <2>3 DEF PtrSet
<1>7. ({path[t], dest[t]} \ {NoPath}) \cup todo[t] \subseteq PathsOf(t)
  BY DEF PathsOf
<1> QED
  BY <1>1, <1>2, <1>3, <1>5, <1>6, <1>7, MoveKeeps DEF ThreadType

\* _irodsGetattr returns to irodsMknod or to irodsOpen.
LEMMA GoesKeeps ==
  ASSUME ThreadInv, NEW t \in Threads, NEW from \in PathPCs, NEW to \in PathPCs \ DestPCs,
         Goes(t, from, to)
  PROVE  ThreadInv' /\ Shape(t)
<1> DEFINE none == {}
<1>0. ThreadType /\ from # "idle" /\ to \in PCs \ {"idle"}
  BY DEF ThreadInv, PathPCs
<1>1. pc[t] = from /\ StepWith(t, from, to, none, none) /\ none \subseteq {t}
  BY DEF Goes, Step, StepWith, Goto, At
<1> HIDE DEF none
<1>2. path[t] \in Paths
  BY <1>1 DEF ThreadInv, ControlInv
<1>3. /\ ptr' \in [Threads -> Entries \cup {NoEntry}] /\ ptrAge' \in [Threads -> Ages]
      /\ ptr'[t] = NoEntry
      /\ \A u \in Threads \ {t} : ptr'[u] = ptr[u] /\ ptrAge'[u] = ptrAge[u]
  BY <1>0, Records DEF ThreadType, Goes, SetPtr
<1>4. stbuf' \in [Threads -> [Paths -> Stats]]
  BY <1>0, NoStatType DEF ThreadType, Goes
<1>5. UNCHANGED <<path, dest, caller, todo>>
  BY DEF Goes
<1>6. PtrSet(t)
  BY <1>3 DEF PtrSet
<1>7. ({path[t], dest[t]} \ {NoPath}) \cup todo[t] \subseteq PathsOf(t)
  BY DEF PathsOf
<1> QED
  BY <1>0, <1>1, <1>2, <1>3, <1>4, <1>5, <1>6, <1>7, MoveKeeps DEF ThreadType

\* A handler is called.
LEMMA CallKeeps ==
  ASSUME ThreadInv, SrvInv, NEW t \in Threads, CallStep(t)
  PROVE  ThreadInv' /\ Shape(t) /\ UNCHANGED <<srvVars, cacheVars>>
<1>0. /\ ThreadType /\ ControlInv /\ HistInv /\ NoPath \notin Paths
      /\ MaxOps \in Nat
  BY PathCacheAssumption DEF PathCacheAssumption, ThreadInv
<1>1. pc[t] = "idle"
  BY DEF CallStep, Getattr, Handler, Close, Call, Readdir, Goto, At
<1>2. path[t] = NoPath /\ dest[t] = NoPath /\ todo[t] = {} /\ ptr[t] = NoEntry
  BY <1>0, <1>1 DEF ControlInv, PtrPCs
<1>3. ASSUME NEW l \in {"matchNon", "unlink", "change", "truncMatch", "mkdir", "closeMatch"},
             NEW p \in Paths, Call(t, l, p, NoPath),
             caller' \in [Threads -> {"none", "getattr", "mknod", "open"}]
      PROVE  ThreadInv' /\ Shape(t) /\ UNCHANGED <<srvVars, cacheVars>>
  <2>1. /\ pc' \in [Threads -> PCs] /\ pc'[t] = l /\ \A u \in Threads \ {t} : pc'[u] = pc[u]
    BY <1>0, <1>3 DEF ThreadType, Call, Goto, PCs
  <2>2. /\ path' \in [Threads -> Paths \cup {NoPath}] /\ path'[t] = p
        /\ \A u \in Threads \ {t} : path'[u] = path[u]
    BY <1>0, <1>3 DEF ThreadType, Call
  <2>3. dest' = dest
    BY <1>0, <1>2, <1>3 DEF ThreadType, Call
  <2>4. UNCHANGED <<srvVars, cacheVars, ptr, ptrAge, stbuf, todo, calm>>
    BY <1>3 DEF Call, ptrVars
  <2>5. PathsOf(t)' = {p}
    BY <1>0, <1>2, <2>2, <2>3, <2>4 DEF PathsOf
  <2>6. suspect' = Meet(t, {p}) /\ ops' \in 0..MaxOps
    <3>1. {p, NoPath} \ {NoPath} = {p}
      BY <1>0
    <3> QED
      BY <1>0, <1>3, <3>1 DEF Call, Count, HistInv
  <2>7. suspect \subseteq suspect' /\ suspect' \subseteq Threads
    BY <1>0, <2>6 DEF Meet, HistInv, ActiveOn
  <2>8. ThreadType' /\ HistInv'
    BY <1>0, <1>3, <2>1, <2>2, <2>3, <2>4, <2>6, <2>7 DEF ThreadType, HistInv
  <2>9. ControlInv'
    BY <1>0, <1>2, <2>1, <2>2, <2>3, <2>4 DEF ControlInv, DestPCs
  <2>10. Shape(t)
    BY <1>1, <1>2, <2>1, <2>2, <2>3, <2>4, <2>5, <2>6, <2>7 DEF Shape, PtrSet
  <2> QED
    BY <2>4, <2>8, <2>9, <2>10 DEF ThreadInv
<1>4. ASSUME NEW p \in Paths, NEW q \in Paths, Call(t, "rename", p, q), caller' = caller
      PROVE  ThreadInv' /\ Shape(t) /\ UNCHANGED <<srvVars, cacheVars>>
  <2>1. /\ pc' \in [Threads -> PCs] /\ pc'[t] = "rename"
        /\ \A u \in Threads \ {t} : pc'[u] = pc[u]
    BY <1>0, <1>4 DEF ThreadType, Call, Goto, PCs
  <2>2. /\ path' \in [Threads -> Paths \cup {NoPath}] /\ path'[t] = p
        /\ dest' \in [Threads -> Paths \cup {NoPath}] /\ dest'[t] = q
        /\ \A u \in Threads \ {t} : path'[u] = path[u] /\ dest'[u] = dest[u]
    BY <1>0, <1>4 DEF ThreadType, Call
  <2>4. UNCHANGED <<srvVars, cacheVars, ptr, ptrAge, stbuf, todo, calm>>
    BY <1>4 DEF Call, ptrVars
  <2>5. PathsOf(t)' = {p, q} \ {NoPath}
    BY <1>0, <1>2, <2>2, <2>4 DEF PathsOf
  <2>6. suspect' = Meet(t, {p, q} \ {NoPath}) /\ ops' \in 0..MaxOps
    BY <1>0, <1>4 DEF Call, Count, HistInv
  <2>7. suspect \subseteq suspect' /\ suspect' \subseteq Threads
    BY <1>0, <2>6 DEF Meet, HistInv, ActiveOn
  <2>8. ThreadType' /\ HistInv'
    BY <1>0, <1>4, <2>1, <2>2, <2>4, <2>6, <2>7 DEF ThreadType, HistInv
  <2>9. ControlInv'
    BY <1>0, <1>2, <2>1, <2>2, <2>4 DEF ControlInv
  <2>10. Shape(t)
    BY <1>1, <1>2, <2>1, <2>2, <2>4, <2>5, <2>6, <2>7 DEF Shape, PtrSet
  <2> QED
    BY <2>4, <2>8, <2>9, <2>10 DEF ThreadInv
<1>5. CASE Readdir(t)
  <2> DEFINE S == {p \in Paths : server[p] # 0}
  <2>1. /\ pc' \in [Threads -> PCs] /\ pc'[t] = "readdir"
        /\ \A u \in Threads \ {t} : pc'[u] = pc[u]
    BY <1>0, <1>5 DEF ThreadType, Readdir, Goto, PCs
  <2>2. /\ todo' \in [Threads -> SUBSET Paths] /\ todo'[t] = S
        /\ \A u \in Threads \ {t} : todo'[u] = todo[u]
        /\ stbuf' \in [Threads -> [Paths -> Stats]]
    BY <1>0, <1>5 DEF ThreadType, Readdir, SrvInv
  <2>4. UNCHANGED <<srvVars, cacheVars, ptr, ptrAge, path, dest, caller, calm>>
    BY <1>5 DEF Readdir, ptrVars
  <2>5. PathsOf(t)' = S
    BY <1>0, <1>2, <2>2, <2>4 DEF PathsOf
  <2>6. suspect' = Meet(t, S) /\ ops' \in 0..MaxOps
    BY <1>0, <1>5 DEF Readdir, Count, HistInv
  <2> HIDE DEF S
  <2>7. suspect \subseteq suspect' /\ suspect' \subseteq Threads
    BY <1>0, <2>6 DEF Meet, HistInv, ActiveOn
  <2>8. ThreadType' /\ HistInv'
    BY <1>0, <2>1, <2>2, <2>4, <2>6, <2>7 DEF ThreadType, HistInv
  <2>9. ControlInv'
    BY <1>0, <1>2, <2>1, <2>2, <2>4 DEF ControlInv, PathPCs, DestPCs
  <2>10. Shape(t)
    BY <1>1, <1>2, <2>1, <2>2, <2>4, <2>5, <2>6, <2>7 DEF Shape, PtrSet
  <2> QED
    BY <2>4, <2>8, <2>9, <2>10 DEF ThreadInv
<1>6. \A c \in {"getattr", "mknod", "open"}, p \in Paths : Getattr(t, p, c) =>
         /\ Call(t, "matchNon", p, NoPath)
         /\ caller' \in [Threads -> {"none", "getattr", "mknod", "open"}]
  BY <1>0 DEF Getattr, ThreadType
<1>7. \A l, p : Handler(t, l, p) =>
         /\ Call(t, l, p, NoPath)
         /\ caller' \in [Threads -> {"none", "getattr", "mknod", "open"}]
  BY <1>0 DEF Handler, ThreadType
<1> QED
  BY <1>3, <1>4, <1>5, <1>6, <1>7 DEF CallStep, Close

-------------------------------------------------------------------------------
(***************************************************************************)
(* One action after the other.                                             *)
(***************************************************************************)
Base == SrvInv /\ ThreadInv /\ CacheInv
Good(t) == Base' /\ Spares(t) /\ Shape(t)

\* What matchPathInPathCache returns.
LEMMA MatchIn ==
  ASSUME CacheInv, NEW p
  PROVE  /\ Match(p) \in Entries \cup {NoEntry}
         /\ Match(p) # NoEntry => /\ Match(p) \in ToSet(chkCacheExpire(PathArray))
                                  /\ entry[Match(p)].path = p
<1> DEFINE q == chkCacheExpire(PathArray)
<1>1. Queue(q)
  BY ExpireSub, SubQueueKeeps DEF CacheInv
<1>2. Match(p) = IF Has(q, p) THEN First(q, p) ELSE NoEntry
  BY DEF Match
<1> HIDE DEF q
<1>3. ASSUME Has(q, p) PROVE First(q, p) \in ToSet(q) /\ entry[First(q, p)].path = p
  <2>1. PICK k \in 1..Len(q) : entry[q[k]].path = p /\ First(q, p) = q[k]
    BY <1>1, <1>3, FirstOf
  <2>2. q[k] \in ToSet(q)
    BY <1>1, ElementsIn DEF Queue
  <2> QED
    BY <2>1, <2>2
<1>4. ToSet(q) \subseteq Entries
  BY <1>1, ElementsIn DEF Queue
<1> QED
  BY <1>2, <1>3, <1>4 DEF q

LEMMA PathIn ==
  ASSUME ThreadInv, NEW t \in Threads, pc[t] \in PathPCs
  PROVE  path[t] \in Paths /\ path[t] \in PathsOf(t)
BY PathCacheAssumption DEF PathCacheAssumption, ThreadInv, ControlInv, PathsOf

LEMMA DestIn ==
  ASSUME ThreadInv, NEW t \in Threads, pc[t] \in DestPCs
  PROVE  dest[t] \in Paths /\ dest[t] \in PathsOf(t)
BY PathCacheAssumption DEF PathCacheAssumption, ThreadInv, ControlInv, PathsOf

LEMMA SrvKeeps ==
  ASSUME SrvInv
  PROVE  /\ UNCHANGED srvVars => SrvInv'
         /\ \A p \in Paths, v \in Stats : ServerSet(p, v) => SrvInv'
         /\ \A p \in Paths : server' = server /\ creating' = creating \cup {p} => SrvInv'
         /\ \A p : server' = server /\ creating' = creating \ {p} => SrvInv'
<1>1. ASSUME NEW p \in Paths, NEW v \in Stats, ServerSet(p, v) PROVE SrvInv'
  BY <1>1 DEF SrvInv, ServerSet
<1> QED
  BY <1>1 DEF SrvInv, srvVars

LEMMA CacheSame ==
  ASSUME CacheInv, NEW t, UNCHANGED cacheVars
  PROVE  CacheInv' /\ Spares(t)
BY StoreKeeps DEF cacheVars

LEMMA FoundKeeps ==
  ASSUME ThreadInv, NEW t \in Threads, NEW from \in PathPCs,
         Found(t, from) \/ NotFound(t, from)
  PROVE  ThreadInv' /\ Shape(t)
<1>1. {"mknodRm", "open"} \subseteq PathPCs \ DestPCs
  BY DEF PathPCs, DestPCs, PCs
<1>2. \/ \E S : Return(t, from, S)
      \/ \E to \in PathPCs \ DestPCs : Goes(t, from, to)
  BY <1>1 DEF Found, NotFound
<1> QED
  BY <1>2, ReturnKeeps, GoesKeeps

LEMMA VersionTypes == SomeVersion \in Versions /\ Versions \subseteq Stats
<1>1. Versions # {}
  BY PathCacheAssumption, FS_EmptySet DEF PathCacheAssumption
<1> QED
  BY <1>1 DEF SomeVersion, Stats

\* The request was refused, or nothing was written.
LEMMA LeaveKeeps ==
  ASSUME Base, NEW t \in Threads, NEW from, NEW S,
         Return(t, from, S), UNCHANGED <<srvVars, cacheVars>>
  PROVE  Good(t)
BY ReturnKeeps, CacheSame, SrvKeeps DEF Base, Good

LEMMA GetattrKeeps ==
  ASSUME Base, NEW t \in Threads,
         \/ MatchNonExist(t) \/ MatchPath(t) \/ UseEntry(t) \/ UseEntryFails(t)
         \/ Stat(t) \/ StatFails(t) \/ Add(t)
  PROVE  Good(t)
<1>0. SrvInv /\ ThreadInv /\ CacheInv
  BY DEF Base
<1>1. /\ {"matchNon", "match", "use", "stat", "add"} \subseteq PathPCs
      /\ {"matchNon", "match", "use", "stat", "add"} \subseteq PCs \ {"idle"}
      /\ {"matchNon", "match", "stat", "add"} \cap PtrPCs = {} /\ "use" \in PtrPCs
      /\ {"matchNon", "match", "use", "stat", "add"} \cap DestPCs = {}
  BY DEF PathPCs, PtrPCs, DestPCs, PCs
<1>2. CASE MatchNonExist(t)
  <2>1. CacheInv' /\ Spares(t) /\ SrvInv'
    BY <1>0, <1>2, ExpireKeeps, SrvKeeps DEF MatchNonExist
  <2>2. CASE NotFound(t, "matchNon")
    BY <1>0, <1>1, <2>1, <2>2, FoundKeeps DEF Good, Base
  <2>3. CASE Step(t, "matchNon", "match") /\ UNCHANGED locals
    BY <1>0, <1>1, <2>1, <2>3, PlainMove DEF Step, Good, Base
  <2> QED
    BY <1>2, <2>2, <2>3 DEF MatchNonExist
<1>3. CASE MatchPath(t)
  <2>1. CacheInv' /\ Spares(t) /\ SrvInv' /\ ExpirePath
    BY <1>0, <1>3, ExpireKeeps, SrvKeeps DEF MatchPath
  <2> DEFINE e == Match(path[t])
             to == IF e = NoEntry THEN "stat" ELSE "use"
  <2>2. /\ e \in Entries \cup {NoEntry} /\ SetPtr(t, e) /\ StepWith(t, "match", to, {}, {})
        /\ UNCHANGED <<path, dest, caller, stbuf, todo>> /\ e = Match(path[t])
        /\ e # NoEntry => to \in PtrPCs /\ ExpirePath
        /\ to \in {"stat", "use"}
    BY <1>0, <1>1, <1>3, <2>1, MatchIn DEF MatchPath, Step
  <2> HIDE DEF e, to
  <2>3. ThreadInv' /\ Shape(t)
    BY <1>0, <1>1, <2>2, PtrMove
  <2> QED
    BY <2>1, <2>3 DEF Good, Base
<1>4. CASE UseEntry(t)
  BY <1>0, <1>1, <1>4, FoundKeeps, CacheSame, SrvKeeps DEF UseEntry, Good, Base
<1>5. CASE UseEntryFails(t)
  <2>1. path[t] \in PathsOf(t)
    BY <1>0, <1>1, <1>5, PathIn DEF UseEntryFails, At
  <2>2. CacheInv' /\ Spares(t) /\ SrvInv'
    BY <1>0, <1>5, <2>1, RemoveKeeps, SrvKeeps DEF UseEntryFails
  <2> DEFINE M == IF Has(rmPathFromCache(PathArray, path[t]), path[t]) THEN {t} ELSE {}
  <2>3. /\ SetPtr(t, NoEntry) /\ StepWith(t, "use", "stat", {}, M) /\ M \subseteq {t}
        /\ UNCHANGED <<path, dest, caller, stbuf, todo>>
    BY <1>5 DEF UseEntryFails
  <2> HIDE DEF M
  <2>4. ThreadInv' /\ Shape(t)
    BY <1>0, <1>1, <2>3, PtrMove
  <2> QED
    BY <2>2, <2>4 DEF Good, Base
<1>6. CASE Stat(t)
  <2>1. path[t] \in Paths
    BY <1>0, <1>1, <1>6, PathIn DEF Stat, Step, StepWith, Goto, At
  <2>2. server[path[t]] \in Stats
    BY <1>0, <2>1 DEF SrvInv
  <2>3. ThreadInv' /\ Shape(t)
    BY <1>0, <1>1, <1>6, <2>2, StatMove DEF Stat
  <2> QED
    BY <1>0, <1>6, <2>3, CacheSame, SrvKeeps DEF Stat, Good, Base
<1>7. CASE StatFails(t)
  <2>1. ThreadInv' /\ Shape(t)
    BY <1>0, <1>1, <1>7, PlainMove DEF StatFails
  <2> QED
    BY <1>0, <1>7, <2>1, CacheSame, SrvKeeps DEF StatFails, Good, Base
<1>8. CASE Add(t)
  <2> DEFINE v == stbuf[t][path[t]]
  <2>1. path[t] \in Paths
    BY <1>0, <1>1, <1>8, PathIn DEF Add, At
  <2>2. v \in Stats
    BY <1>0, <2>1 DEF ThreadInv, ThreadType
  <2>3. \/ AddNonExist(path[t]) /\ NotFound(t, "add")
        \/ AddPath(path[t], v, FALSE) /\ Found(t, "add")
    BY <1>8 DEF Add
  <2>4. SrvInv'
    BY <1>0, <1>8, SrvKeeps DEF Add
  <2> HIDE DEF v
  <2>5. CacheInv' /\ Spares(t)
    BY <1>0, <2>1, <2>2, <2>3, AddKeeps
  <2>6. ThreadInv' /\ Shape(t)
    BY <1>0, <1>1, <2>3, FoundKeeps
  <2> QED
    BY <2>4, <2>5, <2>6 DEF Good, Base
<1> QED
  BY <1>2, <1>3, <1>4, <1>5, <1>6, <1>7, <1>8

LEMMA ReaddirKeeps ==
  ASSUME Base, NEW t \in Threads, ReaddirMatch(t) \/ ReaddirAdd(t) \/ ReaddirDone(t)
  PROVE  Good(t)
<1>0. SrvInv /\ ThreadInv /\ CacheInv /\ ThreadType /\ ControlInv
  BY DEF Base, ThreadInv
<1>1. /\ {"readdir", "readdirAdd"} \subseteq PCs \ {"idle"} /\ "readdirAdd" \in PathPCs
      /\ "readdir" \notin PathPCs /\ {"readdir", "readdirAdd"} \cap PtrPCs = {}
      /\ {"readdir", "readdirAdd"} \cap DestPCs = {}
  BY DEF PathPCs, PtrPCs, DestPCs, PCs
<1> DEFINE none == {}
<1>2. ASSUME NEW from \in {"readdir", "readdirAdd"}, NEW to \in {"readdir", "readdirAdd"},
             StepWith(t, from, to, none, none), UNCHANGED <<dest, ptrVars, caller, stbuf>>,
             path' \in [Threads -> Paths \cup {NoPath}], todo' \in [Threads -> SUBSET Paths],
             \A u \in Threads \ {t} : path'[u] = path[u] /\ todo'[u] = todo[u],
             to = "readdirAdd" => path'[t] \in Paths,
             {path'[t]} \cup todo'[t] \subseteq {path[t], NoPath} \cup todo[t],
             NoPath \notin todo'[t]
      PROVE  ThreadInv' /\ Shape(t)
  <2>1. pc[t] = from /\ none \subseteq {t}
    BY <1>2 DEF StepWith, Goto, At
  <2> HIDE DEF none
  <2>2. ptr[t] = NoEntry
    BY <1>0, <1>1, <2>1 DEF ControlInv
  <2>3. PtrSet(t) /\ ptr' = ptr /\ ptrAge' = ptrAge /\ UNCHANGED <<dest, caller>> /\ stbuf' = stbuf
    BY <1>2, <2>2 DEF PtrSet, ptrVars
  <2>4. ({path'[t], dest[t]} \ {NoPath}) \cup todo'[t] \subseteq PathsOf(t)
    BY <1>2 DEF PathsOf
  <2>5. to \in PathPCs => path'[t] \in Paths
    BY <1>1, <1>2
  <2>6. to \in PCs \ {"idle"} /\ from # "idle" /\ (to \in DestPCs => from \in DestPCs)
    BY <1>1
  <2> QED
    BY <1>0, <1>2, <2>1, <2>2, <2>3, <2>4, <2>5, <2>6, MoveKeeps DEF ThreadType
<1>3. CASE ReaddirMatch(t)
  <2>1. CacheInv' /\ Spares(t) /\ SrvInv'
    BY <1>0, <1>3, ExpireKeeps, SrvKeeps DEF ReaddirMatch
  <2>2. PICK p \in todo[t] :
           /\ todo' = [todo EXCEPT ![t] = @ \ {p}]
           /\ IF Match(p) = NoEntry
                THEN Step(t, "readdir", "readdirAdd") /\ path' = [path EXCEPT ![t] = p]
                ELSE Step(t, "readdir", "readdir") /\ UNCHANGED path
    BY <1>3 DEF ReaddirMatch
  <2>3. p \in Paths /\ NoPath \notin Paths /\ NoPath \notin todo[t]
    BY <1>0, PathCacheAssumption DEF PathCacheAssumption, ThreadType
  <2>4. /\ todo' \in [Threads -> SUBSET Paths] /\ todo'[t] = todo[t] \ {p}
        /\ \A u \in Threads \ {t} : todo'[u] = todo[u]
    BY <1>0, <2>2 DEF ThreadType
  <2>5. UNCHANGED <<dest, ptrVars, caller, stbuf>>
    BY <1>3 DEF ReaddirMatch
  <2>6. CASE Step(t, "readdir", "readdirAdd") /\ path' = [path EXCEPT ![t] = p]
    <3>1. /\ path' \in [Threads -> Paths \cup {NoPath}] /\ path'[t] = p
          /\ \A u \in Threads \ {t} : path'[u] = path[u]
      BY <1>0, <2>3, <2>6 DEF ThreadType
    <3>2. StepWith(t, "readdir", "readdirAdd", none, none)
      BY <2>6 DEF Step
    <3> HIDE DEF none
    <3>3. ThreadInv' /\ Shape(t)
      BY <1>2, <2>3, <2>4, <2>5, <3>1, <3>2
    <3> QED
      BY <2>1, <3>3 DEF Good, Base
  <2>7. CASE Step(t, "readdir", "readdir") /\ UNCHANGED path
    <3>1. StepWith(t, "readdir", "readdir", none, none)
      BY <2>7 DEF Step
    <3> HIDE DEF none
    <3>2. ThreadInv' /\ Shape(t)
      BY <1>0, <1>2, <2>3, <2>4, <2>5, <2>7, <3>1 DEF ThreadType
    <3> QED
      BY <2>1, <3>2 DEF Good, Base
  <2> QED
    BY <2>2, <2>6, <2>7
<1>4. CASE ReaddirAdd(t)
  <2>1. pc[t] = "readdirAdd" /\ StepWith(t, "readdirAdd", "readdir", none, none)
    BY <1>4 DEF ReaddirAdd, Step, StepWith, Goto, At
  <2>2. path[t] \in Paths
    BY <1>0, <1>1, <2>1, PathIn
  <2>3. stbuf[t][path[t]] \in Stats
    BY <1>0, <2>2 DEF ThreadType
  <2>4. CacheInv' /\ Spares(t)
    <3>1. AddPath(path[t], stbuf[t][path[t]], FALSE)
      BY <1>4 DEF ReaddirAdd
    <3> QED
      BY <1>0, <2>2, <2>3, <3>1, AddKeeps
  <2>5. SrvInv' /\ UNCHANGED <<dest, ptrVars, caller, stbuf>> /\ todo' = todo
    BY <1>0, <1>4, SrvKeeps DEF ReaddirAdd
  <2>6. /\ path' \in [Threads -> Paths \cup {NoPath}] /\ path'[t] = NoPath
        /\ \A u \in Threads \ {t} : path'[u] = path[u]
    BY <1>0, <1>4 DEF ThreadType, ReaddirAdd
  <2>7. NoPath \notin todo[t] /\ todo \in [Threads -> SUBSET Paths]
    BY <1>0, PathCacheAssumption DEF PathCacheAssumption, ThreadType
  <2> HIDE DEF none
  <2>8. ThreadInv' /\ Shape(t)
    BY <1>2, <2>1, <2>5, <2>6, <2>7
  <2> QED
    BY <2>4, <2>5, <2>8 DEF Good, Base
<1>5. CASE ReaddirDone(t)
  BY <1>5, LeaveKeeps DEF ReaddirDone
<1> QED
  BY <1>3, <1>4, <1>5

\* irodsMkdir, the end of irodsMknod and irodsUnlink.
LEMMA MakeKeeps ==
  ASSUME Base, NEW t \in Threads,
         \/ MkdirServer(t) \/ MkdirAdd(t) \/ RmNon(t) \/ MknodRm(t) \/ MknodAdd(t)
         \/ UnlinkServer(t) \/ Rm(t)
  PROVE  Good(t)
<1>0. SrvInv /\ ThreadInv /\ CacheInv /\ ThreadType
  BY DEF Base, ThreadInv
<1> DEFINE L == {"mkdir", "mkdirAdd", "rmNon", "mknodRm", "mknodAdd", "unlink", "rm"}
<1>1. /\ L \subseteq PathPCs /\ L \subseteq PCs \ {"idle"}
      /\ L \cap PtrPCs = {} /\ L \cap DestPCs = {}
  BY DEF PathPCs, PtrPCs, DestPCs, PCs
<1>2. pc[t] \in L
  BY DEF MkdirServer, MkdirAdd, RmNon, MknodRm, MknodAdd, UnlinkServer, Rm, Step, StepWith,
         Goto, At
<1>3. path[t] \in Paths /\ path[t] \in PathsOf(t)
  BY <1>0, <1>1, <1>2, PathIn
<1>4. stbuf[t][path[t]] \in Stats
  BY <1>0, <1>3 DEF ThreadType
<1>5. CASE MkdirServer(t)
  <2>1. CASE Refused(t, "mkdir", server[path[t]] = 0)
    BY <2>1, LeaveKeeps DEF Refused
  <2>2. ASSUME NEW v \in Versions, ServerSet(path[t], v), UNCHANGED cacheVars,
               \/ /\ Step(t, "mkdir", "mkdirAdd") /\ SetStat(t, v)
                  /\ UNCHANGED <<path, dest, ptrVars, caller, todo>>
               \/ Return(t, "mkdir", {path[t]})
        PROVE  Good(t)
    <3>1. v \in Stats
      BY VersionTypes
    <3>2. SrvInv' /\ CacheInv' /\ Spares(t)
      BY <1>0, <1>3, <2>2, <3>1, SrvKeeps, CacheSame
    <3>3. ThreadInv' /\ Shape(t)
      BY <1>0, <1>1, <2>2, <3>1, StatMove, ReturnKeeps
    <3> QED
      BY <3>2, <3>3 DEF Good, Base
  <2> QED
    BY <1>5, <2>1, <2>2 DEF MkdirServer
<1>6. CASE MkdirAdd(t)
  <2> DEFINE none == {}
             S == Second(path[t])
  <2>1. StepWith(t, "mkdirAdd", "rmNon", S, none) /\ none \subseteq {t} /\ UNCHANGED locals
    BY <1>6 DEF MkdirAdd
  <2> HIDE DEF none, S
  <2>2. ThreadInv' /\ Shape(t)
    BY <1>0, <1>1, <2>1, PlainMove
  <2>3. AddPath(path[t], stbuf[t][path[t]], FALSE) /\ SrvInv'
    BY <1>0, <1>6, SrvKeeps DEF MkdirAdd
  <2>4. CacheInv' /\ Spares(t)
    BY <1>0, <1>3, <1>4, <2>3, AddKeeps
  <2> QED
    BY <2>2, <2>3, <2>4 DEF Good, Base
<1>7. CASE RmNon(t)
  <2> DEFINE p == IF dest[t] = NoPath THEN path[t] ELSE dest[t]
  <2>1. RmNonExist(p) /\ Return(t, "rmNon", {}) /\ SrvInv'
    BY <1>0, <1>7, SrvKeeps DEF RmNon
  <2> HIDE DEF p
  <2> QED
    BY <1>0, <2>1, RemoveKeeps, ReturnKeeps DEF Good, Base
<1>8. CASE MknodRm(t)
  <2> DEFINE none == {}
  <2>1. /\ StepWith(t, "mknodRm", "mknodAdd", none, none) /\ none \subseteq {t}
        /\ UNCHANGED locals /\ RmNonExist(path[t])
    BY <1>8 DEF MknodRm, Step
  <2> HIDE DEF none
  <2>2. ThreadInv' /\ Shape(t)
    BY <1>0, <1>1, <2>1, PlainMove
  <2>3. CacheInv' /\ Spares(t) /\ SrvInv'
    BY <1>0, <1>3, <1>8, <2>1, RemoveKeeps, SrvKeeps DEF MknodRm
  <2> QED
    BY <2>2, <2>3 DEF Good, Base
<1>9. CASE MknodAdd(t)
  <2> DEFINE S == Second(path[t])
             none == {}
  <2>1. PICK e \in Entries : AddEntry(e, path[t], SomeVersion, FALSE) /\ SetPtr(t, e)
    BY <1>9 DEF MknodAdd
  <2>2. /\ AddPath(path[t], SomeVersion, FALSE) /\ SrvInv' /\ SomeVersion \in Stats
        /\ FALSE \in BOOLEAN
    BY <1>0, <1>9, <2>1, SrvKeeps, VersionTypes DEF MknodAdd, AddPath
  <2>3. CacheInv' /\ Spares(t)
    BY <1>0, <1>3, <2>2, AddKeeps
  <2>4. /\ StepWith(t, "mknodAdd", "mknodSet", S, none) /\ none \subseteq {t}
        /\ UNCHANGED <<path, dest, caller, stbuf, todo>>
        /\ "mknodSet" \in PCs \ {"idle"} /\ "mknodSet" \in PtrPCs /\ "mknodSet" \notin DestPCs
    BY <1>9 DEF MknodAdd, PCs, PtrPCs, DestPCs
  <2> HIDE DEF S, none
  <2>5. ThreadInv' /\ Shape(t)
    BY <1>0, <1>1, <1>3, <2>1, <2>2, <2>4, NewMove
  <2> QED
    BY <2>2, <2>3, <2>5 DEF Good, Base
<1>10. CASE UnlinkServer(t)
  <2>1. CASE Refused(t, "unlink", server[path[t]] # 0)
    BY <2>1, LeaveKeeps DEF Refused
  <2>2. CASE /\ ServerSet(path[t], 0) /\ UNCHANGED cacheVars
             /\ \/ Step(t, "unlink", "rm") /\ UNCHANGED locals
                \/ Return(t, "unlink", {path[t]})
    <3>1. SrvInv' /\ CacheInv' /\ Spares(t)
      BY <1>0, <1>3, <2>2, NoStatType, SrvKeeps, CacheSame
    <3>2. ThreadInv' /\ Shape(t)
      BY <1>0, <1>1, <2>2, PlainMove, ReturnKeeps DEF Step
    <3> QED
      BY <3>1, <3>2 DEF Good, Base
  <2> QED
    BY <1>10, <2>1, <2>2 DEF UnlinkServer
<1>11. CASE Rm(t)
  BY <1>0, <1>3, <1>11, RemoveKeeps, ReturnKeeps, SrvKeeps DEF Rm, Good, Base
<1> QED
  BY <1>5, <1>6, <1>7, <1>8, <1>9, <1>10, <1>11

LEMMA RenameKeeps ==
  ASSUME Base, NEW t \in Threads,
         \/ RenameServer(t) \/ RenameUnlink(t) \/ RenameAgain(t)
         \/ RenameRmTo(t) \/ RenameMatch(t) \/ RenameAdd(t) \/ RenameRmFrom(t)
  PROVE  Good(t)
<1>0. SrvInv /\ ThreadInv /\ CacheInv /\ ThreadType
  BY DEF Base, ThreadInv
<1> DEFINE none == {}
           L == {"rename", "renameUnlink", "renameAgain", "renameRmTo", "renameMatch",
                 "renameAdd", "renameRmFrom"}
<1>1. /\ L \cup {"rmNon"} \subseteq PathPCs /\ L \cup {"rmNon"} \subseteq PCs \ {"idle"}
      /\ (L \ {"renameAdd"}) \cap PtrPCs = {} /\ "renameAdd" \in PtrPCs
      /\ L \subseteq DestPCs
  BY DEF PathPCs, PtrPCs, DestPCs, PCs
<1>2. pc[t] \in L
  BY DEF RenameServer, RenameUnlink, RenameAgain, RenameRmTo, RenameMatch, RenameAdd,
         RenameRmFrom, Step, StepWith, Goto, At
<1>3. /\ path[t] \in Paths /\ path[t] \in PathsOf(t)
      /\ dest[t] \in Paths /\ dest[t] \in PathsOf(t) /\ none \subseteq {t}
  BY <1>0, <1>1, <1>2, PathIn, DestIn
<1>4. ASSUME NEW from \in {"rename", "renameAgain"}, Renamed(t, from) PROVE Good(t)
  <2>1. /\ server' = [server EXCEPT ![dest[t]] = server[path[t]], ![path[t]] = 0]
        /\ \/ Step(t, from, "renameRmTo") /\ UNCHANGED locals
           \/ Return(t, from, PathsOf(t))
        /\ UNCHANGED <<creating, cacheVars>>
    BY <1>4 DEF Renamed
  <2>2. SrvInv' /\ CacheInv' /\ Spares(t)
    BY <1>0, <1>3, <2>1, NoStatType, CacheSame DEF SrvInv
  <2>3. Step(t, from, "renameRmTo") => StepWith(t, from, "renameRmTo", none, none)
    BY DEF Step
  <2> HIDE DEF none
  <2>4. /\ from \in PCs \ {"idle"} /\ from \in PathPCs /\ from \notin PtrPCs
        /\ from \in DestPCs /\ "renameRmTo" \in PCs \ {"idle"}
    BY <1>1
  <2>5. ThreadInv' /\ Shape(t)
    <3>1. CASE StepWith(t, from, "renameRmTo", none, none) /\ UNCHANGED locals
      BY <1>0, <1>3, <2>4, <3>1, PlainMove
    <3>2. CASE Return(t, from, PathsOf(t))
      BY <1>0, <3>2, ReturnKeeps
    <3> QED
      BY <2>1, <2>3, <3>1, <3>2
  <2> QED
    BY <2>2, <2>5 DEF Good, Base
<1>9. CASE RenameServer(t)
  <2>1. CASE Refused(t, "rename", server[path[t]] # 0 /\ server[dest[t]] = 0)
    BY <2>1, LeaveKeeps DEF Refused
  <2>2. CASE Step(t, "rename", "renameUnlink") /\ UNCHANGED <<srvVars, cacheVars, locals>>
    <3>1. /\ StepWith(t, "rename", "renameUnlink", none, none) /\ UNCHANGED locals
          /\ SrvInv' /\ CacheInv' /\ Spares(t)
      BY <1>0, <2>2, SrvKeeps, CacheSame DEF Step
    <3> HIDE DEF none
    <3>2. ThreadInv' /\ Shape(t)
      BY <1>0, <1>1, <1>3, <3>1, PlainMove
    <3> QED
      BY <3>1, <3>2 DEF Good, Base
  <2> QED
    BY <1>4, <1>9, <2>1, <2>2 DEF RenameServer
<1>10. CASE RenameUnlink(t)
  <2>1. /\ StepWith(t, "renameUnlink", "renameAgain", none, none) /\ UNCHANGED locals
        /\ SrvInv' /\ CacheInv' /\ Spares(t)
    BY <1>0, <1>3, <1>10, NoStatType, CacheSame DEF RenameUnlink, Step, SrvInv
  <2> HIDE DEF none
  <2>2. ThreadInv' /\ Shape(t)
    BY <1>0, <1>1, <1>3, <2>1, PlainMove
  <2> QED
    BY <2>1, <2>2 DEF Good, Base
<1>11. CASE RenameAgain(t)
  <2>1. ASSUME NEW S, Return(t, "renameAgain", S), UNCHANGED <<srvVars, cacheVars>>
        PROVE  Good(t)
    BY <2>1, LeaveKeeps
  <2> QED
    BY <1>4, <1>11, <2>1 DEF RenameAgain
<1>5. CASE RenameRmTo(t)
  <2>1. StepWith(t, "renameRmTo", "renameMatch", none, none) /\ UNCHANGED locals
    BY <1>5 DEF RenameRmTo, Step
  <2> HIDE DEF none
  <2>2. ThreadInv' /\ Shape(t)
    BY <1>0, <1>1, <1>3, <2>1, PlainMove
  <2> QED
    BY <1>0, <1>3, <1>5, <2>2, RemoveKeeps, SrvKeeps DEF RenameRmTo, Good, Base
<1>6. CASE RenameMatch(t)
  <2>1. CacheInv' /\ Spares(t) /\ SrvInv' /\ ExpirePath
    BY <1>0, <1>6, ExpireKeeps, SrvKeeps DEF RenameMatch
  <2> DEFINE e == Match(path[t])
             to == IF e = NoEntry THEN "rmNon" ELSE "renameAdd"
  <2>2. /\ e \in Entries \cup {NoEntry} /\ SetPtr(t, e)
        /\ StepWith(t, "renameMatch", to, none, none)
        /\ UNCHANGED <<path, dest, caller, stbuf, todo>> /\ e = Match(path[t])
        /\ e # NoEntry => to \in PtrPCs
        /\ to \in PCs \ {"idle"}
    BY <1>0, <1>1, <1>6, MatchIn DEF RenameMatch, Step
  <2>3. "renameMatch" \in DestPCs /\ "renameMatch" \in PathPCs /\ "renameMatch" \in PCs \ {"idle"}
    BY <1>1
  <2> HIDE DEF e, to, none
  <2>4. ThreadInv' /\ Shape(t)
    BY <1>0, <1>3, <2>1, <2>2, <2>3, PtrMove
  <2> QED
    BY <2>1, <2>4 DEF Good, Base
<1>7. CASE RenameAdd(t)
  <2> DEFINE S == Second(dest[t]) \cup (IF Trusted(t) THEN {} ELSE {dest[t]})
  <2>1. /\ SetPtr(t, NoEntry) /\ StepWith(t, "renameAdd", "renameRmFrom", S, none)
        /\ UNCHANGED <<path, dest, caller, stbuf, todo>> /\ SrvInv'
    BY <1>0, <1>7, SrvKeeps DEF RenameAdd
  <2>2. PICK v \in IF Live(ptr[t]) THEN {entry[ptr[t]].ver} ELSE Versions :
               AddPath(dest[t], v, FALSE)
    BY <1>7 DEF RenameAdd
  <2>3. v \in Stats
    <3>1. CASE Live(ptr[t])
      <4>1. ptr[t] \in Entries
        BY <1>0, <3>1 DEF Live, Range, CacheInv, Queue
      <4> QED
        BY <1>0, <2>2, <3>1, <4>1 DEF CacheInv, EntryType
    <3>2. CASE ~Live(ptr[t])
      BY <2>2, <3>2, VersionTypes
    <3> QED
      BY <3>1, <3>2
  <2>4. CacheInv' /\ Spares(t)
    BY <1>0, <1>3, <2>2, <2>3, AddKeeps
  <2> HIDE DEF S, none
  <2>5. ThreadInv' /\ Shape(t)
    BY <1>0, <1>1, <1>3, <2>1, PtrMove
  <2> QED
    BY <2>1, <2>4, <2>5 DEF Good, Base
<1>8. CASE RenameRmFrom(t)
  <2>1. StepWith(t, "renameRmFrom", "rmNon", none, none) /\ UNCHANGED locals
    BY <1>8 DEF RenameRmFrom, Step
  <2> HIDE DEF none
  <2>2. ThreadInv' /\ Shape(t)
    BY <1>0, <1>1, <1>3, <2>1, PlainMove
  <2> QED
    BY <1>0, <1>3, <1>8, <2>2, RemoveKeeps, SrvKeeps DEF RenameRmFrom, Good, Base
<1> QED
  BY <1>5, <1>6, <1>7, <1>8, <1>9, <1>10, <1>11

\* The local copy of an entry is stored with the version it has.
LEMMA LocStore ==
  ASSUME CacheInv, NEW e, Live(e), entry' = [entry EXCEPT ![e].loc = TRUE]
  PROVE  \E v \in Stats : /\ e \in Entries /\ v = entry[e].ver
                          /\ entry' = [entry EXCEPT ![e].ver = v, ![e].loc = TRUE]
<1>1. e \in Entries /\ entry \in [Entries -> EntryType]
  BY DEF CacheInv, Queue, Live, Range
<1>2. entry[e] \in EntryType /\ entry[e].ver \in Stats
  BY <1>1 DEF EntryType
<1>3. PICK v \in Stats : v = entry[e].ver
  BY <1>2
<1>4. [entry[e] EXCEPT !.loc = TRUE] = [entry[e] EXCEPT !.ver = v, !.loc = TRUE]
  BY <1>2, <1>3 DEF EntryType
<1>5. entry' = [entry EXCEPT ![e].ver = v, ![e].loc = TRUE]
  BY <1>1, <1>4
<1> QED
  BY <1>1, <1>3, <1>5

\* A store through the pointer.
LEMMA UseKeeps ==
  ASSUME CacheInv, NEW t, NEW e, UNCHANGED <<PathArray, NonExistPathArray>>,
         NEW v \in Stats, NEW l \in BOOLEAN,
         \/ entry' = entry
         \/ Live(e) /\ entry' = [entry EXCEPT ![e].ver = v]
         \/ Live(e) /\ entry' = [entry EXCEPT ![e].ver = v, ![e].loc = l]
  PROVE  CacheInv' /\ Spares(t)
<1>1. CASE entry' = entry
  BY <1>1, StoreKeeps
<1>2. CASE Live(e) /\ entry' # entry
  <2>1. e \in Entries /\ entry[e] \in EntryType /\ entry \in [Entries -> EntryType]
    BY <1>2 DEF CacheInv, Queue, Live, Range
  <2>2. CASE entry' = [entry EXCEPT ![e].ver = v]
    <3> DEFINE k == entry[e].loc
    <3>1. k \in BOOLEAN
      BY <2>1 DEF EntryType
    <3>2. [entry[e] EXCEPT !.ver = v] = [entry[e] EXCEPT !.ver = v, !.loc = k]
      BY <2>1 DEF EntryType
    <3>3. entry' = [entry EXCEPT ![e] = [@ EXCEPT !.ver = v, !.loc = k]]
      BY <2>1, <2>2, <3>2
    <3> HIDE DEF k
    <3> QED
      BY <2>1, <3>1, <3>3, StoreKeeps
  <2>3. CASE entry' = [entry EXCEPT ![e].ver = v, ![e].loc = l]
    <3>1. entry' = [entry EXCEPT ![e] = [@ EXCEPT !.ver = v, !.loc = l]]
      BY <2>1, <2>3 DEF EntryType
    <3> QED
      BY <2>1, <3>1, StoreKeeps
  <2> QED
    BY <1>2, <2>2, <2>3
<1> QED
  BY <1>1, <1>2

LEMMA MknodSetKeeps ==
  ASSUME Base, NEW t \in Threads, MknodSet(t)
  PROVE  Good(t)
<1>0. SrvInv /\ ThreadInv /\ CacheInv
  BY DEF Base
<1> DEFINE e == ptr[t]
<1>1. /\ UNCHANGED <<PathArray, NonExistPathArray>> /\ SrvInv'
      /\ \/ entry' = entry
         \/ Live(e) /\ entry' = [entry EXCEPT ![e].loc = TRUE]
  BY <1>0, SrvKeeps DEF MknodSet
<1>2. CacheInv' /\ Spares(t)
  <2>1. CASE entry' = entry
    BY <1>0, <1>1, <2>1, StoreKeeps
  <2>2. CASE Live(e) /\ entry' = [entry EXCEPT ![e].loc = TRUE]
    <3>1. \E v \in Stats : /\ e \in Entries
                           /\ entry' = [entry EXCEPT ![e].ver = v, ![e].loc = TRUE]
      BY <1>0, <2>2, LocStore
    <3> QED
      BY <1>0, <1>1, <2>2, <3>1, UseKeeps
  <2> QED
    BY <1>1, <2>1, <2>2
<1>3. ThreadInv' /\ Shape(t)
  BY <1>0, ReturnKeeps DEF MknodSet
<1> QED
  BY <1>1, <1>2, <1>3 DEF Good, Base

LEMMA ChangeKeeps ==
  ASSUME Base, NEW t \in Threads,
         TruncMatch(t) \/ TruncUse(t) \/ ChangeServer(t) \/ ChangeMatch(t) \/ ChangeUse(t)
  PROVE  Good(t)
<1>0. SrvInv /\ ThreadInv /\ CacheInv /\ ThreadType
  BY DEF Base, ThreadInv
<1> DEFINE none == {}
           L == {"truncMatch", "truncUse", "change", "changeMatch", "changeUse"}
<1>1. /\ L \subseteq PathPCs /\ L \subseteq PCs \ {"idle"} /\ L \cap DestPCs = {}
      /\ {"truncUse", "changeUse"} \subseteq PtrPCs
      /\ {"truncMatch", "change", "changeMatch"} \cap PtrPCs = {}
  BY DEF PathPCs, PtrPCs, DestPCs, PCs
<1>2. pc[t] \in L
  BY DEF TruncMatch, TruncUse, ChangeServer, ChangeMatch, ChangeUse, Step, StepWith, Goto, At
<1>3. /\ path[t] \in Paths /\ path[t] \in PathsOf(t) /\ none \subseteq {t}
  BY <1>0, <1>1, <1>2, PathIn
<1>4. stbuf[t][path[t]] \in Stats
  BY <1>0, <1>3 DEF ThreadType
<1>5. CASE TruncMatch(t)
  <2> DEFINE l == Match(path[t]) # NoEntry /\ entry[Match(path[t])].loc
             e == IF l THEN Match(path[t]) ELSE NoEntry
             to == IF l THEN "truncUse" ELSE "change"
  <2>1. CacheInv' /\ Spares(t) /\ SrvInv' /\ ExpirePath
    BY <1>0, <1>5, ExpireKeeps, SrvKeeps DEF TruncMatch
  <2>2. /\ e \in Entries \cup {NoEntry} /\ SetPtr(t, e)
        /\ StepWith(t, "truncMatch", to, none, none)
        /\ UNCHANGED <<path, dest, caller, stbuf, todo>>
        /\ e # NoEntry => to \in PtrPCs /\ e = Match(path[t])
        /\ to \in PCs \ {"idle"} /\ to \notin DestPCs
    BY <1>0, <1>1, <1>5, MatchIn DEF TruncMatch, Step
  <2> HIDE DEF e, to, l, none
  <2>3. ThreadInv' /\ Shape(t)
    BY <1>0, <1>1, <1>3, <2>1, <2>2, PtrMove
  <2> QED
    BY <2>1, <2>3 DEF Good, Base
<1>6. CASE TruncUse(t)
  <2>1. CASE Goes(t, "truncUse", "change") /\ UNCHANGED <<srvVars, cacheVars>>
    BY <1>0, <1>1, <2>1, GoesKeeps, CacheSame, SrvKeeps DEF Good, Base
  <2>2. ASSUME NEW v \in Versions, Live(ptr[t]), entry' = [entry EXCEPT ![ptr[t]].ver = v],
               Return(t, "truncUse", {entry[ptr[t]].path}),
               UNCHANGED <<srvVars, PathArray, NonExistPathArray>>
        PROVE  Good(t)
    <3>1. v \in Stats /\ TRUE \in BOOLEAN
      BY VersionTypes
    <3>2. CacheInv' /\ Spares(t)
      BY <1>0, <2>2, <3>1, UseKeeps
    <3> QED
      BY <1>0, <2>2, <3>2, ReturnKeeps, SrvKeeps DEF Good, Base
  <2> QED
    BY <1>6, <2>1, <2>2 DEF TruncUse
<1>7. CASE ChangeServer(t)
  <2>1. CASE Refused(t, "change", server[path[t]] # 0)
    BY <2>1, LeaveKeeps DEF Refused
  <2>2. ASSUME NEW v \in Versions, ServerSet(path[t], v), UNCHANGED cacheVars,
               \/ /\ Step(t, "change", "changeMatch") /\ SetStat(t, v)
                  /\ UNCHANGED <<path, dest, ptrVars, caller, todo>>
               \/ Return(t, "change", {path[t]})
        PROVE  Good(t)
    <3>1. v \in Stats
      BY VersionTypes
    <3>2. SrvInv' /\ CacheInv' /\ Spares(t)
      BY <1>0, <1>3, <2>2, <3>1, SrvKeeps, CacheSame
    <3>3. ThreadInv' /\ Shape(t)
      BY <1>0, <1>1, <2>2, <3>1, StatMove, ReturnKeeps
    <3> QED
      BY <3>2, <3>3 DEF Good, Base
  <2> QED
    BY <1>7, <2>1, <2>2 DEF ChangeServer
<1>8. CASE ChangeMatch(t)
  <2> DEFINE e == Match(path[t])
  <2>1. CacheInv' /\ Spares(t) /\ SrvInv' /\ ExpirePath
    BY <1>0, <1>8, ExpireKeeps, SrvKeeps DEF ChangeMatch
  <2>2. e \in Entries \cup {NoEntry} /\ e = Match(path[t])
    BY <1>0, MatchIn
  <2>3. \/ Return(t, "changeMatch", {})
        \/ /\ StepWith(t, "changeMatch", "changeUse", none, none) /\ SetPtr(t, e)
           /\ UNCHANGED <<path, dest, caller, stbuf, todo>>
    BY <1>8 DEF ChangeMatch, Step
  <2> HIDE DEF e, none
  <2>4. ThreadInv' /\ Shape(t)
    BY <1>0, <1>1, <1>3, <2>1, <2>2, <2>3, PtrMove, ReturnKeeps
  <2> QED
    BY <2>1, <2>4 DEF Good, Base
<1>9. CASE ChangeUse(t)
  <2>1. /\ UNCHANGED <<PathArray, NonExistPathArray>> /\ SrvInv' /\ TRUE \in BOOLEAN
        /\ \/ entry' = entry
           \/ Live(ptr[t]) /\ entry' = [entry EXCEPT ![ptr[t]].ver = stbuf[t][path[t]]]
    BY <1>0, <1>9, SrvKeeps DEF ChangeUse
  <2>2. CacheInv' /\ Spares(t)
    BY <1>0, <1>4, <2>1, UseKeeps
  <2>3. ThreadInv' /\ Shape(t)
    BY <1>0, <1>9, ReturnKeeps DEF ChangeUse
  <2> QED
    BY <2>1, <2>2, <2>3 DEF Good, Base
<1> QED
  BY <1>5, <1>6, <1>7, <1>8, <1>9

LEMMA CloseKeeps ==
  ASSUME Base, NEW t \in Threads,
         Open(t) \/ OpenRmNon(t) \/ Write(t) \/ CloseMatch(t) \/ ClosePut(t)
  PROVE  Good(t)
<1>0. SrvInv /\ ThreadInv /\ CacheInv /\ ThreadType
  BY DEF Base, ThreadInv
<1> DEFINE none == {}
           L == {"open", "openRmNon", "write", "closeMatch", "closePut"}
<1>1. /\ L \cup {"rm"} \subseteq PathPCs /\ L \cup {"rm"} \subseteq PCs \ {"idle"}
      /\ (L \cup {"rm"}) \cap DestPCs = {} /\ "closePut" \in PtrPCs
      /\ (L \ {"closePut"}) \cap PtrPCs = {}
  BY DEF PathPCs, PtrPCs, DestPCs, PCs
<1>2. pc[t] \in L
  BY DEF Open, OpenRmNon, Write, CloseMatch, ClosePut, Step, StepWith, Goto, At
<1>3. /\ path[t] \in Paths /\ path[t] \in PathsOf(t) /\ none \subseteq {t}
  BY <1>0, <1>1, <1>2, PathIn
<1>4. CASE Open(t)
  <2>1. CASE Refused(t, "open", server[path[t]] # 0)
    BY <2>1, LeaveKeeps DEF Refused
  <2>2. CASE Step(t, "open", "openRmNon") /\ UNCHANGED <<srvVars, cacheVars, locals>>
    <3>1. StepWith(t, "open", "openRmNon", none, none) /\ UNCHANGED locals
      BY <2>2 DEF Step
    <3> HIDE DEF none
    <3>2. ThreadInv' /\ Shape(t)
      BY <1>0, <1>1, <1>3, <3>1, PlainMove
    <3> QED
      BY <1>0, <2>2, <3>2, CacheSame, SrvKeeps DEF Good, Base
  <2> QED
    BY <1>4, <2>1, <2>2 DEF Open
<1>5. CASE OpenRmNon(t)
  <2>1. StepWith(t, "openRmNon", "write", none, none) /\ UNCHANGED locals
    BY <1>5 DEF OpenRmNon, Step
  <2> HIDE DEF none
  <2>2. ThreadInv' /\ Shape(t)
    BY <1>0, <1>1, <1>3, <2>1, PlainMove
  <2> QED
    BY <1>0, <1>5, <2>2, RemoveKeeps, SrvKeeps DEF OpenRmNon, Good, Base
<1>6. CASE Write(t)
  <2>1. CASE Return(t, "write", {}) /\ UNCHANGED <<srvVars, cacheVars>>
    BY <2>1, LeaveKeeps
  <2>2. ASSUME NEW v \in Versions, ServerSet(path[t], v), Step(t, "write", "rm"),
               UNCHANGED <<cacheVars, locals>>
        PROVE  Good(t)
    <3>1. v \in Stats /\ StepWith(t, "write", "rm", none, none) /\ UNCHANGED locals
      BY <2>2, VersionTypes DEF Step
    <3>2. SrvInv' /\ CacheInv' /\ Spares(t)
      BY <1>0, <1>3, <2>2, <3>1, SrvKeeps, CacheSame
    <3> HIDE DEF none
    <3>3. ThreadInv' /\ Shape(t)
      BY <1>0, <1>1, <1>3, <3>1, PlainMove
    <3> QED
      BY <3>2, <3>3 DEF Good, Base
  <2> QED
    BY <1>6, <2>1, <2>2 DEF Write
<1>7. CASE CloseMatch(t)
  <2> DEFINE e == Match(path[t])
  <2>1. CacheInv' /\ Spares(t) /\ ExpirePath
    BY <1>0, <1>7, ExpireKeeps DEF CloseMatch
  <2>2. SrvInv'
    BY <1>0, <1>7, SrvKeeps DEF CloseMatch
  <2>3. e \in Entries \cup {NoEntry} /\ e = Match(path[t])
    BY <1>0, MatchIn
  <2>4. \/ Return(t, "closeMatch", {})
        \/ StepWith(t, "closeMatch", "rm", none, none) /\ UNCHANGED locals
        \/ /\ StepWith(t, "closeMatch", "closePut", none, none) /\ SetPtr(t, e)
           /\ UNCHANGED <<path, dest, caller, stbuf, todo>>
    BY <1>7 DEF CloseMatch, Step
  <2> HIDE DEF e, none
  <2>5. ThreadInv' /\ Shape(t)
    BY <1>0, <1>1, <1>3, <2>1, <2>3, <2>4, PtrMove, PlainMove, ReturnKeeps
  <2> QED
    BY <2>1, <2>2, <2>5 DEF Good, Base
<1>8. CASE ClosePut(t)
  <2>1. \E S : Return(t, "closePut", S)
    BY <1>8 DEF ClosePut
  <2>2. ThreadInv' /\ Shape(t)
    BY <1>0, <2>1, ReturnKeeps
  <2>3. UNCHANGED <<PathArray, NonExistPathArray>> /\ creating' = creating \ {path[t]}
    BY <1>8 DEF ClosePut
  <2>4. CASE UNCHANGED <<server, entry>>
    <3>1. SrvInv'
      BY <1>0, <2>3, <2>4, SrvKeeps
    <3>2. CacheInv' /\ Spares(t)
      BY <1>0, <2>3, <2>4, StoreKeeps
    <3> QED
      BY <2>2, <3>1, <3>2 DEF Good, Base
  <2>5. ASSUME NEW v \in Versions, NEW l \in BOOLEAN, server' = [server EXCEPT ![path[t]] = v],
               \/ entry' = entry
               \/ Live(ptr[t]) /\ entry' = [entry EXCEPT ![ptr[t]].ver = v, ![ptr[t]].loc = l]
        PROVE  Good(t)
    <3>1. v \in Stats
      BY VersionTypes
    <3>2. SrvInv'
      BY <1>0, <1>3, <2>3, <2>5, <3>1 DEF SrvInv
    <3>3. CacheInv' /\ Spares(t)
      BY <1>0, <2>3, <2>5, <3>1, UseKeeps
    <3> QED
      BY <2>2, <3>2, <3>3 DEF Good, Base
  <2> QED
    BY <1>8, <2>4, <2>5 DEF ClosePut
<1> QED
  BY <1>4, <1>5, <1>6, <1>7, <1>8

\* Every step of a thread.
LEMMA ThreadGood ==
  ASSUME Base, NEW t \in Threads, ThreadStep(t)
  PROVE  Good(t)
<1>1. CASE CallStep(t)
  <2>1. ThreadInv' /\ Shape(t) /\ UNCHANGED srvVars /\ UNCHANGED cacheVars
    BY <1>1, CallKeeps DEF Base
  <2> QED
    BY <2>1, CacheSame, SrvKeeps DEF Base, Good
<1> QED
  BY <1>1, GetattrKeeps, ReaddirKeeps, MakeKeeps, MknodSetKeeps, RenameKeeps, ChangeKeeps,
     CloseKeeps
     DEF ThreadStep

-------------------------------------------------------------------------------
(***************************************************************************)
(* Handlers that meet, and the pointers of those that do not.              *)
(***************************************************************************)
LEMMA MetStep ==
  ASSUME MetInv, NEW t \in Threads, Shape(t)
  PROVE  MetInv'
<1>1. \A u \in Threads \ {t} : pc'[u] = pc[u] /\ PathsOf(u)' = PathsOf(u)
  BY DEF Shape, PathsOf
<1>2. suspect \ {t} \subseteq suspect'
  BY DEF Shape
<1>3. ASSUME NEW u \in Threads \ {t}, pc'[t] # "idle", pc'[u] # "idle",
             PathsOf(t)' \cap PathsOf(u)' # {}
      PROVE  {t, u} \subseteq suspect'
  <2>1. CASE pc[t] # "idle" /\ PathsOf(t)' \subseteq PathsOf(t) /\ suspect \subseteq suspect'
    BY <1>1, <1>3, <2>1 DEF MetInv
  <2>2. CASE suspect' = Meet(t, PathsOf(t)')
    <3> DEFINE met == UNION {ActiveOn(p) : p \in PathsOf(t)'}
    <3>1. u \in met
      BY <1>1, <1>3 DEF ActiveOn
    <3>2. suspect' = IF met = {} THEN suspect ELSE suspect \cup met \cup {t}
      BY <2>2 DEF Meet
    <3> HIDE DEF met
    <3> QED
      BY <3>1, <3>2
  <2> QED
    BY <1>3, <2>1, <2>2 DEF Shape
<1>4. ASSUME NEW a \in Threads \ {t}, NEW b \in Threads \ {t}, a # b,
             pc'[a] # "idle", pc'[b] # "idle", PathsOf(a)' \cap PathsOf(b)' # {}
      PROVE  {a, b} \subseteq suspect'
  BY <1>1, <1>2, <1>4 DEF MetInv
<1> SUFFICES ASSUME NEW a \in Threads, NEW b \in Threads, a # b,
                    pc'[a] # "idle", pc'[b] # "idle", PathsOf(a)' \cap PathsOf(b)' # {}
             PROVE  {a, b} \subseteq suspect'
  BY DEF MetInv
<1>5. CASE a = t
  BY <1>3, <1>5
<1>6. CASE b = t
  <2>1. PathsOf(t)' \cap PathsOf(a)' # {}
    BY <1>6
  <2> QED
    BY <1>3, <1>6, <2>1
<1> QED
  BY <1>4, <1>5, <1>6

LEMMA PtrStep ==
  ASSUME CacheInv, ThreadInv, MetInv, PtrInv, NEW t \in Threads, Spares(t), Shape(t)
  PROVE  PtrInv'
<1>0. CACHE_EXPIRE_TIME \in Nat /\ NoPath \notin Paths
  BY PathCacheAssumption DEF PathCacheAssumption
<1>1. ASSUME ptr'[t] # NoEntry
      PROVE  /\ ptr'[t] \in ToSet(PathArray') /\ entry'[ptr'[t]].path = path'[t]
             /\ entry'[ptr'[t]].age <= ptrAge'[t]
  <2> DEFINE q == chkCacheExpire(PathArray)
             e == Match(path[t])
  <2>0. CASE /\ path'[t] = path[t] /\ ptr'[t] \in ToSet(PathArray')
             /\ entry'[ptr'[t]].path = path[t] /\ entry'[ptr'[t]].age <= ptrAge'[t]
    BY <2>0
  <2> SUFFICES ASSUME /\ ExpirePath /\ path'[t] = path[t] /\ ptr'[t] = e
                      /\ ptrAge'[t] = entry[e].age
               PROVE  /\ ptr'[t] \in ToSet(PathArray') /\ entry'[ptr'[t]].path = path'[t]
                      /\ entry'[ptr'[t]].age <= ptrAge'[t]
    BY <1>1, <2>0 DEF Shape, PtrSet
  <2>1. /\ ExpirePath /\ path'[t] = path[t] /\ ptr'[t] = e
        /\ ptrAge'[t] = entry[e].age
    OBVIOUS
  <2>2. e \in ToSet(q) /\ entry[e].path = path[t] /\ e \in Entries
    BY <1>1, <2>1, MatchIn
  <2>3. SubQueue(q, PathArray) /\ SubQueue(NonExistPathArray, NonExistPathArray)
    BY ExpireSub, SubQueueSame DEF CacheInv
  <2>4. SetCache(q, NonExistPathArray, entry)
    BY <2>1 DEF ExpirePath
  <2> HIDE DEF q, e
  <2>5. PathArray' = q /\ entry'[e] = entry[e]
    BY <2>2, <2>3, <2>4, RemovalKeeps
  <2>6. entry[e].age \in Nat
    BY <1>0, <2>2 DEF CacheInv, EntryType, Ages
  <2> QED
    BY <2>1, <2>2, <2>5, <2>6
<1>2. ASSUME NEW u \in Threads \ {t}, ptr'[u] # NoEntry, u \notin suspect',
             ptrAge'[u] < CACHE_EXPIRE_TIME
      PROVE  /\ ptr'[u] \in ToSet(PathArray') /\ entry'[ptr'[u]].path = path'[u]
             /\ entry'[ptr'[u]].age <= ptrAge'[u]
  <2>1. /\ ptr'[u] = ptr[u] /\ path'[u] = path[u] /\ ptrAge'[u] = ptrAge[u]
        /\ u \notin suspect
    BY <1>2 DEF Shape
  <2> DEFINE e == ptr[u]
  <2>2. e \in ToSet(PathArray) /\ entry[e].path = path[u] /\ entry[e].age <= ptrAge[u]
    BY <1>2, <2>1 DEF PtrInv
  <2>3. e \in Entries /\ entry[e].age \in Nat /\ ptrAge[u] \in Nat
    <3>1. e \in Entries
      BY <1>2, <2>1 DEF ThreadInv, ThreadType
    <3> QED
      BY <1>0, <3>1 DEF CacheInv, EntryType, ThreadInv, ThreadType, Ages
  <2>4. ~Expired(e)
    BY <1>0, <1>2, <2>1, <2>2, <2>3 DEF Expired
  <2>5. pc[u] # "idle" /\ path[u] \in PathsOf(u)
    <3>1. pc[u] \in PtrPCs
      BY <1>2, <2>1 DEF ThreadInv, ControlInv
    <3>2. pc[u] # "idle" /\ pc[u] \in PathPCs
      BY <3>1 DEF PtrPCs, PathPCs, PCs
    <3> QED
      BY <3>2, PathIn
  <2>6. path[u] \notin PathsOf(t)
    <3> SUFFICES ASSUME path[u] \in PathsOf(t) PROVE FALSE
      OBVIOUS
    <3>1. pc[t] # "idle"
      BY DEF ThreadInv, ControlInv, PathsOf
    <3>2. u \in suspect
      BY <2>5, <3>1 DEF MetInv
    <3> QED
      BY <2>1, <3>2
  <2>7. /\ e \in ToSet(PathArray')
        /\ entry'[e].path = entry[e].path /\ entry'[e].age = entry[e].age
    BY <2>2, <2>4, <2>6 DEF Spares
  <2> QED
    BY <2>1, <2>2, <2>7
<1> QED
  BY <1>1, <1>2 DEF PtrInv

LEMMA TickStep ==
  ASSUME PathCacheInv, Tick
  PROVE  PathCacheInv'
<1>0. /\ CacheInv /\ SrvInv /\ ThreadType /\ ControlInv /\ HistInv /\ MetInv /\ PtrInv
      /\ CACHE_EXPIRE_TIME \in Nat
  BY PathCacheAssumption DEF PathCacheAssumption, PathCacheInv
<1>1. /\ UNCHANGED <<server, creating, PathArray, NonExistPathArray, pc, path, dest, ptr>>
      /\ UNCHANGED <<caller, stbuf, todo, suspect, ops>>
  BY DEF Tick, srvVars
<1>2. /\ \A n \in Ages : Older(n) \in Ages
      /\ \A m, n \in Ages : m <= n => Older(m) <= Older(n)
      /\ \A n \in Ages : Older(n) < CACHE_EXPIRE_TIME => n < CACHE_EXPIRE_TIME
  BY <1>0 DEF Older, Ages
<1>3. /\ entry' \in [Entries -> EntryType]
      /\ \A e \in Entries : /\ entry'[e].path = entry[e].path /\ entry[e].age \in Ages
                            /\ Live(e) => entry'[e].age = Older(entry[e].age)
  <2>1. ASSUME NEW e \in Entries
        PROVE  /\ entry'[e] \in EntryType
               /\ entry'[e].path = entry[e].path /\ entry[e].age \in Ages
               /\ Live(e) => entry'[e].age = Older(entry[e].age)
    <3>1. entry[e] \in EntryType
      BY <1>0 DEF CacheInv
    <3> DEFINE x == [entry[e] EXCEPT !.age = Older(@)]
    <3>2. x \in EntryType /\ x.path = entry[e].path /\ x.age = Older(entry[e].age)
      BY <1>2, <3>1 DEF EntryType
    <3>3. entry'[e] = IF Live(e) THEN x ELSE entry[e]
      BY DEF Tick
    <3>4. entry[e].age \in Ages
      BY <3>1 DEF EntryType
    <3> HIDE DEF x
    <3> QED
      BY <3>1, <3>2, <3>3, <3>4
  <2>2. entry' = [e \in Entries |-> entry'[e]]
    BY DEF Tick
  <2> QED
    BY <2>1, <2>2
<1>4. ASSUME NEW q \in {PathArray, NonExistPathArray} PROVE Ordered(q, entry')
  <2>1. q \in Seq(Entries) /\ Ordered(q, entry)
    BY <1>0 DEF CacheInv, Queue
  <2>2. \A i \in 1..Len(q) : q[i] \in Entries /\ Live(q[i])
    BY <2>1 DEF Live, Range
  <2> QED
    BY <1>2, <1>3, <2>1, <2>2 DEF Ordered
<1>5. CacheInv'
  <2>1. Ordered(PathArray, entry') /\ Ordered(NonExistPathArray, entry')
    BY <1>4
  <2> QED
    BY <1>0, <1>1, <1>3, <2>1 DEF CacheInv, Queue, Ordered
<1>6. /\ ptrAge' \in [Threads -> Ages]
      /\ \A t \in Threads : ptr[t] # NoEntry => ptrAge'[t] = Older(ptrAge[t])
  BY <1>0, <1>2, Records DEF Tick, ThreadType
<1>7. calm' \in [Paths -> Ages]
  BY <1>0, <1>2 DEF Tick, HistInv
<1>8. ThreadType' /\ HistInv' /\ SrvInv'
  BY <1>0, <1>1, <1>6, <1>7 DEF ThreadType, HistInv, SrvInv
<1>9. ControlInv' /\ MetInv'
  BY <1>0, <1>1 DEF ControlInv, MetInv, PathsOf
<1>10. PtrInv'
  <2> SUFFICES ASSUME NEW t \in Threads, ptr[t] # NoEntry, t \notin suspect,
                      ptrAge'[t] < CACHE_EXPIRE_TIME
               PROVE  /\ ptr[t] \in ToSet(PathArray)
                      /\ entry'[ptr[t]].path = path[t]
                      /\ entry'[ptr[t]].age <= ptrAge'[t]
    BY <1>1 DEF PtrInv
  <2>1. ptrAge[t] \in Ages /\ ptr[t] \in Entries
    BY <1>0 DEF ThreadType
  <2>2. ptrAge[t] < CACHE_EXPIRE_TIME /\ ptrAge'[t] = Older(ptrAge[t])
    BY <1>2, <1>6, <2>1
  <2>3. /\ ptr[t] \in ToSet(PathArray) /\ entry[ptr[t]].path = path[t]
        /\ entry[ptr[t]].age <= ptrAge[t]
    BY <1>0, <2>2 DEF PtrInv
  <2>4. Live(ptr[t])
    BY <2>3 DEF Live, Range, ToSet
  <2> QED
    BY <1>2, <1>3, <2>1, <2>2, <2>3, <2>4
<1> QED
  BY <1>5, <1>8, <1>9, <1>10 DEF PathCacheInv

LEMMA OtherClientStep ==
  ASSUME PathCacheInv, NEW p \in Paths, OtherClient(p)
  PROVE  PathCacheInv'
<1>0. CacheInv /\ SrvInv /\ ThreadType /\ ControlInv /\ HistInv /\ MetInv /\ PtrInv
  BY DEF PathCacheInv
<1>1. /\ UNCHANGED <<PathArray, NonExistPathArray, entry, pc, path, dest, ptr, ptrAge>>
      /\ UNCHANGED <<caller, stbuf, todo>>
  BY DEF OtherClient, cacheVars, locals, ptrVars
<1>2. SrvInv'
  BY <1>0, SrvKeeps DEF OtherClient, Stats
<1>3. suspect \subseteq suspect' /\ suspect' \subseteq Threads
  BY <1>0 DEF OtherClient, ActiveOn, HistInv
<1>4. HistInv'
  <2>1. calm' \in [Paths -> Ages]
    BY <1>0, Records DEF OtherClient, Doubt, HistInv
  <2>2. ops' \in 0..MaxOps
    BY <1>0, PathCacheAssumption DEF PathCacheAssumption, OtherClient, Count, HistInv
  <2> QED
    BY <1>3, <2>1, <2>2 DEF HistInv
<1>5. ThreadType' /\ ControlInv' /\ MetInv' /\ PtrInv'
  BY <1>0, <1>1, <1>3 DEF ThreadType, ControlInv, MetInv, PtrInv, PathsOf
<1>6. CacheInv'
  BY <1>0, <1>1 DEF CacheInv, Queue, Ordered
<1> QED
  BY <1>2, <1>4, <1>5, <1>6 DEF PathCacheInv

LEMMA PathCacheInit ==
  ASSUME Init
  PROVE  PathCacheInv
<1>1. CacheInv
  <2>1. Queue(<<>>) /\ Ordered(<<>>, entry) /\ ToSet(<<>>) = {}
    BY EmptyElements DEF Queue, Ordered
  <2>2. entry \in [Entries -> EntryType]
    BY Records DEF Init
  <2> QED
    BY <2>1, <2>2 DEF Init, CacheInv
<1>2. SrvInv
  BY DEF Init, SrvInv, Stats
<1>3. ThreadType /\ ControlInv
  BY NoStatType, Records DEF Init, ThreadType, ControlInv, PCs, PathPCs, DestPCs
<1>4. HistInv /\ MetInv /\ PtrInv
  BY Records, PathCacheAssumption
     DEF Init, HistInv, MetInv, PtrInv, PathCacheAssumption, Ages
<1> QED
  BY <1>1, <1>2, <1>3, <1>4 DEF PathCacheInv

LEMMA PathCacheStep ==
  ASSUME PathCacheInv, [Next]_vars
  PROVE  PathCacheInv'
<1>1. CASE UNCHANGED vars
  <2>1. /\ UNCHANGED <<server, creating, PathArray, NonExistPathArray, entry, pc, path, dest>>
        /\ UNCHANGED <<ptr, ptrAge, caller, stbuf, todo, suspect, calm, ops>>
    BY <1>1 DEF vars, srvVars, cacheVars, locals, ptrVars
  <2>2. CacheInv' /\ SrvInv'
    BY <2>1 DEF PathCacheInv, CacheInv, SrvInv, Queue, Ordered
  <2>3. ThreadType' /\ HistInv' /\ ControlInv' /\ MetInv' /\ PtrInv'
    BY <2>1 DEF PathCacheInv, ThreadType, HistInv, ControlInv, MetInv, PtrInv, PathsOf
  <2> QED
    BY <2>2, <2>3 DEF PathCacheInv
<1>2. CASE Tick
  BY <1>2, TickStep
<1>3. ASSUME NEW p \in Paths, OtherClient(p) PROVE PathCacheInv'
  BY <1>3, OtherClientStep
<1>4. ASSUME NEW t \in Threads, ThreadStep(t) PROVE PathCacheInv'
  <2>1. Base /\ MetInv /\ PtrInv
    BY DEF PathCacheInv, Base, ThreadInv
  <2>2. Base' /\ Spares(t) /\ Shape(t)
    BY <1>4, <2>1, ThreadGood DEF Good
  <2>3. MetInv'
    BY <2>1, <2>2, MetStep
  <2>4. PtrInv'
    BY <2>1, <2>2, PtrStep DEF Base
  <2> QED
    BY <2>2, <2>3, <2>4 DEF PathCacheInv, Base, ThreadInv
<1> QED
  BY <1>1, <1>2, <1>3, <1>4 DEF Next

LEMMA PathCacheAlways == Spec => []PathCacheInv
<1>1. Init => PathCacheInv
  BY PathCacheInit
<1>2. PathCacheInv /\ [Next]_vars => PathCacheInv'
  BY PathCacheStep
<1> QED
  BY <1>1, <1>2, PTL DEF Spec

-------------------------------------------------------------------------------
(***************************************************************************)
(* What lookups are told.  An entry is fresh if it is younger than the last*)
(* event after which the cache of its path may be wrong.  A fresh entry is *)
(* right, unless the one handler at work on the path knows better: the     *)
(* invariant has what the path is claimed to be while no handler is on it, *)
(* and for each place of a handler what is off and what it knows.          *)
(***************************************************************************)
\* What either queue has about p, and of that what was entered after the last event
\* that may have left the cache of p wrong.
PathEntries(p) == {e \in ToSet(PathArray) : entry[e].path = p}
NonEntries(p)  == {e \in ToSet(NonExistPathArray) : entry[e].path = p}
FreshPath(p)   == {e \in PathEntries(p) : entry[e].age < calm[p]}
FreshNon(p)    == {e \in NonEntries(p) : entry[e].age < calm[p]}

\* A fresh entry is the only one of its path, ...
Sole(p) ==
  /\ \A e \in FreshPath(p) : PathEntries(p) \subseteq {e}
  /\ \A e \in FreshNon(p) : NonEntries(p) \subseteq {e}

\* ... it has what the server has, or stands for a file that is being made, ...
Right(p) ==
  \A e \in FreshPath(p) : entry[e].ver = server[p] \/ (entry[e].loc /\ p \in creating)

\* ... and a path known not to exist does not, and is not in the other queue.
Absent(p) == FreshNon(p) # {} => server[p] = 0 /\ PathEntries(p) = {}

\* Between its request to the server and the end of what it does to a queue, a handler
\* leaves what that queue has about its path out of date.
PathOff(t, p) ==
  \/ /\ p = path[t]
     /\ pc[t] \in {"mkdirAdd", "rm", "renameRmTo", "renameMatch", "renameAdd",
                   "renameRmFrom", "changeMatch", "changeUse", "mknodSet"}
  \/ p = dest[t] /\ pc[t] \in {"renameAgain", "renameRmTo"}

NonOff(t, p) ==
  \/ p = path[t] /\ (pc[t] = "mkdirAdd" \/ (pc[t] = "rmNon" /\ dest[t] = NoPath))
  \/ p = dest[t] /\ pc[t] \in {"renameRmTo", "renameMatch", "renameAdd", "renameRmFrom",
                               "rmNon"}

Claims(t) ==
  \A p \in PathsOf(t) : /\ Sole(p)
                        /\ PathOff(t, p) \/ Right(p)
                        /\ NonOff(t, p) \/ Absent(p)

\* What a handler that met no other knows at each place, p being its path and d the
\* destination of a rename.
Local(t, p, d) ==
  /\ pc[t] \in {"match", "use", "stat", "add"} => NonEntries(p) = {}
  /\ pc[t] \in {"stat", "add", "readdirAdd"} => PathEntries(p) = {}
  /\ pc[t] \in {"add", "readdirAdd", "mkdirAdd", "changeMatch", "changeUse"} =>
       stbuf[t][p] = server[p]
  /\ pc[t] = "readdirAdd" => server[p] # 0
  /\ pc[t] \in {"mknodAdd", "closePut", "renameRmTo", "renameMatch", "renameAdd"} =>
       FreshNon(p) = {}
  /\ pc[t] \in {"mknodAdd", "mknodSet"} => p \in creating
  /\ pc[t] \in {"changeUse", "closePut", "mknodSet"} => FreshPath(p) \subseteq {ptr[t]}
  /\ pc[t] \in {"rename", "renameUnlink", "renameAgain"} => p \notin creating
  /\ pc[t] = "renameAgain" => server[d] = 0 \/ Right(d)
  /\ pc[t] \in {"renameRmTo", "renameMatch", "renameAdd"} =>
       \A e \in FreshPath(p) : entry[e].ver = server[d]

Listed(t) == \A p \in todo[t] : stbuf[t][p] = server[p] /\ server[p] # 0

Knows(t) ==
  \A p \in Paths, d \in Paths \cup {NoPath} : p = path[t] /\ d = dest[t] => Local(t, p, d)

Own(t) == Claims(t) /\ Knows(t) /\ Listed(t)

Idle(p) == Sole(p) /\ Right(p) /\ Absent(p)

\* Which of its variables a handler has set.
Form(t) ==
  /\ pc[t] \notin DestPCs \cup {"rmNon"} => dest[t] = NoPath
  /\ pc[t] \notin {"readdir", "readdirAdd"} => todo[t] = {}
  /\ pc[t] = "readdir" => path[t] = NoPath
  /\ dest[t] # NoPath => dest[t] # path[t]
  /\ path[t] \notin todo[t]

StaleInv ==
  /\ \A p \in Paths : ActiveOn(p) = {} => Idle(p)
  /\ \A t \in Threads \ suspect : Own(t)
  /\ \A t \in Threads : Form(t)

-------------------------------------------------------------------------------
(***************************************************************************)
(* What each operation on the queues does to what is fresh.                *)
(***************************************************************************)
\* No more is known about p than before, and what is fresh is what it was.
Shrinks(p) ==
  /\ PathEntries(p)' \subseteq PathEntries(p) /\ NonEntries(p)' \subseteq NonEntries(p)
  /\ FreshPath(p)' \subseteq FreshPath(p) /\ FreshNon(p)' \subseteq FreshNon(p)

Thins(p) ==
  /\ Shrinks(p)
  /\ \A e \in FreshPath(p)' : entry'[e].ver = entry[e].ver /\ entry'[e].loc = entry[e].loc

Keeps(p) == Thins(p) /\ server'[p] = server[p] /\ (p \in creating' <=> p \in creating)

Calmer == \A p \in Paths : calm'[p] = 0 \/ calm'[p] = calm[p]

\* Nothing is fresh about a path that has just been doubted.
LEMMA NothingFresh ==
  ASSUME CacheInv', NEW p, calm'[p] = 0
  PROVE  FreshPath(p)' = {} /\ FreshNon(p)' = {}
<1>1. \A e \in Entries : entry'[e].age \in Nat
  BY Records DEF CacheInv, EntryType, Ages
<1>2. ToSet(PathArray)' \subseteq Entries /\ ToSet(NonExistPathArray)' \subseteq Entries
  BY ElementsIn DEF CacheInv, Queue
<1> QED
  BY <1>1, <1>2 DEF FreshPath, FreshNon, PathEntries, NonEntries

LEMMA DoubtCalms ==
  ASSUME HistInv, NEW t, NEW S, Doubted(t, S)
  PROVE  /\ Calmer
         /\ \A p \in Paths : p \in S \/ (t \in suspect /\ p \in PathsOf(t)) => calm'[p] = 0
BY DEF Doubted, Doubt, Calmer

\* Entries are removed, or stay what they were.
LEMMA FewerThins ==
  ASSUME CacheInv, CacheInv', HistInv, Calmer, NEW p \in Paths,
         PathEntries(p)' \subseteq PathEntries(p), NonEntries(p)' \subseteq NonEntries(p),
         \A e \in PathEntries(p)' \cup NonEntries(p)' : entry'[e].age = entry[e].age
  PROVE  /\ Shrinks(p)
         /\ (\A e \in PathEntries(p)' : entry'[e] = entry[e]) => Thins(p)
<1>1. CASE calm'[p] = 0
  BY <1>1, NothingFresh DEF Shrinks, Thins
<1>2. CASE calm'[p] = calm[p]
  <2>1. FreshPath(p)' \subseteq FreshPath(p)
    <3> SUFFICES ASSUME NEW e \in FreshPath(p)' PROVE e \in FreshPath(p)
      OBVIOUS
    <3>1. e \in PathEntries(p)' /\ entry'[e].age < calm'[p]
      BY DEF FreshPath
    <3> QED
      BY <1>2, <3>1 DEF FreshPath
  <2>2. FreshNon(p)' \subseteq FreshNon(p)
    <3> SUFFICES ASSUME NEW e \in FreshNon(p)' PROVE e \in FreshNon(p)
      OBVIOUS
    <3>1. e \in NonEntries(p)' /\ entry'[e].age < calm'[p]
      BY DEF FreshNon
    <3> QED
      BY <1>2, <3>1 DEF FreshNon
  <2>3. FreshPath(p)' \subseteq PathEntries(p)'
    BY DEF FreshPath
  <2> QED
    BY <2>1, <2>2, <2>3 DEF Shrinks, Thins
<1> QED
  BY <1>1, <1>2 DEF Calmer

LEMMA RemovalThins ==
  ASSUME CacheInv, HistInv, Calmer, NEW q, NEW r, SubQueue(q, PathArray),
         SubQueue(r, NonExistPathArray), SetCache(q, r, entry), NEW p \in Paths
  PROVE  /\ Thins(p)
         /\ PathEntries(p)' = {e \in ToSet(q) : entry[e].path = p}
         /\ NonEntries(p)' = {e \in ToSet(r) : entry[e].path = p}
<1>1. /\ CacheInv' /\ PathArray' = q /\ ToSet(q) \subseteq ToSet(PathArray)
      /\ NonExistPathArray' = r /\ ToSet(r) \subseteq ToSet(NonExistPathArray)
      /\ \A e \in ToSet(q) \cup ToSet(r) : entry'[e] = entry[e]
  BY RemovalKeeps
<1>2. /\ PathEntries(p)' = {e \in ToSet(q) : entry[e].path = p}
      /\ NonEntries(p)' = {e \in ToSet(r) : entry[e].path = p}
  BY <1>1 DEF PathEntries, NonEntries
<1>3. /\ PathEntries(p)' \subseteq PathEntries(p) /\ NonEntries(p)' \subseteq NonEntries(p)
      /\ \A e \in PathEntries(p)' \cup NonEntries(p)' : entry'[e] = entry[e]
  BY <1>1, <1>2 DEF PathEntries, NonEntries
<1>4. Thins(p)
  BY <1>1, <1>3, FewerThins
<1> QED
  BY <1>2, <1>4

LEMMA SameThins ==
  ASSUME CacheInv, HistInv, Calmer, UNCHANGED cacheVars, NEW p \in Paths
  PROVE  Thins(p)
<1>1. PathArray' = PathArray /\ NonExistPathArray' = NonExistPathArray /\ entry' = entry
  BY DEF cacheVars
<1>2. CacheInv'
  BY CacheSame
<1>3. /\ PathEntries(p)' = PathEntries(p) /\ NonEntries(p)' = NonEntries(p)
      /\ \A e \in PathEntries(p)' \cup NonEntries(p)' : entry'[e] = entry[e]
  BY <1>1 DEF PathEntries, NonEntries
<1> QED
  BY <1>2, <1>3, FewerThins

\* matchPathInPathCache, searching PathArray.
LEMMA ExpireThins ==
  ASSUME CacheInv, HistInv, Calmer, ExpirePath, NEW p \in Paths
  PROVE  Thins(p) /\ (Match(p) = NoEntry => PathEntries(p)' = {})
<1> DEFINE q == chkCacheExpire(PathArray)
<1>1. SubQueue(q, PathArray) /\ SubQueue(NonExistPathArray, NonExistPathArray)
  BY ExpireSub, SubQueueSame DEF CacheInv
<1>2. SetCache(q, NonExistPathArray, entry)
  BY DEF ExpirePath
<1>3. Match(p) = IF Has(q, p) THEN First(q, p) ELSE NoEntry
  BY DEF Match
<1>4. Queue(q)
  BY <1>1, SubQueueKeeps DEF CacheInv
<1> HIDE DEF q
<1>5. Thins(p) /\ PathEntries(p)' = {e \in ToSet(q) : entry[e].path = p}
  BY <1>1, <1>2, RemovalThins
<1>6. ASSUME Match(p) = NoEntry PROVE PathEntries(p)' = {}
  <2>1. ~Has(q, p)
    <3> SUFFICES ASSUME Has(q, p) PROVE FALSE
      OBVIOUS
    <3>1. PICK k \in 1..Len(q) : First(q, p) = q[k]
      BY <1>4, FirstOf
    <3>2. q[k] \in Entries
      BY <1>4 DEF Queue
    <3> QED
      BY <1>3, <1>6, <3>1, <3>2, PathCacheAssumption DEF PathCacheAssumption
  <2>2. ASSUME NEW e \in ToSet(q) PROVE entry[e].path # p
    <3>1. PICK i \in 1..Len(q) : e = q[i]
      BY <1>4 DEF Queue, ToSet
    <3> QED
      BY <2>1, <3>1 DEF Has
  <2> QED
    BY <1>5, <2>2
<1> QED
  BY <1>5, <1>6

LEMMA ExpireNonThins ==
  ASSUME CacheInv, HistInv, Calmer, ExpireNonExist, NEW p \in Paths
  PROVE  Thins(p) /\ (~Has(chkCacheExpire(NonExistPathArray), p) => NonEntries(p)' = {})
<1> DEFINE r == chkCacheExpire(NonExistPathArray)
<1>1. SubQueue(PathArray, PathArray) /\ SubQueue(r, NonExistPathArray)
  BY ExpireSub, SubQueueSame DEF CacheInv
<1>2. SetCache(PathArray, r, entry)
  BY DEF ExpireNonExist
<1>4. Queue(r)
  BY <1>1, SubQueueKeeps DEF CacheInv
<1>5. Thins(p) /\ NonEntries(p)' = {e \in ToSet(r) : entry[e].path = p}
  <2> HIDE DEF r
  <2> QED
    BY <1>1, <1>2, RemovalThins
<1>6. ASSUME ~Has(r, p) PROVE NonEntries(p)' = {}
  <2> HIDE DEF r
  <2>2. ASSUME NEW e \in ToSet(r) PROVE entry[e].path # p
    <3>1. PICK i \in 1..Len(r) : e = r[i]
      BY <1>4 DEF Queue, ToSet
    <3> QED
      BY <1>6, <3>1 DEF Has
  <2> QED
    BY <1>5, <2>2
<1> QED
  BY <1>5, <1>6

\* What the match returns is the fresh entry, if there is one.
LEMMA MatchIsFresh ==
  ASSUME CacheInv, NEW p, Sole(p), Match(p) # NoEntry
  PROVE  Match(p) \in PathEntries(p) /\ FreshPath(p) \subseteq {Match(p)}
<1>1. Match(p) \in ToSet(chkCacheExpire(PathArray)) /\ entry[Match(p)].path = p
  BY MatchIn
<1>2. ToSet(chkCacheExpire(PathArray)) \subseteq ToSet(PathArray)
  BY ExpireSub, SubQueueKeeps DEF CacheInv
<1>3. Match(p) \in PathEntries(p)
  BY <1>1, <1>2 DEF PathEntries
<1> QED
  BY <1>3 DEF Sole

\* _rmPathFromCache removes an entry of the path if there is one.
LEMMA RemoveGone ==
  ASSUME NEW q, Queue(q), NEW p, Has(q, p)
  PROVE  \E e \in ToSet(q) : entry[e].path = p /\ e \notin ToSet(rmPathFromCache(q, p))
<1> DEFINE r == rmPathFromCache(q, p)
<1>0. q \in Seq(Entries) /\ Len(q) \in Nat /\ DOMAIN q = 1..Len(q)
  BY DEF Queue
<1>1. PICK k \in 1..Len(q) : entry[q[k]].path = p /\ r = RemoveAt(q, k)
  BY FirstOf
<1> HIDE DEF r
<1>2. /\ r \in Seq(Entries) /\ Len(r) = Len(q) - 1 /\ DOMAIN r = 1..Len(q) - 1
      /\ \A i \in 1..Len(q) - 1 : r[i] = IF i < k THEN q[i] ELSE q[i + 1]
  BY <1>0, <1>1, RemoveAtElements
<1>3. ASSUME NEW i \in DOMAIN r PROVE r[i] # q[k]
  <2>1. PICK j \in 1..Len(q) : r[i] = q[j] /\ j # k
    <3>1. CASE i < k
      BY <1>0, <1>2, <3>1
    <3>2. CASE ~(i < k)
      <4>1. i + 1 \in 1..Len(q) /\ i + 1 # k /\ r[i] = q[i + 1]
        BY <1>0, <1>2, <3>2
      <4> QED
        BY <4>1
    <3> QED
      BY <3>1, <3>2
  <2> QED
    BY <1>0, <2>1 DEF Queue, IsInjective
<1>4. q[k] \in ToSet(q) /\ q[k] \notin ToSet(r)
  BY <1>0, <1>3 DEF ToSet
<1> QED
  BY <1>1, <1>4 DEF r

LEMMA RmPathThins ==
  ASSUME CacheInv, HistInv, Calmer, NEW x, RmPath(x), NEW p \in Paths
  PROVE  /\ Thins(p)
         /\ p = x /\ Sole(p) => FreshPath(p)' = {}
         /\ p = x /\ ~Has(rmPathFromCache(PathArray, p), p) => PathEntries(p)' = {}
<1> DEFINE q == rmPathFromCache(PathArray, x)
<1>1. SubQueue(q, PathArray) /\ SubQueue(NonExistPathArray, NonExistPathArray)
  BY RemoveSub, SubQueueSame DEF CacheInv
<1>2. SetCache(q, NonExistPathArray, entry)
  BY DEF RmPath
<1>3. Queue(q) /\ Queue(PathArray)
  BY <1>1, SubQueueKeeps DEF CacheInv
<1>4. Thins(p) /\ PathEntries(p)' = {e \in ToSet(q) : entry[e].path = p}
  <2> HIDE DEF q
  <2> QED
    BY <1>1, <1>2, RemovalThins
<1>5. ASSUME p = x, Sole(p) PROVE FreshPath(p)' = {}
  <2> SUFFICES ASSUME NEW f \in FreshPath(p)' PROVE FALSE
    OBVIOUS
  <2>1. f \in FreshPath(p) /\ f \in ToSet(q)
    BY <1>4 DEF Thins, Shrinks, FreshPath
  <2>2. PathEntries(p) \subseteq {f} /\ f \in PathEntries(p)
    BY <1>5, <2>1 DEF Sole, FreshPath
  <2>3. Has(PathArray, p)
    <3>1. f \in ToSet(PathArray) /\ entry[f].path = p
      BY <2>2 DEF PathEntries
    <3>2. PICK i \in 1..Len(PathArray) : f = PathArray[i]
      BY <1>3, <3>1 DEF Queue, ToSet
    <3> QED
      BY <3>1, <3>2 DEF Has
  <2>4. PICK e \in ToSet(PathArray) : entry[e].path = p /\ e \notin ToSet(q)
    BY <1>3, <1>5, <2>3, RemoveGone
  <2>5. e \in PathEntries(p)
    BY <2>4 DEF PathEntries
  <2> QED
    BY <2>1, <2>2, <2>4, <2>5
<1>6. ASSUME p = x, ~Has(q, p) PROVE PathEntries(p)' = {}
  <2> HIDE DEF q
  <2>2. ASSUME NEW e \in ToSet(q) PROVE entry[e].path # p
    <3>1. PICK i \in 1..Len(q) : e = q[i]
      BY <1>3 DEF Queue, ToSet
    <3> QED
      BY <1>6, <3>1 DEF Has
  <2> QED
    BY <1>4, <2>2
<1> QED
  BY <1>4, <1>5, <1>6

LEMMA RmNonThins ==
  ASSUME CacheInv, HistInv, Calmer, NEW x, RmNonExist(x), NEW p \in Paths
  PROVE  Thins(p) /\ (p = x /\ Sole(p) => FreshNon(p)' = {})
<1> DEFINE r == rmPathFromCache(NonExistPathArray, x)
<1>1. SubQueue(r, NonExistPathArray) /\ SubQueue(PathArray, PathArray)
  BY RemoveSub, SubQueueSame DEF CacheInv
<1>2. SetCache(PathArray, r, entry)
  BY DEF RmNonExist
<1>3. Queue(NonExistPathArray)
  BY DEF CacheInv
<1>4. Thins(p) /\ NonEntries(p)' = {e \in ToSet(r) : entry[e].path = p}
  <2> HIDE DEF r
  <2> QED
    BY <1>1, <1>2, RemovalThins
<1>5. ASSUME p = x, Sole(p) PROVE FreshNon(p)' = {}
  <2> SUFFICES ASSUME NEW f \in FreshNon(p)' PROVE FALSE
    OBVIOUS
  <2>1. f \in FreshNon(p) /\ f \in ToSet(r)
    BY <1>4 DEF Thins, Shrinks, FreshNon
  <2>2. NonEntries(p) \subseteq {f} /\ f \in NonEntries(p)
    BY <1>5, <2>1 DEF Sole, FreshNon
  <2>3. Has(NonExistPathArray, p)
    <3>1. f \in ToSet(NonExistPathArray) /\ entry[f].path = p
      BY <2>2 DEF NonEntries
    <3>2. PICK i \in 1..Len(NonExistPathArray) : f = NonExistPathArray[i]
      BY <1>3, <3>1 DEF Queue, ToSet
    <3> QED
      BY <3>1, <3>2 DEF Has
  <2>4. PICK e \in ToSet(NonExistPathArray) : entry[e].path = p /\ e \notin ToSet(r)
    BY <1>3, <1>5, <2>3, RemoveGone
  <2>5. e \in NonEntries(p)
    BY <2>4 DEF NonEntries
  <2> QED
    BY <2>1, <2>2, <2>4, <2>5
<1> QED
  BY <1>4, <1>5

\* addPathToCache: one entry more, and of that path only.
LEMMA AddPathGives ==
  ASSUME CacheInv, HistInv, Calmer, NEW x \in Paths, NEW v \in Stats, NEW l \in BOOLEAN,
         AddPath(x, v, l), NEW p \in Paths
  PROVE  /\ p # x => Thins(p)
         /\ NonEntries(p)' \subseteq NonEntries(p) /\ FreshNon(p)' \subseteq FreshNon(p)
         /\ p = x /\ PathEntries(p) = {} =>
              \E e : PathEntries(p)' = {e} /\ entry'[e].ver = v /\ entry'[e].loc = l
<1>0. /\ Queue(PathArray) /\ Queue(NonExistPathArray) /\ entry \in [Entries -> EntryType]
      /\ ToSet(PathArray) \cap ToSet(NonExistPathArray) = {}
      /\ ToSet(PathArray) \subseteq Entries /\ ToSet(NonExistPathArray) \subseteq Entries
  BY ElementsIn DEF CacheInv, Queue
<1>1. PICK e \in Entries :
             /\ ~Live(e)
             /\ SetCache(Append(PathArray, e), NonExistPathArray,
                         [entry EXCEPT ![e] = NewEntry(x, v, l)])
  BY DEF AddPath, AddEntry, queueBottom
<1>2. e \notin ToSet(PathArray) /\ e \notin ToSet(NonExistPathArray)
  BY <1>1 DEF Live, Range, ToSet
<1>3. CacheInv'
  <2>1. x \in Paths \cup {NoPath}
    OBVIOUS
  <2> QED
    BY <2>1, AddKeeps
<1>4. ToSet(Append(PathArray, e)) = ToSet(PathArray) \cup {e}
  BY <1>0, AppendElements DEF Queue
<1>5. /\ ToSet(PathArray)' = ToSet(PathArray) \cup {e}
      /\ ToSet(NonExistPathArray)' = ToSet(NonExistPathArray)
  BY <1>1, <1>4 DEF SetCache
<1>6. /\ \A u \in ToSet(PathArray) \cup ToSet(NonExistPathArray) : entry'[u] = entry[u]
      /\ entry'[e] = NewEntry(x, v, l)
  <2>1. /\ Range(Append(PathArray, e)) = ToSet(PathArray) \cup {e}
        /\ Range(NonExistPathArray) = ToSet(NonExistPathArray)
    BY <1>4 DEF Range, ToSet
  <2> QED
    BY <1>0, <1>1, <1>2, <2>1 DEF SetCache
<1>7. entry'[e].path = x /\ entry'[e].ver = v /\ entry'[e].loc = l
  BY <1>6 DEF NewEntry
<1>8. /\ p # x => PathEntries(p)' = PathEntries(p)
      /\ p = x => PathEntries(p)' = PathEntries(p) \cup {e}
      /\ NonEntries(p)' = NonEntries(p)
      /\ \A u \in PathEntries(p) \cup NonEntries(p) : entry'[u] = entry[u]
  BY <1>2, <1>5, <1>6, <1>7 DEF PathEntries, NonEntries
<1>9. p # x => Thins(p)
  BY <1>3, <1>8, FewerThins
<1>10. FreshNon(p)' \subseteq FreshNon(p)
  <2>1. CASE calm'[p] = 0
    BY <1>3, <2>1, NothingFresh
  <2>2. CASE calm'[p] = calm[p]
    BY <1>8, <2>2 DEF FreshNon
  <2> QED
    BY <2>1, <2>2 DEF Calmer
<1> QED
  BY <1>7, <1>8, <1>9, <1>10

LEMMA AddNonGives ==
  ASSUME CacheInv, HistInv, Calmer, NEW x \in Paths, AddNonExist(x), NEW p \in Paths
  PROVE  /\ p # x => Thins(p)
         /\ PathEntries(p)' \subseteq PathEntries(p)
         /\ p = x /\ NonEntries(p) = {} => \E e : NonEntries(p)' = {e}
<1>0. /\ Queue(PathArray) /\ Queue(NonExistPathArray) /\ entry \in [Entries -> EntryType]
      /\ ToSet(PathArray) \cap ToSet(NonExistPathArray) = {}
      /\ ToSet(PathArray) \subseteq Entries /\ ToSet(NonExistPathArray) \subseteq Entries
  BY ElementsIn DEF CacheInv, Queue
<1>1. PICK e \in Entries :
             /\ ~Live(e)
             /\ SetCache(PathArray, Append(NonExistPathArray, e),
                         [entry EXCEPT ![e] = NewEntry(x, 0, FALSE)])
  BY DEF AddNonExist, queueBottom
<1>2. e \notin ToSet(PathArray) /\ e \notin ToSet(NonExistPathArray)
  BY <1>1 DEF Live, Range, ToSet
<1>3. CacheInv'
  <2>1. x \in Paths \cup {NoPath} /\ 0 \in Stats /\ FALSE \in BOOLEAN
    BY NoStatType
  <2> QED
    BY <2>1, AddKeeps
<1>4. ToSet(Append(NonExistPathArray, e)) = ToSet(NonExistPathArray) \cup {e}
  BY <1>0, AppendElements DEF Queue
<1>5. /\ ToSet(NonExistPathArray)' = ToSet(NonExistPathArray) \cup {e}
      /\ ToSet(PathArray)' = ToSet(PathArray)
  BY <1>1, <1>4 DEF SetCache
<1>6. /\ \A u \in ToSet(PathArray) \cup ToSet(NonExistPathArray) : entry'[u] = entry[u]
      /\ entry'[e] = NewEntry(x, 0, FALSE)
  <2>1. /\ Range(Append(NonExistPathArray, e)) = ToSet(NonExistPathArray) \cup {e}
        /\ Range(PathArray) = ToSet(PathArray)
    BY <1>4 DEF Range, ToSet
  <2> QED
    BY <1>0, <1>1, <1>2, <2>1 DEF SetCache
<1>7. entry'[e].path = x
  BY <1>6 DEF NewEntry
<1>8. /\ p # x => NonEntries(p)' = NonEntries(p)
      /\ p = x => NonEntries(p)' = NonEntries(p) \cup {e}
      /\ PathEntries(p)' = PathEntries(p)
      /\ \A u \in PathEntries(p) \cup NonEntries(p) : entry'[u] = entry[u]
  BY <1>2, <1>5, <1>6, <1>7 DEF PathEntries, NonEntries
<1>9. p # x => Thins(p)
  BY <1>3, <1>8, FewerThins
<1> QED
  BY <1>8, <1>9

\* A store through a pointer.
LEMMA StoreGives ==
  ASSUME CacheInv, HistInv, Calmer, UNCHANGED <<PathArray, NonExistPathArray>>,
         NEW x, Live(x), NEW v \in Stats, NEW l \in BOOLEAN,
         \/ entry' = [entry EXCEPT ![x].ver = v]
         \/ entry' = [entry EXCEPT ![x].ver = v, ![x].loc = l],
         NEW p \in Paths
  PROVE  /\ Shrinks(p) /\ entry'[x].ver = v
         /\ entry[x].path # p \/ calm'[p] = 0 => Thins(p)
<1>1. CacheInv' /\ x \in Entries /\ entry \in [Entries -> EntryType]
  <2>1. CacheInv'
    BY UseKeeps
  <2> QED
    BY <2>1 DEF CacheInv, Queue, Live, Range
<1>2. entry[x] \in EntryType
  BY <1>1
<1>3. /\ \A u \in Entries \ {x} : entry'[u] = entry[u]
      /\ entry'[x].path = entry[x].path /\ entry'[x].age = entry[x].age /\ entry'[x].ver = v
  BY <1>1, <1>2 DEF EntryType
<1>4. ToSet(PathArray) \subseteq Entries /\ ToSet(NonExistPathArray) \subseteq Entries
  BY ElementsIn DEF CacheInv, Queue
<1>5. /\ PathEntries(p)' = PathEntries(p) /\ NonEntries(p)' = NonEntries(p)
      /\ PathEntries(p) \cup NonEntries(p) \subseteq Entries
      /\ entry[x].path # p => x \notin PathEntries(p)
  BY <1>3, <1>4 DEF PathEntries, NonEntries
<1>6. \A e \in PathEntries(p)' \cup NonEntries(p)' : entry'[e].age = entry[e].age
  BY <1>3, <1>5
<1>7. Shrinks(p) /\ ((\A e \in PathEntries(p)' : entry'[e] = entry[e]) => Thins(p))
  BY <1>1, <1>5, <1>6, FewerThins
<1>8. CASE entry[x].path # p
  BY <1>3, <1>5, <1>7, <1>8
<1>9. CASE calm'[p] = 0
  BY <1>1, <1>3, <1>7, <1>9, NothingFresh DEF Thins
<1> QED
  BY <1>3, <1>7, <1>8, <1>9

-------------------------------------------------------------------------------
(***************************************************************************)
(* What is claimed about a path outlives whatever removes entries.         *)
(***************************************************************************)
LEMMA ShrunkSole ==
  ASSUME NEW p, Shrinks(p), Sole(p)
  PROVE  Sole(p)'
BY DEF Shrinks, Sole

LEMMA KeptClaims ==
  ASSUME NEW p, Keeps(p)
  PROVE  (Sole(p) => Sole(p)') /\ (Right(p) => Right(p)') /\ (Absent(p) => Absent(p)')
BY ShrunkSole DEF Keeps, Thins, Shrinks, Right, Absent

LEMMA DoubtedIdle ==
  ASSUME CacheInv', NEW p, calm'[p] = 0
  PROVE  Idle(p)'
BY NothingFresh DEF Idle, Sole, Right, Absent

\* What a step of t leaves to the others, and to itself.
Foreign(t) == \A p \in Paths \ PathsOf(t) : Keeps(p)

Post(t) ==
  \/ t \in suspect' /\ pc'[t] # "idle" /\ PathsOf(t)' = PathsOf(t)
  \/ /\ Knows(t)' /\ Listed(t)'
     /\ \A p \in PathsOf(t) : /\ Sole(p)'
                              /\ PathOff(t, p)' \/ Right(p)'
                              /\ NonOff(t, p)' \/ Absent(p)'

Frame(t) ==
  /\ Form(t)' /\ \A u \in Threads \ {t} : stbuf'[u] = stbuf[u]
  /\ pc[t] # "idle"
  /\ t \in suspect => \A p \in PathsOf(t) \cap Paths : calm'[p] = 0

Held(t) == Frame(t) /\ Foreign(t) /\ (t \notin suspect => Post(t))

LEMMA PathsOfTypes ==
  ASSUME ThreadInv, NEW t \in Threads
  PROVE  PathsOf(t) \subseteq Paths
BY DEF ThreadInv, ThreadType, PathsOf

Same(u) ==
  /\ pc'[u] = pc[u] /\ path'[u] = path[u] /\ dest'[u] = dest[u] /\ todo'[u] = todo[u]
  /\ ptr'[u] = ptr[u] /\ stbuf'[u] = stbuf[u]

LEMMA StillOwn ==
  ASSUME ThreadInv, NEW u \in Threads, Own(u), Same(u), \A p \in PathsOf(u) : Keeps(p)
  PROVE  Own(u)'
<1>1. /\ pc'[u] = pc[u] /\ path'[u] = path[u] /\ dest'[u] = dest[u] /\ todo'[u] = todo[u]
      /\ ptr'[u] = ptr[u] /\ stbuf'[u] = stbuf[u]
  BY DEF Same
<1>2. PathsOf(u)' = PathsOf(u)
  BY <1>1 DEF PathsOf
<1>3. \A p : (PathOff(u, p)' <=> PathOff(u, p)) /\ (NonOff(u, p)' <=> NonOff(u, p))
  BY <1>1 DEF PathOff, NonOff
<1>4. Claims(u)'
  BY <1>2, <1>3, KeptClaims DEF Own, Claims
<1>5. Listed(u)'
  <2>1. \A p \in todo[u] : Keeps(p)
    BY DEF PathsOf
  <2> QED
    BY <1>1, <2>1 DEF Own, Listed, Keeps
<1>6. Knows(u)'
  <2> SUFFICES ASSUME NEW p \in Paths, NEW d \in Paths \cup {NoPath},
                      p = path[u], d = dest[u]
               PROVE  Local(u, p, d)'
    BY <1>1 DEF Knows
  <2>1. Local(u, p, d)
    BY DEF Own, Knows
  <2>2. p \in PathsOf(u)
    BY PathCacheAssumption DEF PathCacheAssumption, PathsOf
  <2>3. Keeps(p)
    BY <2>2
  <2>4. pc[u] \in DestPCs => Keeps(d)
    BY DestIn
  <2>5. /\ pc[u] \in {"renameRmTo", "renameMatch", "renameAdd"} => server'[d] = server[d]
        /\ pc[u] = "renameAgain" => server'[d] = server[d] /\ (Right(d) => Right(d)')
    BY <2>4, KeptClaims DEF Keeps, DestPCs
  <2>6. /\ PathEntries(p)' \subseteq PathEntries(p) /\ NonEntries(p)' \subseteq NonEntries(p)
        /\ FreshPath(p)' \subseteq FreshPath(p) /\ FreshNon(p)' \subseteq FreshNon(p)
        /\ \A e \in FreshPath(p)' : entry'[e].ver = entry[e].ver
        /\ server'[p] = server[p] /\ (p \in creating' <=> p \in creating)
    BY <2>3 DEF Keeps, Thins, Shrinks
  <2> QED
    BY <1>1, <2>1, <2>5, <2>6 DEF Local
<1> QED
  BY <1>4, <1>5, <1>6 DEF Own

LEMMA OthersOwn ==
  ASSUME ThreadInv, NEW t \in Threads, NEW u \in Threads \ {t}, Own(u), Shape(t),
         stbuf'[u] = stbuf[u], \A p \in PathsOf(u) : Keeps(p)
  PROVE  Own(u)'
<1>1. Same(u)
  BY DEF Shape, Same
<1> QED
  BY <1>1, StillOwn

LEMMA StaleStep ==
  ASSUME PathCacheInv, PathCacheInv', StaleInv, NEW t \in Threads, Shape(t), Held(t)
  PROVE  StaleInv'
<1>0. ThreadInv /\ CacheInv' /\ MetInv
  BY DEF PathCacheInv, ThreadInv
<1>1. ASSUME NEW u \in Threads \ {t} PROVE pc'[u] = pc[u] /\ PathsOf(u)' = PathsOf(u)
  BY DEF Shape, PathsOf
<1>2. suspect \ {t} \subseteq suspect' /\ (pc'[t] # "idle" => t \notin suspect \/ t \in suspect')
  BY DEF Shape, Held, Frame
<1>3. ASSUME NEW p \in Paths, ActiveOn(p)' = {} PROVE Idle(p)'
  <2>1. CASE p \notin PathsOf(t)
    <3>1. Keeps(p)
      BY <2>1 DEF Held, Foreign
    <3>2. ActiveOn(p) = {}
      BY <1>1, <1>3, <2>1 DEF ActiveOn
    <3>3. Idle(p)
      BY <3>2 DEF StaleInv
    <3> QED
      BY <3>1, <3>3, KeptClaims DEF Idle
  <2>2. CASE p \in PathsOf(t) /\ t \in suspect
    BY <1>0, <2>2, DoubtedIdle DEF Held, Frame
  <2>3. CASE p \in PathsOf(t) /\ t \notin suspect
    <3>1. ~(pc'[t] # "idle" /\ p \in PathsOf(t)')
      BY <1>3 DEF ActiveOn
    <3>2. /\ Sole(p)'
          /\ PathOff(t, p)' \/ Right(p)'
          /\ NonOff(t, p)' \/ Absent(p)'
      BY <2>3, <3>1 DEF Held, Post
    <3>3. ~PathOff(t, p)' /\ ~NonOff(t, p)'
      <4>1. CASE pc'[t] = "idle"
        BY <4>1 DEF PathOff, NonOff
      <4>2. CASE p \notin PathsOf(t)'
        <5>1. p # NoPath
          BY PathCacheAssumption DEF PathCacheAssumption
        <5>2. p # path'[t] /\ p # dest'[t]
          BY <4>2, <5>1 DEF PathsOf
        <5> QED
          BY <5>2 DEF PathOff, NonOff
      <4> QED
        BY <3>1, <4>1, <4>2
    <3> QED
      BY <3>2, <3>3 DEF Idle
  <2> QED
    BY <2>1, <2>2, <2>3
<1>4. ASSUME NEW u \in Threads \ {t}, u \notin suspect' PROVE Own(u)'
  <2>1. u \notin suspect /\ Own(u)
    BY <1>2, <1>4 DEF StaleInv
  <2>2. ASSUME NEW p \in PathsOf(u) PROVE p \in Paths \ PathsOf(t)
    <3>1. pc[u] # "idle"
      BY <1>0 DEF ThreadInv, ControlInv, PathsOf
    <3>2. pc[t] # "idle"
      BY DEF Held, Frame
    <3>3. p \notin PathsOf(t)
      BY <1>0, <2>1, <3>1, <3>2 DEF MetInv
    <3> QED
      BY <1>0, <3>3, PathsOfTypes
  <2> QED
    BY <1>0, <2>1, <2>2, OthersOwn DEF Held, Frame, Foreign
<1>5. ASSUME t \notin suspect' PROVE Own(t)'
  <2>1. CASE pc'[t] = "idle"
    <3>1. path'[t] = NoPath /\ dest'[t] = NoPath /\ todo'[t] = {}
      BY <2>1 DEF PathCacheInv, ControlInv
    <3>2. PathsOf(t)' = {}
      BY <3>1 DEF PathsOf
    <3>3. Knows(t)'
      BY <3>1, PathCacheAssumption DEF PathCacheAssumption, Knows
    <3> QED
      BY <3>1, <3>2, <3>3 DEF Own, Claims, Listed
  <2>2. CASE pc'[t] # "idle"
    <3>1. t \notin suspect /\ PathsOf(t)' \subseteq PathsOf(t)
      BY <1>2, <1>5, <2>2 DEF Shape, Held, Frame
    <3>2. Post(t)
      BY <3>1 DEF Held
    <3> QED
      BY <1>5, <3>1, <3>2 DEF Post, Own, Claims
  <2> QED
    BY <2>1, <2>2
<1>6. ASSUME NEW u \in Threads PROVE Form(u)'
  <2>1. CASE u = t
    BY <2>1 DEF Held, Frame
  <2>2. CASE u # t
    BY <2>2 DEF Shape, Form, StaleInv
  <2> QED
    BY <2>1, <2>2
<1> QED
  BY <1>3, <1>4, <1>5, <1>6 DEF StaleInv

\* A handler is called: it meets no other, or becomes suspect.
Begins(t) ==
  /\ Form(t)' /\ \A u \in Threads \ {t} : stbuf'[u] = stbuf[u]
  /\ Knows(t)' /\ Listed(t)' /\ pc'[t] # "idle"

LEMMA CallBegins ==
  ASSUME ThreadInv, NEW t \in Threads, CallStep(t)
  PROVE  Begins(t)
<1>0. ThreadType /\ ControlInv
  BY DEF ThreadInv
<1>1. pc[t] = "idle"
  BY DEF CallStep, Getattr, Handler, Close, Call, Readdir, Goto, At
<1>2. path[t] = NoPath /\ dest[t] = NoPath /\ todo[t] = {} /\ NoPath \notin Paths
  BY <1>0, <1>1, PathCacheAssumption DEF PathCacheAssumption, ControlInv
<1>3. ASSUME NEW l \in {"matchNon", "unlink", "change", "truncMatch", "mkdir", "closeMatch"},
             NEW p \in Paths, Call(t, l, p, NoPath)
      PROVE  Begins(t)
  <2>1. pc'[t] = l /\ path'[t] = p /\ dest'[t] = NoPath /\ todo' = todo /\ stbuf' = stbuf
    BY <1>0, <1>3 DEF ThreadType, Call, Goto
  <2>2. Form(t)'
    BY <1>2, <2>1 DEF Form
  <2>3. Knows(t)'
    BY <2>1 DEF Knows, Local
  <2>4. Listed(t)'
    BY <1>2, <2>1 DEF Listed
  <2> QED
    BY <2>1, <2>2, <2>3, <2>4 DEF Begins
<1>4. ASSUME NEW p \in Paths, NEW q \in Paths \ {p}, p \notin creating, Call(t, "rename", p, q)
      PROVE  Begins(t)
  <2>1. /\ pc'[t] = "rename" /\ path'[t] = p /\ dest'[t] = q /\ todo' = todo /\ stbuf' = stbuf
        /\ creating' = creating
    BY <1>0, <1>4 DEF ThreadType, Call, Goto, srvVars
  <2>2. Form(t)'
    BY <1>2, <2>1 DEF Form, DestPCs
  <2>3. Knows(t)'
    BY <1>4, <2>1 DEF Knows, Local
  <2>4. Listed(t)'
    BY <1>2, <2>1 DEF Listed
  <2> QED
    BY <2>1, <2>2, <2>3, <2>4 DEF Begins
<1>5. CASE Readdir(t)
  <2>1. /\ pc'[t] = "readdir" /\ path'[t] = NoPath /\ dest'[t] = NoPath
        /\ todo'[t] = {p \in Paths : server[p] # 0} /\ stbuf'[t] = server /\ server' = server
        /\ \A u \in Threads \ {t} : stbuf'[u] = stbuf[u]
    BY <1>0, <1>2, <1>5 DEF ThreadType, Readdir, Goto, srvVars
  <2>2. Form(t)'
    BY <1>2, <2>1 DEF Form
  <2>3. Knows(t)'
    BY <1>2, <2>1 DEF Knows
  <2>4. Listed(t)'
    BY <2>1 DEF Listed
  <2> QED
    BY <2>1, <2>2, <2>3, <2>4 DEF Begins
<1> QED
  BY <1>3, <1>4, <1>5 DEF CallStep, Getattr, Handler, Close

LEMMA StaleCall ==
  ASSUME PathCacheInv, PathCacheInv', StaleInv, NEW t \in Threads, CallStep(t)
  PROVE  StaleInv'
<1>0. ThreadInv /\ SrvInv /\ CacheInv /\ HistInv
  BY DEF PathCacheInv, ThreadInv
<1>1. Shape(t) /\ UNCHANGED srvVars /\ UNCHANGED cacheVars
  BY <1>0, CallKeeps
<1>2. pc[t] = "idle" /\ calm' = calm
  BY DEF CallStep, Getattr, Handler, Close, Call, Readdir, Goto, At
<1>3. Begins(t)
  BY <1>0, CallBegins
<1>4. ASSUME NEW p \in Paths PROVE Keeps(p)
  <2>1. Calmer
    BY <1>2 DEF Calmer
  <2> QED
    BY <1>0, <1>1, <2>1, SameThins DEF Keeps, srvVars
<1>5. ASSUME NEW p \in Paths, ActiveOn(p) = {} PROVE Idle(p)'
  BY <1>4, <1>5, KeptClaims DEF StaleInv, Idle
<1>6. ASSUME NEW p \in Paths, ActiveOn(p)' = {} PROVE ActiveOn(p) = {}
  <2>1. \A u \in Threads \ {t} : pc'[u] = pc[u] /\ PathsOf(u)' = PathsOf(u)
    BY <1>1 DEF Shape, PathsOf
  <2> QED
    BY <1>2, <1>6, <2>1 DEF ActiveOn
<1>7. ASSUME NEW u \in Threads \ {t}, u \notin suspect' PROVE Own(u)'
  <2>1. Own(u)
    BY <1>1, <1>7 DEF Shape, StaleInv
  <2>2. \A p \in PathsOf(u) : Keeps(p)
    BY <1>0, <1>4, PathsOfTypes
  <2> QED
    BY <1>0, <1>1, <1>3, <2>1, <2>2, OthersOwn DEF Begins
<1>8. ASSUME t \notin suspect' PROVE Own(t)'
  <2>1. suspect' = Meet(t, PathsOf(t)')
    BY <1>1, <1>2, <1>3 DEF Shape, Begins
  <2> DEFINE met == UNION {ActiveOn(p) : p \in PathsOf(t)'}
  <2>2. suspect' = IF met = {} THEN suspect ELSE suspect \cup met \cup {t}
    BY <2>1 DEF Meet
  <2>3. met = {}
    <3> HIDE DEF met
    <3> QED
      BY <1>8, <2>2
  <2>4. ASSUME NEW p \in PathsOf(t)' PROVE p \in Paths /\ Idle(p)'
    <3>1. p \in Paths
      BY DEF PathCacheInv, ThreadType, PathsOf
    <3>2. ActiveOn(p) = {}
      BY <2>3
    <3> QED
      BY <1>5, <3>1, <3>2
  <2>5. Claims(t)'
    BY <2>4 DEF Claims, Idle
  <2> QED
    BY <1>3, <2>5 DEF Own, Begins
<1>9. ASSUME NEW u \in Threads PROVE Form(u)'
  <2>1. CASE u = t
    BY <1>3, <2>1 DEF Begins
  <2>2. CASE u # t
    BY <1>1, <2>2 DEF Shape, Form, StaleInv
  <2> QED
    BY <2>1, <2>2
<1> QED
  BY <1>5, <1>6, <1>7, <1>8, <1>9 DEF StaleInv

-------------------------------------------------------------------------------
(***************************************************************************)
(* Returning and going on.                                                 *)
(***************************************************************************)
LEMMA ReturnFrame ==
  ASSUME ThreadInv, NEW t \in Threads, NEW from, from # "idle", NEW S, Return(t, from, S)
  PROVE  /\ Frame(t) /\ Calmer /\ \A p \in S \cap Paths : calm'[p] = 0
         /\ (\A p \in PathsOf(t) : Idle(p)') => Post(t)
<1>0. ThreadType /\ HistInv
  BY DEF ThreadInv
<1>1. /\ pc[t] = from /\ pc'[t] = "idle" /\ path'[t] = NoPath /\ dest'[t] = NoPath
      /\ todo'[t] = {} /\ \A u \in Threads \ {t} : stbuf'[u] = stbuf[u]
  BY <1>0 DEF ThreadType, Return, Goto, At
<1>2. Calmer /\ \A p \in Paths : p \in S \/ (t \in suspect /\ p \in PathsOf(t)) => calm'[p] = 0
  BY <1>0, DoubtCalms DEF Return
<1>3. Form(t)'
  BY <1>1 DEF Form
<1>4. Frame(t)
  BY <1>1, <1>2, <1>3 DEF Frame
<1>5. Knows(t)' /\ Listed(t)'
  BY <1>1, PathCacheAssumption DEF PathCacheAssumption, Knows, Listed
<1> QED
  BY <1>2, <1>4, <1>5 DEF Post, Idle

\* The places between which a handler goes with its paths unchanged.
Within(from, to) ==
  /\ from \notin {"idle", "readdir", "readdirAdd"} /\ to \notin {"readdir", "readdirAdd"}
  /\ from \in DestPCs \cup {"rmNon"} => to \in DestPCs \cup {"rmNon"}

LEMMA MoveFrame ==
  ASSUME ThreadInv, NEW t \in Threads, Form(t), NEW from, NEW to, Within(from, to),
         NEW S, NEW M, StepWith(t, from, to, S, M), UNCHANGED <<path, dest, todo>>,
         \A u \in Threads \ {t} : stbuf'[u] = stbuf[u]
  PROVE  /\ Frame(t) /\ Calmer /\ \A p \in S \cap Paths : calm'[p] = 0
         /\ pc'[t] = to /\ todo'[t] = {} /\ PathsOf(t)' = PathsOf(t)
         /\ suspect' = suspect \cup M
<1>0. ThreadType /\ HistInv
  BY DEF ThreadInv
<1>1. pc[t] = from /\ pc'[t] = to
  BY <1>0 DEF ThreadType, StepWith, Goto, At
<1>2. Calmer /\ \A p \in Paths : p \in S \/ (t \in suspect /\ p \in PathsOf(t)) => calm'[p] = 0
  BY <1>0, DoubtCalms DEF StepWith
<1>3. Form(t)' /\ todo'[t] = {}
  BY <1>1 DEF Form, Within
<1> QED
  BY <1>1, <1>2, <1>3 DEF Frame, PathsOf, Within, StepWith

\* A handler with one path.
LEMMA OnePath ==
  ASSUME ThreadInv, NEW t \in Threads, Form(t), pc[t] \in PathPCs,
         pc[t] \notin DestPCs \cup {"rmNon", "readdirAdd"}
  PROVE  /\ PathsOf(t) = {path[t]} /\ path[t] \in Paths
         /\ dest[t] = NoPath /\ todo[t] = {}
<1>1. path[t] \in Paths /\ path[t] # NoPath
  BY PathIn, PathCacheAssumption DEF PathCacheAssumption
<1>2. dest[t] = NoPath /\ todo[t] = {}
  BY DEF Form, PathPCs
<1> QED
  BY <1>1, <1>2 DEF PathsOf

LEMMA OnePost ==
  ASSUME NEW t \in Threads, NEW p \in Paths, PathsOf(t) = {p}, path'[t] = p,
         dest'[t] = NoPath, todo'[t] = {}, Sole(p)', PathOff(t, p)' \/ Right(p)',
         NonOff(t, p)' \/ Absent(p)', Local(t, p, NoPath)'
  PROVE  Post(t)
<1>1. Knows(t)'
  <2> SUFFICES ASSUME NEW x \in Paths, NEW d \in Paths \cup {NoPath},
                      x = path'[t], d = dest'[t]
               PROVE  Local(t, x, d)'
    BY DEF Knows
  <2> QED
    OBVIOUS
<1> QED
  BY <1>1 DEF Post, Listed

\* The claims a handler with one path starts a step from.
LEMMA OneOwn ==
  ASSUME NEW t \in Threads, Own(t), NEW p \in Paths, PathsOf(t) = {p}, p = path[t],
         dest[t] = NoPath
  PROVE  /\ Sole(p) /\ (PathOff(t, p) \/ Right(p)) /\ (NonOff(t, p) \/ Absent(p))
         /\ Local(t, p, NoPath)
BY DEF Own, Claims, Knows

-------------------------------------------------------------------------------
(***************************************************************************)
(* _irodsGetattr.                                                          *)
(***************************************************************************)
\* What a step starts from, and what is shown of it.
Ready(t) == Base /\ CacheInv' /\ Form(t) /\ (t \notin suspect => Own(t))

OnePCs == PathPCs \ (DestPCs \cup {"rmNon", "readdirAdd"})
OffPCs == {"mkdirAdd", "rm", "changeMatch", "changeUse", "mknodSet"}

Starts(t, p) ==
  /\ p = path[t] /\ PathsOf(t) = {p} /\ dest[t] = NoPath /\ todo[t] = {}
  /\ t \notin suspect => /\ Sole(p) /\ Local(t, p, NoPath)
                         /\ pc[t] \in OffPCs \/ Right(p)
                         /\ pc[t] = "mkdirAdd" \/ Absent(p)

LEMMA OneStart ==
  ASSUME NEW t \in Threads, Ready(t), pc[t] \in OnePCs
  PROVE  \E p \in Paths : Starts(t, p)
<1>1. /\ PathsOf(t) = {path[t]} /\ path[t] \in Paths
      /\ dest[t] = NoPath /\ todo[t] = {}
  BY OnePath DEF Ready, Base, OnePCs
<1>2. PICK p \in Paths : p = path[t]
  BY <1>1
<1>3. ASSUME t \notin suspect
      PROVE  /\ Sole(p) /\ Local(t, p, NoPath)
             /\ pc[t] \in OffPCs \/ Right(p)
             /\ pc[t] = "mkdirAdd" \/ Absent(p)
  <2>1. /\ Sole(p) /\ (PathOff(t, p) \/ Right(p)) /\ (NonOff(t, p) \/ Absent(p))
        /\ Local(t, p, NoPath)
    BY <1>1, <1>2, <1>3, OneOwn DEF Ready
  <2>2. (PathOff(t, p) => pc[t] \in OffPCs) /\ (NonOff(t, p) => pc[t] = "mkdirAdd")
    BY DEF PathOff, NonOff, OnePCs, DestPCs, OffPCs
  <2> QED
    BY <2>1, <2>2
<1> QED
  BY <1>1, <1>2, <1>3 DEF Starts

LEMMA OneMove ==
  ASSUME NEW t \in Threads, Ready(t), NEW p \in Paths, Starts(t, p), NEW from, NEW to,
         Within(from, to), NEW S, NEW M, StepWith(t, from, to, S, M),
         UNCHANGED <<path, dest, todo>>, \A u \in Threads \ {t} : stbuf'[u] = stbuf[u]
  PROVE  /\ Frame(t) /\ Calmer /\ \A x \in S \cap Paths : calm'[x] = 0
         /\ pc[t] = from /\ pc'[t] = to /\ suspect' = suspect \cup M
         /\ PathsOf(t)' = PathsOf(t)
         /\ /\ Sole(p)' /\ Local(t, p, NoPath)'
            /\ to \in OffPCs \/ Right(p)'
            /\ to \in {"mkdirAdd", "rmNon"} \/ Absent(p)'
            => Post(t)
<1>1. /\ Frame(t) /\ Calmer /\ \A x \in S \cap Paths : calm'[x] = 0
      /\ pc'[t] = to /\ todo'[t] = {} /\ suspect' = suspect \cup M
      /\ PathsOf(t)' = PathsOf(t)
  BY MoveFrame DEF Ready, Base
<1>2. path'[t] = p /\ dest'[t] = NoPath /\ PathsOf(t) = {p}
  BY DEF Starts
<1>3. (to \in OffPCs => PathOff(t, p)') /\ (to \in {"mkdirAdd", "rmNon"} => NonOff(t, p)')
  BY <1>1, <1>2 DEF PathOff, NonOff, OffPCs
<1>4. pc[t] = from
  BY DEF StepWith, Goto, At
<1>5. ASSUME /\ Sole(p)' /\ Local(t, p, NoPath)'
             /\ to \in OffPCs \/ Right(p)'
             /\ to \in {"mkdirAdd", "rmNon"} \/ Absent(p)'
      PROVE  Post(t)
  BY <1>1, <1>2, <1>3, <1>5, OnePost
<1> QED
  BY <1>1, <1>4, <1>5

LEMMA OneReturn ==
  ASSUME NEW t \in Threads, Ready(t), NEW p \in Paths, Starts(t, p), NEW from,
         from # "idle", NEW S, Return(t, from, S)
  PROVE  /\ Frame(t) /\ Calmer /\ \A x \in S \cap Paths : calm'[x] = 0
         /\ Idle(p)' => Post(t)
<1>1. /\ Frame(t) /\ Calmer /\ \A x \in S \cap Paths : calm'[x] = 0
      /\ (\A x \in PathsOf(t) : Idle(x)') => Post(t)
  BY ReturnFrame DEF Ready, Base
<1> QED
  BY <1>1 DEF Starts

\* Places about which nothing is known: nothing else is needed to go there.
PlainPCs == {"matchNon", "truncMatch", "truncUse", "change", "mknodRm", "open",
             "openRmNon", "write", "unlink", "mkdir", "closeMatch"}

LEMMA PlainLocal ==
  ASSUME NEW t, NEW p, pc'[t] \in PlainPCs \cup {"rm", "rmNon", "renameRmFrom"}
  PROVE  Local(t, p, NoPath)'
BY DEF Local, PlainPCs

LEMMA KeptIdle ==
  ASSUME NEW p, Keeps(p), Idle(p)
  PROVE  Idle(p)'
BY KeptClaims DEF Idle

\* _irodsGetattr ends: it returns, or goes on as irodsMknod or irodsOpen.
LEMMA GoesHeld ==
  ASSUME NEW t \in Threads, Ready(t), NEW p \in Paths, Starts(t, p),
         NEW from, from \in OnePCs, NEW to, to \in PlainPCs, Goes(t, from, to)
  PROVE  Frame(t) /\ Calmer /\ (Idle(p)' => Post(t))
<1> DEFINE none == {}
<1>1. /\ StepWith(t, from, to, none, none) /\ UNCHANGED <<path, dest, todo>>
      /\ \A u \in Threads \ {t} : stbuf'[u] = stbuf[u]
  BY DEF Goes, Step, Ready, Base, ThreadInv, ThreadType
<1>2. Within(from, to)
  BY DEF Within, OnePCs, PlainPCs, PathPCs
<1> HIDE DEF none
<1>3. /\ Frame(t) /\ Calmer /\ pc'[t] = to
      /\ /\ Sole(p)' /\ Local(t, p, NoPath)'
         /\ to \in OffPCs \/ Right(p)'
         /\ to \in {"mkdirAdd", "rmNon"} \/ Absent(p)'
         => Post(t)
  BY <1>1, <1>2, OneMove
<1>4. Local(t, p, NoPath)'
  BY <1>3, PlainLocal
<1> QED
  BY <1>3, <1>4 DEF Idle

LEMMA FoundHeld ==
  ASSUME NEW t \in Threads, Ready(t), NEW p \in Paths, Starts(t, p),
         NEW from, from \in OnePCs, Found(t, from) \/ NotFound(t, from)
  PROVE  Frame(t) /\ Calmer /\ (Idle(p)' => Post(t))
<1>1. from # "idle" /\ "mknodRm" \in PlainPCs /\ "open" \in PlainPCs
  BY DEF OnePCs, PathPCs, PlainPCs
<1>2. \/ \E S : Return(t, from, S)
      \/ \E to \in PlainPCs : Goes(t, from, to)
  BY <1>1 DEF Found, NotFound
<1> QED
  BY <1>1, <1>2, GoesHeld, OneReturn

\* Nothing but removal, and nothing on the server.
LEMMA AllKept ==
  ASSUME NEW t, Frame(t), \A p \in Paths : Thins(p), UNCHANGED srvVars
  PROVE  Foreign(t) /\ \A p \in Paths : Keeps(p)
BY DEF Foreign, Keeps, srvVars

LEMMA MatchNonHeld ==
  ASSUME NEW t \in Threads, Ready(t), MatchNonExist(t)
  PROVE  Held(t)
<1>0. /\ pc[t] = "matchNon" /\ pc[t] \in OnePCs /\ CacheInv /\ HistInv /\ ExpireNonExist
      /\ UNCHANGED srvVars
  BY DEF MatchNonExist, At, Ready, Base, ThreadInv, OnePCs, PathPCs, PCs, DestPCs
<1>1. PICK p \in Paths : Starts(t, p)
  BY <1>0, OneStart
<1>2. t \notin suspect => Idle(p)
  BY <1>0, <1>1 DEF Starts, Idle, OffPCs
<1>3. CASE NotFound(t, "matchNon")
  <2>1. Frame(t) /\ Calmer /\ (Idle(p)' => Post(t))
    BY <1>0, <1>1, <1>3, FoundHeld
  <2>2. Foreign(t) /\ \A x \in Paths : Keeps(x)
    BY <1>0, <2>1, ExpireNonThins, AllKept
  <2> QED
    BY <1>2, <2>1, <2>2, KeptIdle DEF Held
<1>4. CASE /\ ~Has(chkCacheExpire(NonExistPathArray), path[t])
           /\ Step(t, "matchNon", "match") /\ UNCHANGED locals
  <2> DEFINE none == {}
  <2>1. /\ StepWith(t, "matchNon", "match", none, none) /\ UNCHANGED <<path, dest, todo>>
        /\ \A u \in Threads \ {t} : stbuf'[u] = stbuf[u]
    BY <1>4 DEF Step, locals
  <2>2. Within("matchNon", "match")
    BY DEF Within, DestPCs
  <2> HIDE DEF none
  <2>3. /\ Frame(t) /\ Calmer /\ pc'[t] = "match"
        /\ /\ Sole(p)' /\ Local(t, p, NoPath)'
           /\ "match" \in OffPCs \/ Right(p)'
           /\ "match" \in {"mkdirAdd", "rmNon"} \/ Absent(p)'
           => Post(t)
    BY <1>1, <2>1, <2>2, OneMove
  <2>4. Foreign(t) /\ \A x \in Paths : Keeps(x)
    BY <1>0, <2>3, ExpireNonThins, AllKept
  <2>5. NonEntries(p)' = {}
    BY <1>0, <1>1, <1>4, <2>3, ExpireNonThins DEF Starts
  <2>6. Local(t, p, NoPath)'
    BY <2>3, <2>5 DEF Local
  <2> QED
    BY <1>2, <2>3, <2>4, <2>6, KeptIdle DEF Held, Idle
<1> QED
  BY <1>3, <1>4 DEF MatchNonExist

LEMMA MatchHeld ==
  ASSUME NEW t \in Threads, Ready(t), MatchPath(t)
  PROVE  Held(t)
<1>0. /\ pc[t] = "match" /\ pc[t] \in OnePCs /\ CacheInv /\ HistInv /\ ExpirePath
      /\ UNCHANGED srvVars
  BY DEF MatchPath, At, Ready, Base, ThreadInv, OnePCs, PathPCs, PCs, DestPCs
<1>1. PICK p \in Paths : Starts(t, p)
  BY <1>0, OneStart
<1>2. t \notin suspect => Idle(p) /\ NonEntries(p) = {}
  BY <1>0, <1>1 DEF Starts, Idle, OffPCs, Local
<1> DEFINE none == {}
           to == IF Match(p) = NoEntry THEN "stat" ELSE "use"
<1>3. /\ StepWith(t, "match", to, none, none) /\ UNCHANGED <<path, dest, todo>>
      /\ \A u \in Threads \ {t} : stbuf'[u] = stbuf[u]
  BY <1>1 DEF MatchPath, Step, Starts
<1>4. Within("match", to) /\ to \notin OffPCs /\ to \notin {"mkdirAdd", "rmNon"}
  BY DEF Within, DestPCs, OffPCs
<1>5. to \in {"stat", "use"} /\ (to = "stat" => Match(p) = NoEntry)
  OBVIOUS
<1> HIDE DEF none, to
<1>6. /\ Frame(t) /\ Calmer /\ pc'[t] = to
      /\ /\ Sole(p)' /\ Local(t, p, NoPath)'
         /\ to \in OffPCs \/ Right(p)'
         /\ to \in {"mkdirAdd", "rmNon"} \/ Absent(p)'
         => Post(t)
  BY <1>1, <1>3, <1>4, OneMove
<1>7. Foreign(t) /\ \A x \in Paths : Keeps(x)
  BY <1>0, <1>6, ExpireThins, AllKept
<1>8. to = "stat" => PathEntries(p)' = {}
  BY <1>0, <1>5, <1>6, ExpireThins
<1>9. ASSUME t \notin suspect PROVE Post(t)
  <2>1. NonEntries(p)' = {}
    BY <1>2, <1>7, <1>9 DEF Keeps, Thins, Shrinks
  <2>2. Local(t, p, NoPath)'
    BY <1>5, <1>6, <1>8, <2>1 DEF Local
  <2> QED
    BY <1>2, <1>6, <1>7, <1>9, <2>2, KeptIdle DEF Idle
<1> QED
  BY <1>6, <1>7, <1>9 DEF Held

LEMMA UseHeld ==
  ASSUME NEW t \in Threads, Ready(t), UseEntry(t)
  PROVE  Held(t)
<1>0. /\ pc[t] = "use" /\ "use" \in OnePCs /\ CacheInv /\ HistInv /\ UNCHANGED cacheVars
      /\ UNCHANGED srvVars
  BY DEF UseEntry, Found, Goes, Return, Step, StepWith, Goto, At, Ready, Base, ThreadInv,
         OnePCs, PathPCs, PCs, DestPCs
<1>1. PICK p \in Paths : Starts(t, p)
  BY <1>0, OneStart
<1>2. t \notin suspect => Idle(p)
  BY <1>0, <1>1 DEF Starts, Idle, OffPCs
<1>3. Frame(t) /\ Calmer /\ (Idle(p)' => Post(t))
  BY <1>0, <1>1, FoundHeld DEF UseEntry
<1>4. Foreign(t) /\ \A x \in Paths : Keeps(x)
  BY <1>0, <1>3, SameThins, AllKept
<1> QED
  BY <1>2, <1>3, <1>4, KeptIdle DEF Held

LEMMA UseFailsHeld ==
  ASSUME NEW t \in Threads, Ready(t), UseEntryFails(t)
  PROVE  Held(t)
<1>0. /\ pc[t] = "use" /\ pc[t] \in OnePCs /\ CacheInv /\ HistInv /\ UNCHANGED srvVars
  BY DEF UseEntryFails, At, Ready, Base, ThreadInv, OnePCs, PathPCs, PCs, DestPCs
<1>1. PICK p \in Paths : Starts(t, p)
  BY <1>0, OneStart
<1>2. t \notin suspect => Idle(p) /\ NonEntries(p) = {}
  BY <1>0, <1>1 DEF Starts, Idle, OffPCs, Local
<1> DEFINE none == {}
           M == IF Has(rmPathFromCache(PathArray, p), p) THEN {t} ELSE {}
<1>3. /\ StepWith(t, "use", "stat", none, M) /\ UNCHANGED <<path, dest, todo>> /\ RmPath(p)
      /\ \A u \in Threads \ {t} : stbuf'[u] = stbuf[u]
  BY <1>1 DEF UseEntryFails, Starts
<1>4. Within("use", "stat")
  BY DEF Within, DestPCs
<1>5. t \in M \/ ~Has(rmPathFromCache(PathArray, p), p)
  OBVIOUS
<1> HIDE DEF none, M
<1>6. /\ Frame(t) /\ Calmer /\ pc'[t] = "stat" /\ suspect' = suspect \cup M
      /\ PathsOf(t)' = PathsOf(t)
      /\ /\ Sole(p)' /\ Local(t, p, NoPath)'
         /\ "stat" \in OffPCs \/ Right(p)'
         /\ "stat" \in {"mkdirAdd", "rmNon"} \/ Absent(p)'
         => Post(t)
  BY <1>1, <1>3, <1>4, OneMove
<1>7. Foreign(t) /\ \A x \in Paths : Keeps(x)
  BY <1>0, <1>3, <1>6, RmPathThins, AllKept
<1>8. ASSUME t \notin suspect PROVE Post(t)
  <2>1. CASE t \in M
    BY <1>6, <2>1 DEF Post
  <2>2. CASE ~Has(rmPathFromCache(PathArray, p), p)
    <3>1. PathEntries(p)' = {}
      BY <1>0, <1>3, <1>6, <2>2, RmPathThins
    <3>2. NonEntries(p)' = {}
      BY <1>2, <1>7, <1>8 DEF Keeps, Thins, Shrinks
    <3>3. Local(t, p, NoPath)'
      BY <1>6, <3>1, <3>2 DEF Local
    <3> QED
      BY <1>2, <1>6, <1>7, <1>8, <3>3, KeptIdle DEF Idle
  <2> QED
    BY <1>5, <2>1, <2>2
<1> QED
  BY <1>6, <1>7, <1>8 DEF Held

LEMMA StatHeld ==
  ASSUME NEW t \in Threads, Ready(t), Stat(t)
  PROVE  Held(t)
<1>0. /\ pc[t] = "stat" /\ pc[t] \in OnePCs /\ CacheInv /\ HistInv /\ UNCHANGED srvVars
      /\ UNCHANGED cacheVars
  BY DEF Stat, Step, StepWith, Goto, At, Ready, Base, ThreadInv, OnePCs, PathPCs, PCs, DestPCs
<1>1. PICK p \in Paths : Starts(t, p)
  BY <1>0, OneStart
<1>2. t \notin suspect => Idle(p) /\ NonEntries(p) = {} /\ PathEntries(p) = {}
  BY <1>0, <1>1 DEF Starts, Idle, OffPCs, Local
<1> DEFINE none == {}
<1>3. /\ StepWith(t, "stat", "add", none, none) /\ UNCHANGED <<path, dest, todo>>
      /\ stbuf'[t][p] = server[p] /\ \A u \in Threads \ {t} : stbuf'[u] = stbuf[u]
  BY <1>1 DEF Stat, Step, SetStat, Starts, Ready, Base, ThreadInv, ThreadType
<1>4. Within("stat", "add")
  BY DEF Within, DestPCs
<1> HIDE DEF none
<1>6. /\ Frame(t) /\ Calmer /\ pc'[t] = "add"
      /\ /\ Sole(p)' /\ Local(t, p, NoPath)'
         /\ "add" \in OffPCs \/ Right(p)'
         /\ "add" \in {"mkdirAdd", "rmNon"} \/ Absent(p)'
         => Post(t)
  BY <1>1, <1>3, <1>4, OneMove
<1>7. Foreign(t) /\ \A x \in Paths : Keeps(x)
  BY <1>0, <1>6, SameThins, AllKept
<1>8. ASSUME t \notin suspect PROVE Post(t)
  <2>1. NonEntries(p)' = {} /\ PathEntries(p)' = {} /\ stbuf'[t][p] = server'[p]
    BY <1>0, <1>2, <1>3, <1>7, <1>8 DEF Keeps, Thins, Shrinks, srvVars
  <2>2. Local(t, p, NoPath)'
    BY <1>6, <2>1 DEF Local
  <2> QED
    BY <1>2, <1>6, <1>7, <1>8, <2>2, KeptIdle DEF Idle
<1> QED
  BY <1>6, <1>7, <1>8 DEF Held

LEMMA StatFailsHeld ==
  ASSUME NEW t \in Threads, Ready(t), StatFails(t)
  PROVE  Held(t)
<1>0. /\ pc[t] = "stat" /\ pc[t] \in OnePCs /\ CacheInv /\ HistInv /\ UNCHANGED srvVars
      /\ UNCHANGED cacheVars
  BY DEF StatFails, StepWith, Goto, At, Ready, Base, ThreadInv, OnePCs, PathPCs, PCs, DestPCs
<1>1. PICK p \in Paths : Starts(t, p)
  BY <1>0, OneStart
<1> DEFINE none == {}
           M == {t}
<1>3. /\ StepWith(t, "stat", "add", none, M) /\ UNCHANGED <<path, dest, todo>> /\ t \in M
      /\ \A u \in Threads \ {t} : stbuf'[u] = stbuf[u]
  BY DEF StatFails, locals
<1>4. Within("stat", "add")
  BY DEF Within, DestPCs
<1> HIDE DEF none, M
<1>6. /\ Frame(t) /\ Calmer /\ pc'[t] = "add" /\ suspect' = suspect \cup M
      /\ PathsOf(t)' = PathsOf(t)
  BY <1>1, <1>3, <1>4, OneMove
<1>7. Foreign(t)
  BY <1>0, <1>6, SameThins, AllKept
<1>8. Post(t)
  BY <1>3, <1>6 DEF Post
<1> QED
  BY <1>6, <1>7, <1>8 DEF Held

\* The paths of the others, when an entry of p is added.
LEMMA AddForeign ==
  ASSUME CacheInv, HistInv, Calmer, UNCHANGED srvVars, NEW t, NEW p \in Paths,
         p \in PathsOf(t), NEW v \in Stats, NEW l \in BOOLEAN,
         AddPath(p, v, l) \/ AddNonExist(p)
  PROVE  Foreign(t) /\ \A x \in Paths \ {p} : Keeps(x)
BY AddPathGives, AddNonGives DEF Foreign, Keeps, srvVars

\* The entry that addPathToCache adds is the only one of p.
LEMMA AddedRight ==
  ASSUME CacheInv, CacheInv', HistInv, Calmer, NEW p \in Paths, NEW v \in Stats,
         NEW l \in BOOLEAN, AddPath(p, v, l), Sole(p),
         PathEntries(p) = {} \/ calm'[p] = 0,
         v = server'[p] \/ (l /\ p \in creating') \/ calm'[p] = 0
  PROVE  /\ Sole(p)' /\ Right(p)' /\ FreshNon(p)' \subseteq FreshNon(p)
         /\ NonEntries(p)' \subseteq NonEntries(p)
<1>1. /\ NonEntries(p)' \subseteq NonEntries(p) /\ FreshNon(p)' \subseteq FreshNon(p)
      /\ PathEntries(p) = {} =>
           \E e : PathEntries(p)' = {e} /\ entry'[e].ver = v /\ entry'[e].loc = l
  BY AddPathGives
<1>2. CASE calm'[p] = 0
  BY <1>1, <1>2, DoubtedIdle DEF Idle
<1>3. CASE PathEntries(p) = {} /\ calm'[p] # 0
  <2>1. PICK e : PathEntries(p)' = {e} /\ entry'[e].ver = v /\ entry'[e].loc = l
    BY <1>1, <1>3
  <2>2. FreshPath(p)' \subseteq {e}
    BY <2>1 DEF FreshPath
  <2>3. Sole(p)'
    BY <1>1, <2>1, <2>2 DEF Sole
  <2>4. Right(p)'
    BY <1>3, <2>1, <2>2 DEF Right
  <2> QED
    BY <1>1, <2>3, <2>4
<1> QED
  BY <1>2, <1>3

LEMMA AddHeld ==
  ASSUME NEW t \in Threads, Ready(t), Add(t)
  PROVE  Held(t)
<1>0. /\ pc[t] = "add" /\ "add" \in OnePCs /\ CacheInv /\ HistInv /\ UNCHANGED srvVars
      /\ CacheInv' /\ ThreadType
  BY DEF Add, At, Ready, Base, ThreadInv, OnePCs, PathPCs, PCs, DestPCs
<1>1. PICK p \in Paths : Starts(t, p)
  BY <1>0, OneStart
<1>2. t \notin suspect => /\ Idle(p) /\ NonEntries(p) = {} /\ PathEntries(p) = {}
                          /\ stbuf[t][p] = server[p]
  BY <1>0, <1>1 DEF Starts, Idle, OffPCs, Local
<1>3. PICK v \in Stats : v = stbuf[t][p]
  BY <1>0 DEF ThreadType
<1>4. p = path[t] /\ p \in PathsOf(t)
  BY <1>1 DEF Starts
<1>5. \/ v = 0 /\ AddNonExist(p) /\ NotFound(t, "add")
      \/ v # 0 /\ AddPath(p, v, FALSE) /\ Found(t, "add")
  BY <1>3, <1>4 DEF Add
<1>6. Frame(t) /\ Calmer /\ (Idle(p)' => Post(t))
  BY <1>0, <1>1, <1>5, FoundHeld
<1>7. Foreign(t)
  BY <1>0, <1>4, <1>5, <1>6, AddForeign
<1>8. ASSUME t \notin suspect PROVE Idle(p)'
  <2>1. server'[p] = v
    BY <1>0, <1>2, <1>3, <1>8 DEF srvVars
  <2>2. CASE v = 0 /\ AddNonExist(p)
    <3>1. PathEntries(p)' = {}
      BY <1>0, <1>2, <1>6, <1>8, <2>2, AddNonGives
    <3>2. PICK e : NonEntries(p)' = {e}
      BY <1>0, <1>2, <1>6, <1>8, <2>2, AddNonGives
    <3>3. FreshPath(p)' = {} /\ FreshNon(p)' \subseteq {e}
      BY <3>1, <3>2 DEF FreshPath, FreshNon
    <3> QED
      BY <2>1, <2>2, <3>1, <3>2, <3>3 DEF Idle, Sole, Right, Absent
  <2>3. CASE AddPath(p, v, FALSE)
    <3>1. Sole(p)' /\ Right(p)' /\ NonEntries(p)' \subseteq NonEntries(p)
      BY <1>0, <1>2, <1>6, <1>8, <2>1, <2>3, AddedRight DEF Idle
    <3>2. FreshNon(p)' = {}
      BY <1>2, <1>8, <3>1 DEF FreshNon
    <3> QED
      BY <3>1, <3>2 DEF Idle, Absent
  <2> QED
    BY <1>5, <2>2, <2>3
<1> QED
  BY <1>6, <1>7, <1>8 DEF Held

LEMMA ReaddirMatchHeld ==
  ASSUME NEW t \in Threads, Ready(t), ReaddirMatch(t)
  PROVE  Held(t)
<1>0. /\ pc[t] = "readdir" /\ CacheInv /\ HistInv /\ UNCHANGED srvVars /\ ExpirePath
      /\ CacheInv' /\ ThreadType /\ Form(t) /\ NoPath \notin Paths /\ todo[t] \subseteq Paths
  BY PathCacheAssumption
     DEF PathCacheAssumption, ReaddirMatch, At, Ready, Base, ThreadInv, ThreadType
<1>1. path[t] = NoPath /\ dest[t] = NoPath /\ PathsOf(t) = todo[t]
  BY <1>0 DEF Form, DestPCs, PathsOf
<1>2. PICK p \in todo[t] :
         /\ todo' = [todo EXCEPT ![t] = @ \ {p}]
         /\ IF Match(p) = NoEntry
              THEN Step(t, "readdir", "readdirAdd") /\ path' = [path EXCEPT ![t] = p]
              ELSE Step(t, "readdir", "readdir") /\ UNCHANGED path
  BY DEF ReaddirMatch
<1>3. todo'[t] = todo[t] \ {p} /\ dest'[t] = NoPath /\ stbuf' = stbuf /\ p \in Paths
  BY <1>0, <1>1, <1>2 DEF ThreadType, ReaddirMatch
<1>4. \/ pc'[t] = "readdirAdd" /\ path'[t] = p /\ Match(p) = NoEntry
      \/ pc'[t] = "readdir" /\ path'[t] = NoPath
  BY <1>0, <1>1, <1>2 DEF ThreadType, Step, StepWith, Goto
<1>5. Calmer /\ \A x \in Paths : (t \in suspect /\ x \in PathsOf(t)) => calm'[x] = 0
  BY <1>0, <1>2, DoubtCalms DEF Step, StepWith
<1>6. Form(t)'
  BY <1>0, <1>1, <1>3, <1>4 DEF Form
<1>7. Frame(t)
  BY <1>0, <1>3, <1>5, <1>6 DEF Frame
<1>8. Foreign(t) /\ \A x \in Paths : Keeps(x)
  BY <1>0, <1>5, <1>7, ExpireThins, AllKept
<1>9. ASSUME t \notin suspect PROVE Post(t)
  <2>1. Own(t)
    BY <1>9 DEF Ready
  <2>2. Listed(t)'
    BY <1>0, <1>3, <2>1 DEF Own, Listed, srvVars
  <2>3. \A x \in PathsOf(t) : ~PathOff(t, x) /\ ~NonOff(t, x)
    BY <1>0 DEF PathOff, NonOff
  <2>4. \A x \in PathsOf(t) : Sole(x)' /\ Right(x)' /\ Absent(x)'
    BY <1>0, <1>1, <1>8, <2>1, <2>3, KeptClaims DEF Own, Claims
  <2>5. Knows(t)'
    <3> SUFFICES ASSUME NEW x \in Paths, NEW d \in Paths \cup {NoPath},
                        x = path'[t], d = dest'[t]
                 PROVE  Local(t, x, d)'
      BY DEF Knows
    <3>1. x = p /\ pc'[t] = "readdirAdd" /\ Match(x) = NoEntry
      BY <1>0, <1>4
    <3>2. PathEntries(x)' = {}
      BY <1>0, <1>5, <3>1, ExpireThins
    <3>3. stbuf'[t][x] = server'[x] /\ server'[x] # 0
      BY <1>0, <1>2, <1>3, <2>1, <3>1 DEF Own, Listed, srvVars
    <3> QED
      BY <3>1, <3>2, <3>3 DEF Local
  <2> QED
    BY <2>2, <2>4, <2>5 DEF Post
<1> QED
  BY <1>7, <1>8, <1>9 DEF Held

LEMMA ReaddirAddHeld ==
  ASSUME NEW t \in Threads, Ready(t), ReaddirAdd(t)
  PROVE  Held(t)
<1>0. /\ pc[t] = "readdirAdd" /\ CacheInv /\ HistInv /\ UNCHANGED srvVars
      /\ CacheInv' /\ ThreadType /\ Form(t) /\ NoPath \notin Paths /\ todo[t] \subseteq Paths
  BY PathCacheAssumption
     DEF PathCacheAssumption, ReaddirAdd, Step, StepWith, Goto, At, Ready, Base, ThreadInv,
         ThreadType
<1>1. path[t] \in Paths /\ dest[t] = NoPath /\ path[t] \notin todo[t]
  <2>1. pc[t] \in PathPCs
    BY <1>0 DEF PathPCs, PCs
  <2> QED
    BY <1>0, <2>1, PathIn DEF Ready, Base, Form, DestPCs
<1>2. PICK p \in Paths : p = path[t]
  BY <1>1
<1>3. PICK v \in Stats : v = stbuf[t][p]
  BY <1>0 DEF ThreadType
<1>4. AddPath(p, v, FALSE) /\ Step(t, "readdirAdd", "readdir")
  BY <1>2, <1>3 DEF ReaddirAdd
<1>5. /\ todo'[t] = todo[t] /\ dest'[t] = NoPath /\ stbuf' = stbuf /\ path'[t] = NoPath
      /\ pc'[t] = "readdir" /\ PathsOf(t) = {p} \cup todo[t]
  BY <1>0, <1>1, <1>2, <1>4
     DEF ThreadType, ReaddirAdd, Step, StepWith, Goto, PathsOf
<1>6. Calmer /\ \A x \in Paths : (t \in suspect /\ x \in PathsOf(t)) => calm'[x] = 0
  BY <1>0, <1>4, DoubtCalms DEF Step, StepWith
<1>7. Form(t)'
  BY <1>0, <1>5 DEF Form
<1>8. Frame(t)
  BY <1>0, <1>5, <1>6, <1>7 DEF Frame
<1>9. Foreign(t) /\ \A x \in Paths \ {p} : Keeps(x)
  <2>1. p \in PathsOf(t)
    BY <1>5
  <2> QED
    BY <1>0, <1>4, <1>6, <2>1, AddForeign
<1>10. ASSUME t \notin suspect PROVE Post(t)
  <2>1. Own(t)
    BY <1>10 DEF Ready
  <2>2. Listed(t)'
    BY <1>0, <1>5, <2>1 DEF Own, Listed, srvVars
  <2>3. \A x \in PathsOf(t) : ~PathOff(t, x) /\ ~NonOff(t, x)
    BY <1>0 DEF PathOff, NonOff
  <2>4. \A x \in PathsOf(t) : Sole(x) /\ Right(x) /\ Absent(x)
    BY <2>1, <2>3 DEF Own, Claims
  <2>5. \A x \in todo[t] : Sole(x)' /\ Right(x)' /\ Absent(x)'
    BY <1>0, <1>1, <1>2, <1>5, <1>9, <2>4, KeptClaims
  <2>6. Knows(t)'
    BY <1>0, <1>5 DEF Knows
  <2>7. PathEntries(p) = {} /\ v = server'[p] /\ server[p] # 0
    <3>1. Local(t, p, NoPath)
      BY <1>1, <1>2, <2>1 DEF Own, Knows
    <3> QED
      BY <1>0, <1>3, <3>1 DEF Local, srvVars
  <2>8. Sole(p)' /\ Right(p)' /\ FreshNon(p)' \subseteq FreshNon(p)
    BY <1>0, <1>4, <1>5, <1>6, <2>4, <2>7, AddedRight
  <2>9. Absent(p)'
    BY <1>5, <2>4, <2>7, <2>8 DEF Absent
  <2> QED
    BY <1>5, <2>2, <2>5, <2>6, <2>8, <2>9 DEF Post
<1> QED
  BY <1>8, <1>9, <1>10 DEF Held

LEMMA ReaddirDoneHeld ==
  ASSUME NEW t \in Threads, Ready(t), ReaddirDone(t)
  PROVE  Held(t)
<1>0. /\ pc[t] = "readdir" /\ CacheInv /\ HistInv /\ UNCHANGED srvVars /\ UNCHANGED cacheVars
      /\ Return(t, "readdir", {}) /\ todo[t] = {}
  BY DEF ReaddirDone, At, Ready, Base, ThreadInv
<1> DEFINE none == {}
<1>1. Return(t, "readdir", none) /\ "readdir" # "idle"
  BY <1>0
<1> HIDE DEF none
<1>2. /\ Frame(t) /\ Calmer /\ ((\A p \in PathsOf(t) : Idle(p)') => Post(t))
  BY <1>1, ReturnFrame DEF Ready, Base
<1>3. PathsOf(t) = {}
  BY <1>0 DEF Ready, Form, DestPCs, PathsOf
<1>4. Foreign(t)
  BY <1>0, <1>2, SameThins, AllKept
<1> QED
  BY <1>2, <1>3, <1>4 DEF Held

-------------------------------------------------------------------------------
(***************************************************************************)
(* Requests that change the server.                                        *)
(***************************************************************************)
\* A handler returns without having done anything.
LEMMA LeaveHeld ==
  ASSUME NEW t \in Threads, Ready(t), NEW p \in Paths, Starts(t, p), pc[t] \notin OffPCs,
         NEW from, from # "idle", NEW S, Return(t, from, S), UNCHANGED srvVars,
         UNCHANGED cacheVars
  PROVE  Held(t)
<1>0. CacheInv /\ HistInv
  BY DEF Ready, Base, ThreadInv
<1>1. Frame(t) /\ Calmer /\ (Idle(p)' => Post(t))
  BY OneReturn
<1>2. Foreign(t) /\ \A x \in Paths : Keeps(x)
  BY <1>0, <1>1, SameThins, AllKept
<1>3. t \notin suspect => Idle(p)
  BY DEF Starts, OffPCs, Idle
<1> QED
  BY <1>1, <1>2, <1>3, KeptIdle DEF Held

\* A request changes p on the server.
LEMMA RequestForeign ==
  ASSUME NEW t \in Threads, Ready(t), Calmer, NEW p \in Paths, p \in PathsOf(t), NEW v,
         ServerSet(p, v), UNCHANGED cacheVars
  PROVE  Foreign(t) /\ Thins(p) /\ server'[p] = v /\ creating' = creating
<1>1. /\ CacheInv /\ HistInv /\ server'[p] = v /\ creating' = creating
      /\ \A x \in Paths \ {p} : server'[x] = server[x]
  BY DEF Ready, Base, ThreadInv, SrvInv, ServerSet
<1>2. \A x \in Paths : Thins(x)
  BY <1>1, SameThins
<1> QED
  BY <1>1, <1>2 DEF Foreign, Keeps

\* ... and the handler returns without touching the path cache.
LEMMA LostHeld ==
  ASSUME NEW t \in Threads, Ready(t), NEW p \in Paths, Starts(t, p), NEW from,
         from # "idle", Return(t, from, {p}), NEW v, ServerSet(p, v), UNCHANGED cacheVars
  PROVE  Held(t)
<1> DEFINE S == {p}
<1>1. Return(t, from, S) /\ p \in S \cap Paths
  OBVIOUS
<1> HIDE DEF S
<1>2. Frame(t) /\ Calmer /\ (Idle(p)' => Post(t)) /\ calm'[p] = 0
  BY <1>1, OneReturn
<1>3. Idle(p)'
  BY <1>2, DoubtedIdle DEF Ready
<1>4. p \in PathsOf(t)
  BY DEF Starts
<1>5. Foreign(t)
  BY <1>2, <1>4, RequestForeign
<1> QED
  BY <1>2, <1>3, <1>5 DEF Held

\* ... or goes on, with an entry of the path that is out of date.
LEMMA RequestHeld ==
  ASSUME NEW t \in Threads, Ready(t), NEW p \in Paths, Starts(t, p), NEW from, NEW to,
         Within(from, to), pc[t] # "mkdirAdd", Step(t, from, to), to \in OffPCs,
         NEW v, ServerSet(p, v), UNCHANGED cacheVars, UNCHANGED <<path, dest, todo>>,
         \A u \in Threads \ {t} : stbuf'[u] = stbuf[u],
         to \in {"rm", "mkdirAdd", "changeMatch"},
         to # "rm" => stbuf'[t][p] = v,
         to = "mkdirAdd" \/ server[p] # 0
  PROVE  Held(t)
<1> DEFINE none == {}
<1>1. StepWith(t, from, to, none, none)
  BY DEF Step
<1> HIDE DEF none
<1>2. /\ Frame(t) /\ Calmer /\ pc'[t] = to
      /\ /\ Sole(p)' /\ Local(t, p, NoPath)'
         /\ to \in OffPCs \/ Right(p)'
         /\ to \in {"mkdirAdd", "rmNon"} \/ Absent(p)'
         => Post(t)
  BY <1>1, OneMove
<1>3. p \in PathsOf(t)
  BY DEF Starts
<1>4. Foreign(t) /\ Thins(p) /\ server'[p] = v
  BY <1>2, <1>3, RequestForeign
<1>5. ASSUME t \notin suspect PROVE Post(t)
  <2>1. Sole(p) /\ Absent(p)
    BY <1>5 DEF Starts
  <2>2. Sole(p)'
    BY <1>4, <2>1, ShrunkSole DEF Thins
  <2>3. to = "mkdirAdd" \/ Absent(p)'
    BY <1>4, <2>1 DEF Absent, Thins, Shrinks
  <2>4. Local(t, p, NoPath)'
    BY <1>2, <1>4 DEF Local
  <2> QED
    BY <1>2, <2>2, <2>3, <2>4
<1> QED
  BY <1>2, <1>4, <1>5 DEF Held

LEMMA MkdirServerHeld ==
  ASSUME NEW t \in Threads, Ready(t), MkdirServer(t)
  PROVE  Held(t)
<1>0. /\ pc[t] = "mkdir" /\ pc[t] \in OnePCs /\ pc[t] \notin OffPCs
      /\ Within("mkdir", "mkdirAdd") /\ "mkdirAdd" \in OffPCs /\ ThreadType
  BY DEF MkdirServer, At, OnePCs, PathPCs, PCs, DestPCs, OffPCs, Within, Ready, Base,
         ThreadInv
<1>1. PICK p \in Paths : Starts(t, p)
  BY <1>0, OneStart
<1>2. p = path[t]
  BY <1>1 DEF Starts
<1>3. CASE Refused(t, "mkdir", server[path[t]] = 0)
  BY <1>0, <1>1, <1>3, LeaveHeld DEF Refused
<1>4. ASSUME NEW v \in Versions, ServerSet(path[t], v), UNCHANGED cacheVars,
             Step(t, "mkdir", "mkdirAdd"), SetStat(t, v),
             UNCHANGED <<path, dest, ptrVars, caller, todo>>
      PROVE  Held(t)
  <2>1. /\ ServerSet(p, v) /\ UNCHANGED <<path, dest, todo>> /\ stbuf'[t][p] = v
        /\ \A u \in Threads \ {t} : stbuf'[u] = stbuf[u]
    BY <1>0, <1>2, <1>4 DEF SetStat, ThreadType
  <2> QED
    BY <1>0, <1>1, <1>4, <2>1, RequestHeld
<1>5. ASSUME NEW v \in Versions, ServerSet(path[t], v), UNCHANGED cacheVars,
             Return(t, "mkdir", {path[t]})
      PROVE  Held(t)
  <2>1. ServerSet(p, v) /\ Return(t, "mkdir", {p}) /\ "mkdir" # "idle"
    BY <1>2, <1>5
  <2> QED
    BY <1>1, <1>5, <2>1, LostHeld
<1> QED
  BY <1>3, <1>4, <1>5 DEF MkdirServer

\* A second entry is doubted, so that what is added is the only fresh one.
LEMMA SecondDoubted ==
  ASSUME NEW p \in Paths, CacheInv, \A x \in Second(p) \cap Paths : calm'[x] = 0
  PROVE  PathEntries(p) = {} \/ calm'[p] = 0
<1>1. CASE Has(PathArray, p)
  BY <1>1 DEF Second
<1>2. CASE ~Has(PathArray, p)
  <2>1. \A e \in ToSet(PathArray) : \E i \in 1..Len(PathArray) : e = PathArray[i]
    BY DEF CacheInv, Queue, ToSet
  <2> QED
    BY <1>2, <2>1 DEF Has, PathEntries
<1> QED
  BY <1>1, <1>2

LEMMA MkdirAddHeld ==
  ASSUME NEW t \in Threads, Ready(t), MkdirAdd(t)
  PROVE  Held(t)
<1>0. /\ pc[t] = "mkdirAdd" /\ pc[t] \in OnePCs /\ CacheInv /\ HistInv /\ UNCHANGED srvVars
      /\ CacheInv' /\ ThreadType /\ Within("mkdirAdd", "rmNon")
  BY DEF MkdirAdd, StepWith, Goto, At, Ready, Base, ThreadInv, OnePCs, PathPCs, PCs, DestPCs,
         Within
<1>1. PICK p \in Paths : Starts(t, p)
  BY <1>0, OneStart
<1>2. p = path[t] /\ p \in PathsOf(t)
  BY <1>1 DEF Starts
<1>3. PICK v \in Stats : v = stbuf[t][p]
  BY <1>0 DEF ThreadType
<1> DEFINE none == {}
           S == Second(p)
<1>4. /\ StepWith(t, "mkdirAdd", "rmNon", S, none) /\ UNCHANGED <<path, dest, todo>>
      /\ AddPath(p, v, FALSE) /\ \A u \in Threads \ {t} : stbuf'[u] = stbuf[u]
  BY <1>2, <1>3 DEF MkdirAdd, locals
<1>5. (\A x \in S \cap Paths : calm'[x] = 0) => PathEntries(p) = {} \/ calm'[p] = 0
  BY <1>0, SecondDoubted
<1> HIDE DEF none, S
<1>6. /\ Frame(t) /\ Calmer /\ pc'[t] = "rmNon" /\ \A x \in S \cap Paths : calm'[x] = 0
      /\ /\ Sole(p)' /\ Local(t, p, NoPath)'
         /\ "rmNon" \in OffPCs \/ Right(p)'
         /\ "rmNon" \in {"mkdirAdd", "rmNon"} \/ Absent(p)'
         => Post(t)
  BY <1>0, <1>1, <1>4, OneMove
<1>7. Foreign(t)
  BY <1>0, <1>2, <1>4, <1>6, AddForeign
<1>8. ASSUME t \notin suspect PROVE Post(t)
  <2>1. Sole(p) /\ v = server'[p]
    BY <1>0, <1>1, <1>3, <1>8 DEF Starts, Local, srvVars
  <2>2. Sole(p)' /\ Right(p)'
    BY <1>0, <1>4, <1>5, <1>6, <2>1, AddedRight
  <2>3. Local(t, p, NoPath)'
    BY <1>6, PlainLocal
  <2> QED
    BY <1>6, <2>2, <2>3
<1> QED
  BY <1>6, <1>7, <1>8 DEF Held

LEMMA MknodRmHeld ==
  ASSUME NEW t \in Threads, Ready(t), MknodRm(t)
  PROVE  Held(t)
<1>0. /\ pc[t] = "mknodRm" /\ pc[t] \in OnePCs /\ CacheInv /\ HistInv
      /\ Within("mknodRm", "mknodAdd")
  BY DEF MknodRm, Step, StepWith, Goto, At, Ready, Base, ThreadInv, OnePCs, PathPCs, PCs,
         DestPCs, Within
<1>1. PICK p \in Paths : Starts(t, p)
  BY <1>0, OneStart
<1>2. p = path[t] /\ p \in PathsOf(t)
  BY <1>1 DEF Starts
<1> DEFINE none == {}
<1>4. /\ StepWith(t, "mknodRm", "mknodAdd", none, none) /\ UNCHANGED <<path, dest, todo>>
      /\ RmNonExist(p) /\ \A u \in Threads \ {t} : stbuf'[u] = stbuf[u]
      /\ server' = server /\ creating' = creating \cup {p}
  BY <1>2 DEF MknodRm, locals, Step
<1> HIDE DEF none
<1>6. /\ Frame(t) /\ Calmer /\ pc'[t] = "mknodAdd"
      /\ /\ Sole(p)' /\ Local(t, p, NoPath)'
         /\ "mknodAdd" \in OffPCs \/ Right(p)'
         /\ "mknodAdd" \in {"mkdirAdd", "rmNon"} \/ Absent(p)'
         => Post(t)
  BY <1>0, <1>1, <1>4, OneMove
<1>7. \A x \in Paths : Thins(x)
  BY <1>0, <1>4, <1>6, RmNonThins
<1>8. Foreign(t)
  BY <1>2, <1>4, <1>7 DEF Foreign, Keeps
<1>9. ASSUME t \notin suspect PROVE Post(t)
  <2>1. Sole(p) /\ Right(p)
    BY <1>0, <1>1, <1>9 DEF Starts, OffPCs
  <2>2. Sole(p)'
    BY <1>7, <2>1, ShrunkSole DEF Thins
  <2>3. Right(p)'
    BY <1>4, <1>7, <2>1 DEF Thins, Shrinks, Right
  <2>4. FreshNon(p)' = {}
    BY <1>0, <1>4, <1>6, <2>1, RmNonThins
  <2>5. Local(t, p, NoPath)'
    BY <1>4, <1>6, <2>4 DEF Local
  <2> QED
    BY <1>6, <2>2, <2>3, <2>4, <2>5 DEF Absent
<1> QED
  BY <1>6, <1>8, <1>9 DEF Held

\* The entry that irodsMknod adds has no local copy yet.
LEMMA MknodAddHeld ==
  ASSUME NEW t \in Threads, Ready(t), MknodAdd(t)
  PROVE  Held(t)
<1>0. /\ pc[t] = "mknodAdd" /\ pc[t] \in OnePCs /\ CacheInv /\ HistInv /\ UNCHANGED srvVars
      /\ CacheInv' /\ ThreadType /\ Within("mknodAdd", "mknodSet") /\ FALSE \in BOOLEAN
  BY DEF MknodAdd, StepWith, Goto, At, Ready, Base, ThreadInv, OnePCs, PathPCs, PCs, DestPCs,
         Within
<1>1. PICK p \in Paths : Starts(t, p)
  BY <1>0, OneStart
<1>2. p = path[t] /\ p \in PathsOf(t)
  BY <1>1 DEF Starts
<1>3. PICK v \in Stats : v = SomeVersion
  BY VersionTypes
<1> DEFINE S == Second(p)
           none == {}
<1>4. PICK e \in Entries : AddEntry(e, p, v, FALSE) /\ SetPtr(t, e)
  BY <1>2, <1>3 DEF MknodAdd
<1>5. /\ StepWith(t, "mknodAdd", "mknodSet", S, none) /\ UNCHANGED <<path, dest, todo>>
      /\ \A u \in Threads \ {t} : stbuf'[u] = stbuf[u]
      /\ AddPath(p, v, FALSE) /\ ptr'[t] = e
  BY <1>0, <1>2, <1>4 DEF MknodAdd, AddPath, SetPtr, ThreadType
<1>6. (\A x \in S \cap Paths : calm'[x] = 0) => PathEntries(p) = {} \/ calm'[p] = 0
  BY <1>0, SecondDoubted
<1> HIDE DEF S, none
<1>7. /\ Frame(t) /\ Calmer /\ pc'[t] = "mknodSet" /\ \A x \in S \cap Paths : calm'[x] = 0
      /\ /\ Sole(p)' /\ Local(t, p, NoPath)'
         /\ "mknodSet" \in OffPCs \/ Right(p)'
         /\ "mknodSet" \in {"mkdirAdd", "rmNon"} \/ Absent(p)'
         => Post(t)
  BY <1>0, <1>1, <1>5, OneMove
<1>8. Foreign(t)
  BY <1>0, <1>2, <1>5, <1>7, AddForeign
<1>9. ASSUME t \notin suspect PROVE Post(t)
  <2>1. Sole(p) /\ p \in creating' /\ FreshNon(p) = {}
    BY <1>0, <1>1, <1>9 DEF Starts, Local, srvVars
  <2>2. /\ FreshNon(p)' \subseteq FreshNon(p) /\ NonEntries(p)' \subseteq NonEntries(p)
        /\ PathEntries(p) = {} => \E x : /\ PathEntries(p)' = {x}
                                        /\ entry'[x].ver = v
    <3>0. PICK l \in BOOLEAN : l = FALSE
      OBVIOUS
    <3>1. CacheInv /\ HistInv /\ Calmer /\ AddPath(p, v, l)
      BY <1>0, <1>5, <1>7, <3>0
    <3> QED
      BY <3>1, AddPathGives
  <2>3. e \in PathEntries(p)'
    BY <1>0, <1>4, AddedEntry DEF PathEntries
  <2>4. FreshPath(p)' \subseteq {ptr'[t]} /\ Sole(p)'
    <3>1. CASE calm'[p] = 0
      BY <1>0, <3>1, NothingFresh DEF Sole
    <3>2. CASE PathEntries(p) = {}
      <4>1. PathEntries(p)' = {e}
        BY <2>2, <2>3, <3>2
      <4> QED
        BY <1>5, <2>1, <2>2, <4>1 DEF FreshPath, Sole
    <3> QED
      BY <1>6, <1>7, <3>1, <3>2
  <2>5. Local(t, p, NoPath)'
    BY <1>7, <2>1, <2>4 DEF Local
  <2>6. Absent(p)'
    BY <2>1, <2>2 DEF Absent
  <2> QED
    BY <1>7, <2>4, <2>5, <2>6 DEF OffPCs
<1> QED
  BY <1>7, <1>8, <1>9 DEF Held

\* With it the entry stands for a file that is being made.
LEMMA MknodSetHeld ==
  ASSUME NEW t \in Threads, Ready(t), MknodSet(t)
  PROVE  Held(t)
<1>0. /\ pc[t] = "mknodSet" /\ pc[t] \in OnePCs /\ CacheInv /\ HistInv /\ UNCHANGED srvVars
      /\ UNCHANGED <<PathArray, NonExistPathArray>> /\ "mknodSet" # "idle" /\ ThreadType
  BY DEF MknodSet, At, Ready, Base, ThreadInv, OnePCs, PathPCs, PCs, DestPCs, srvVars
<1>1. PICK p \in Paths : Starts(t, p)
  BY <1>0, OneStart
<1>2. p = path[t] /\ PathsOf(t) = {p}
  BY <1>1 DEF Starts
<1>3. t \notin suspect => /\ Sole(p) /\ Absent(p) /\ p \in creating
                          /\ FreshPath(p) \subseteq {ptr[t]}
  BY <1>0, <1>1 DEF Starts, Local
<1>4. PICK e : e = ptr[t]
  OBVIOUS
<1> DEFINE S == IF Live(e) THEN {entry[e].path} \ {p} ELSE {}
<1>5. Return(t, "mknodSet", S)
  BY <1>2, <1>4 DEF MknodSet
<1>6. Live(e) /\ entry[e].path # p => entry[e].path \in S
  OBVIOUS
<1> HIDE DEF S
<1>7. Frame(t) /\ Calmer /\ (Idle(p)' => Post(t)) /\ \A x \in S \cap Paths : calm'[x] = 0
  BY <1>0, <1>1, <1>5, OneReturn
<1>8. CASE Live(e) /\ entry' = [entry EXCEPT ![e].loc = TRUE]
  <2>1. PICK v \in Stats : /\ e \in Entries
                           /\ entry' = [entry EXCEPT ![e].ver = v, ![e].loc = TRUE]
    BY <1>0, <1>8, LocStore
  <2>2. entry'[e].loc = TRUE
    <3>1. entry \in [Entries -> EntryType] /\ entry[e] \in EntryType
      BY <1>0, <2>1 DEF CacheInv
    <3> QED
      BY <1>8, <2>1, <3>1 DEF EntryType
  <2>3. ASSUME NEW x \in Paths
        PROVE  Shrinks(x) /\ (entry[e].path # x \/ calm'[x] = 0 => Thins(x))
    <3>1. TRUE \in BOOLEAN
      OBVIOUS
    <3> QED
      BY <1>0, <1>7, <1>8, <2>1, <3>1, StoreGives
  <2>4. ASSUME NEW x \in Paths \ PathsOf(t) PROVE Thins(x)
    <3>1. entry[e].path # x \/ calm'[x] = 0
      BY <1>2, <1>6, <1>7, <1>8
    <3> QED
      BY <2>3, <3>1
  <2>5. Foreign(t)
    BY <1>0, <2>4 DEF Foreign, Keeps, srvVars
  <2>6. ASSUME t \notin suspect PROVE Idle(p)'
    <3>1. Sole(p)'
      BY <1>3, <2>3, <2>6, ShrunkSole
    <3>2. Absent(p)'
      BY <1>0, <1>3, <2>3, <2>6 DEF Absent, Shrinks, srvVars
    <3>3. Right(p)'
      BY <1>0, <1>3, <1>4, <2>2, <2>3, <2>6 DEF Right, Shrinks, srvVars
    <3> QED
      BY <3>1, <3>2, <3>3 DEF Idle
  <2> QED
    BY <1>7, <2>5, <2>6 DEF Held
<1>9. CASE ~Live(e) /\ entry' = entry
  <2>1. UNCHANGED cacheVars
    BY <1>0, <1>9 DEF cacheVars
  <2>2. Foreign(t) /\ \A x \in Paths : Keeps(x)
    BY <1>0, <1>7, <2>1, SameThins, AllKept
  <2>3. ASSUME t \notin suspect PROVE Idle(p)'
    <3>1. FreshPath(p) \subseteq ToSet(PathArray) /\ e \notin ToSet(PathArray)
      BY <1>9 DEF FreshPath, PathEntries, Live, Range, ToSet
    <3>2. Right(p)
      BY <1>3, <1>4, <2>3, <3>1 DEF Right
    <3> QED
      BY <1>3, <2>2, <2>3, <3>2, KeptClaims DEF Idle
  <2> QED
    BY <1>7, <2>2, <2>3 DEF Held
<1> QED
  BY <1>4, <1>8, <1>9 DEF MknodSet

LEMMA UnlinkServerHeld ==
  ASSUME NEW t \in Threads, Ready(t), UnlinkServer(t)
  PROVE  Held(t)
<1>0. /\ pc[t] = "unlink" /\ pc[t] \in OnePCs /\ pc[t] \notin OffPCs
      /\ Within("unlink", "rm") /\ "rm" \in OffPCs
  BY DEF UnlinkServer, At, OnePCs, PathPCs, PCs, DestPCs, OffPCs, Within
<1>1. PICK p \in Paths : Starts(t, p)
  BY <1>0, OneStart
<1>2. p = path[t]
  BY <1>1 DEF Starts
<1>3. CASE Refused(t, "unlink", server[path[t]] # 0)
  BY <1>0, <1>1, <1>3, LeaveHeld DEF Refused
<1>4. CASE /\ server[path[t]] # 0 /\ ServerSet(path[t], 0) /\ UNCHANGED cacheVars
           /\ Step(t, "unlink", "rm") /\ UNCHANGED locals
  <2>1. /\ ServerSet(p, 0) /\ UNCHANGED <<path, dest, todo>> /\ server[p] # 0
        /\ \A u \in Threads \ {t} : stbuf'[u] = stbuf[u]
    BY <1>2, <1>4 DEF locals
  <2> QED
    BY <1>0, <1>1, <1>4, <2>1, RequestHeld
<1>5. CASE ServerSet(path[t], 0) /\ UNCHANGED cacheVars /\ Return(t, "unlink", {path[t]})
  <2>1. ServerSet(p, 0) /\ Return(t, "unlink", {p}) /\ "unlink" # "idle"
    BY <1>2, <1>5
  <2> QED
    BY <1>1, <1>5, <2>1, LostHeld
<1> QED
  BY <1>3, <1>4, <1>5 DEF UnlinkServer

LEMMA RmHeld ==
  ASSUME NEW t \in Threads, Ready(t), Rm(t)
  PROVE  Held(t)
<1>0. /\ pc[t] = "rm" /\ pc[t] \in OnePCs /\ CacheInv /\ HistInv /\ UNCHANGED srvVars
  BY DEF Rm, At, Ready, Base, ThreadInv, OnePCs, PathPCs, PCs, DestPCs
<1>1. PICK p \in Paths : Starts(t, p)
  BY <1>0, OneStart
<1> DEFINE none == {}
<1>2. RmPath(p) /\ Return(t, "rm", none) /\ "rm" # "idle"
  BY <1>1 DEF Starts, Rm
<1> HIDE DEF none
<1>3. Frame(t) /\ Calmer /\ (Idle(p)' => Post(t))
  BY <1>1, <1>2, OneReturn
<1>4. Foreign(t) /\ \A x \in Paths : Keeps(x)
  BY <1>0, <1>2, <1>3, RmPathThins, AllKept
<1>5. ASSUME t \notin suspect PROVE Idle(p)'
  <2>1. Sole(p) /\ Absent(p)
    BY <1>0, <1>1, <1>5 DEF Starts
  <2>2. FreshPath(p)' = {}
    BY <1>0, <1>2, <1>3, <2>1, RmPathThins
  <2>3. Sole(p)' /\ Absent(p)'
    BY <1>4, <2>1, KeptClaims
  <2> QED
    BY <2>2, <2>3 DEF Idle, Right
<1> QED
  BY <1>3, <1>4, <1>5 DEF Held

-------------------------------------------------------------------------------
(***************************************************************************)
(* irodsRename, and the last step of irodsMkdir.                           *)
(***************************************************************************)
\* irodsRename has two paths.
TwoStarts(t, p, d) ==
  /\ p = path[t] /\ d = dest[t] /\ p # d /\ PathsOf(t) = {p, d} /\ todo[t] = {}
  /\ t \notin suspect =>
       /\ Sole(p) /\ Sole(d) /\ Absent(p) /\ Local(t, p, d)
       /\ pc[t] \in LatePCs \/ Right(p)
       /\ pc[t] \in {"renameAgain", "renameRmTo"} \/ Right(d)
       /\ pc[t] \notin WaitPCs \/ Absent(d)

LEMMA TwoStart ==
  ASSUME NEW t \in Threads, Ready(t), pc[t] \in DestPCs \cup {"rmNon"}, dest[t] # NoPath
  PROVE  \E p, d \in Paths : TwoStarts(t, p, d)
<1>0. ThreadInv /\ ThreadType /\ Form(t) /\ NoPath \notin Paths
  BY PathCacheAssumption DEF PathCacheAssumption, Ready, Base, ThreadInv
<1>1. path[t] \in Paths /\ dest[t] \in Paths /\ dest[t] # path[t] /\ todo[t] = {}
  <2>1. pc[t] \in PathPCs
    BY DEF DestPCs, PathPCs, PCs
  <2>2. path[t] \in Paths
    BY <1>0, <2>1, PathIn
  <2> QED
    BY <1>0, <2>2 DEF ThreadType, Form, DestPCs
<1>2. PICK p \in Paths, d \in Paths : p = path[t] /\ d = dest[t]
  BY <1>1
<1>3. PathsOf(t) = {p, d}
  BY <1>0, <1>1, <1>2 DEF PathsOf
<1>4. ASSUME t \notin suspect
      PROVE  /\ Sole(p) /\ Sole(d) /\ Absent(p) /\ Local(t, p, d)
             /\ pc[t] \in LatePCs \/ Right(p)
             /\ pc[t] \in {"renameAgain", "renameRmTo"} \/ Right(d)
             /\ pc[t] \notin WaitPCs \/ Absent(d)
  <2>1. Own(t)
    BY <1>4 DEF Ready
  <2>2. /\ ~NonOff(t, p) /\ (NonOff(t, d) => pc[t] \notin WaitPCs)
        /\ PathOff(t, p) => pc[t] \in LatePCs
        /\ PathOff(t, d) => pc[t] \in {"renameAgain", "renameRmTo"}
    BY <1>1, <1>2 DEF NonOff, PathOff, DestPCs, WaitPCs, LatePCs
  <2>3. Local(t, p, d)
    BY <1>2, <2>1 DEF Own, Knows
  <2> QED
    BY <1>3, <2>1, <2>2, <2>3 DEF Own, Claims
<1> QED
  BY <1>1, <1>2, <1>3, <1>4 DEF TwoStarts

LEMMA TwoMove ==
  ASSUME NEW t \in Threads, Ready(t), NEW p \in Paths, NEW d \in Paths, TwoStarts(t, p, d),
         NEW from, from \in DestPCs, NEW to, to \in LatePCs \cup {"rmNon"},
         NEW S, NEW M, StepWith(t, from, to, S, M), UNCHANGED <<path, dest, todo, stbuf>>
  PROVE  /\ Frame(t) /\ Calmer /\ \A x \in S \cap Paths : calm'[x] = 0
         /\ pc'[t] = to
         /\ /\ Sole(p)' /\ Sole(d)' /\ Absent(p)' /\ Local(t, p, d)'
            /\ to # "rmNon" \/ Right(p)'
            /\ to = "renameRmTo" \/ Right(d)'
            => Post(t)
<1>0. Within(from, to)
  BY DEF Within, DestPCs, LatePCs
<1>1. /\ Frame(t) /\ Calmer /\ \A x \in S \cap Paths : calm'[x] = 0
      /\ pc'[t] = to /\ todo'[t] = {}
  BY <1>0, MoveFrame DEF Ready, Base
<1>2. path'[t] = p /\ dest'[t] = d /\ PathsOf(t) = {p, d}
  BY DEF TwoStarts
<1>3. /\ to # "rmNon" => PathOff(t, p)'
      /\ to = "renameRmTo" => PathOff(t, d)'
      /\ NonOff(t, d)'
  BY <1>1, <1>2 DEF PathOff, NonOff, DestPCs, LatePCs
<1>4. ASSUME /\ Sole(p)' /\ Sole(d)' /\ Absent(p)' /\ Local(t, p, d)'
             /\ to # "rmNon" \/ Right(p)'
             /\ to = "renameRmTo" \/ Right(d)'
      PROVE  Post(t)
  <2>1. Knows(t)'
    <3> SUFFICES ASSUME NEW x \in Paths, NEW y \in Paths \cup {NoPath},
                        x = path'[t], y = dest'[t]
                 PROVE  Local(t, x, y)'
      BY DEF Knows
    <3> QED
      BY <1>2, <1>4
  <2>2. Listed(t)'
    BY <1>1 DEF Listed
  <2> QED
    BY <1>2, <1>3, <1>4, <2>1, <2>2 DEF Post
<1> QED
  BY <1>1, <1>4

LEMMA TwoReturn ==
  ASSUME NEW t \in Threads, Ready(t), NEW p \in Paths, NEW d \in Paths, TwoStarts(t, p, d),
         NEW from, from # "idle", NEW S, Return(t, from, S)
  PROVE  /\ Frame(t) /\ Calmer /\ \A x \in S \cap Paths : calm'[x] = 0
         /\ Idle(p)' /\ Idle(d)' => Post(t)
<1>1. /\ Frame(t) /\ Calmer /\ \A x \in S \cap Paths : calm'[x] = 0
      /\ (\A x \in PathsOf(t) : Idle(x)') => Post(t)
  BY ReturnFrame DEF Ready, Base
<1> QED
  BY <1>1 DEF TwoStarts

LEMMA RenameStart ==
  ASSUME NEW t \in Threads, Ready(t), pc[t] \in DestPCs
  PROVE  /\ \E p, d \in Paths : TwoStarts(t, p, d)
         /\ CacheInv /\ CacheInv' /\ HistInv /\ SrvInv /\ ThreadType
<1>1. dest[t] # NoPath
  BY DestIn, PathCacheAssumption DEF PathCacheAssumption, Ready, Base
<1> QED
  BY <1>1, TwoStart DEF Ready, Base, ThreadInv

\* Before the server has renamed, nothing is out of date but what a handler that has
\* unlinked the destination knows.
LEMMA TwoWait ==
  ASSUME NEW t \in Threads, Ready(t), NEW p \in Paths, NEW d \in Paths, TwoStarts(t, p, d),
         NEW from, from \in DestPCs, NEW to, to \in {"renameUnlink", "renameAgain"},
         NEW S, NEW M, StepWith(t, from, to, S, M), UNCHANGED <<path, dest, todo, stbuf>>
  PROVE  /\ Frame(t) /\ Calmer /\ pc'[t] = to
         /\ /\ Sole(p)' /\ Sole(d)' /\ Right(p)' /\ Absent(p)' /\ Absent(d)'
            /\ Local(t, p, d)'
            /\ to = "renameAgain" \/ Right(d)'
            => Post(t)
<1>0. Within(from, to)
  BY DEF Within, DestPCs
<1>1. Frame(t) /\ Calmer /\ pc'[t] = to /\ todo'[t] = {}
  BY <1>0, MoveFrame DEF Ready, Base
<1>2. path'[t] = p /\ dest'[t] = d /\ PathsOf(t) = {p, d}
  BY DEF TwoStarts
<1>3. to = "renameAgain" => PathOff(t, d)'
  BY <1>1, <1>2 DEF PathOff
<1>4. ASSUME /\ Sole(p)' /\ Sole(d)' /\ Right(p)' /\ Absent(p)' /\ Absent(d)'
             /\ Local(t, p, d)'
             /\ to = "renameAgain" \/ Right(d)'
      PROVE  Post(t)
  <2>1. Knows(t)'
    <3> SUFFICES ASSUME NEW x \in Paths, NEW y \in Paths \cup {NoPath},
                        x = path'[t], y = dest'[t]
                 PROVE  Local(t, x, y)'
      BY DEF Knows
    <3> QED
      BY <1>2, <1>4
  <2>2. Listed(t)'
    BY <1>1 DEF Listed
  <2> QED
    BY <1>2, <1>3, <1>4, <2>1, <2>2 DEF Post
<1> QED
  BY <1>1, <1>4

\* irodsRename returns without having renamed anything; if the destination is gone
\* its path is doubted.
LEMMA RenameFailsHeld ==
  ASSUME NEW t \in Threads, Ready(t), NEW p \in Paths, NEW d \in Paths, TwoStarts(t, p, d),
         pc[t] \in {"rename", "renameAgain"}, NEW S, Return(t, pc[t], S),
         pc[t] = "renameAgain" /\ server[d] = 0 => d \in S,
         UNCHANGED srvVars, UNCHANGED cacheVars
  PROVE  Held(t)
<1>0. CacheInv /\ CacheInv' /\ HistInv /\ pc[t] # "idle"
  BY DEF Ready, Base, ThreadInv
<1>1. /\ Frame(t) /\ Calmer /\ (Idle(p)' /\ Idle(d)' => Post(t))
      /\ \A x \in S \cap Paths : calm'[x] = 0
  BY <1>0, TwoReturn
<1>2. Foreign(t) /\ \A x \in Paths : Keeps(x)
  BY <1>0, <1>1, SameThins, AllKept
<1>3. ASSUME t \notin suspect PROVE Idle(p)' /\ Idle(d)'
  <2>1. /\ Sole(p) /\ Right(p) /\ Absent(p) /\ Sole(d) /\ Absent(d)
        /\ pc[t] = "renameAgain" => server[d] = 0 \/ Right(d)
        /\ pc[t] = "rename" => Right(d)
    BY <1>3 DEF TwoStarts, Local, WaitPCs, LatePCs
  <2>2. CASE d \in S
    BY <1>0, <1>1, <1>2, <2>1, <2>2, DoubtedIdle, KeptIdle DEF Idle
  <2>3. CASE d \notin S
    BY <1>2, <2>1, <2>3, KeptIdle DEF Idle
  <2> QED
    BY <2>2, <2>3
<1> QED
  BY <1>1, <1>2, <1>3 DEF Held

LEMMA RenamedHeld ==
  ASSUME NEW t \in Threads, Ready(t), NEW from, from \in {"rename", "renameAgain"},
         pc[t] = from, Renamed(t, from)
  PROVE  Held(t)
<1>0. from \in DestPCs /\ "renameRmTo" \in LatePCs /\ pc[t] \in DestPCs
  BY DEF DestPCs, LatePCs
<1>1. CacheInv /\ CacheInv' /\ HistInv /\ SrvInv /\ ThreadType
  BY <1>0, RenameStart
<1>2. PICK p \in Paths, d \in Paths : TwoStarts(t, p, d)
  BY <1>0, RenameStart
<1>3. p = path[t] /\ d = dest[t] /\ p # d /\ PathsOf(t) = {p, d}
  BY <1>2 DEF TwoStarts
<1>4. /\ server'[d] = server[p] /\ server[p] # 0 /\ creating' = creating
      /\ \A x \in Paths \ {p, d} : server'[x] = server[x]
      /\ UNCHANGED cacheVars
  BY <1>1, <1>3 DEF SrvInv, Renamed
<1>5. Calmer => Foreign(t) /\ \A x \in Paths : Thins(x)
  <2>1. Calmer => \A x \in Paths : Thins(x)
    BY <1>1, <1>4, SameThins
  <2> QED
    BY <1>3, <1>4, <2>1 DEF Foreign, Keeps
<1>6. CASE Step(t, from, "renameRmTo") /\ UNCHANGED locals
  <2> DEFINE none == {}
  <2>1. StepWith(t, from, "renameRmTo", none, none) /\ UNCHANGED <<path, dest, todo, stbuf>>
    BY <1>6 DEF Step, locals
  <2> HIDE DEF none
  <2>2. /\ Frame(t) /\ Calmer /\ pc'[t] = "renameRmTo"
        /\ /\ Sole(p)' /\ Sole(d)' /\ Absent(p)' /\ Local(t, p, d)'
           /\ "renameRmTo" # "rmNon" \/ Right(p)'
           /\ "renameRmTo" = "renameRmTo" \/ Right(d)'
           => Post(t)
    BY <1>0, <1>2, <2>1, TwoMove
  <2>3. Foreign(t) /\ \A x \in Paths : Thins(x)
    BY <1>5, <2>2
  <2>4. ASSUME t \notin suspect PROVE Post(t)
    <3>1. Sole(p) /\ Sole(d) /\ Absent(p) /\ Right(p) /\ p \notin creating
      BY <1>2, <2>4 DEF TwoStarts, Local, WaitPCs, LatePCs
    <3>2. Sole(p)' /\ Sole(d)'
      BY <2>3, <3>1, ShrunkSole DEF Thins
    <3>3. FreshNon(p)' = {}
      BY <1>4, <2>3, <3>1 DEF Absent, Thins, Shrinks
    <3>4. \A e \in FreshPath(p)' : entry'[e].ver = server'[d]
      BY <1>4, <2>3, <3>1 DEF Right, Thins, Shrinks
    <3>5. Local(t, p, d)'
      BY <2>2, <3>3, <3>4 DEF Local, WaitPCs
    <3> QED
      BY <2>2, <3>2, <3>3, <3>5 DEF Absent
  <2> QED
    BY <2>2, <2>3, <2>4 DEF Held
<1>7. CASE Return(t, from, PathsOf(t))
  <2> DEFINE S == PathsOf(t)
  <2>1. Return(t, from, S) /\ p \in S \cap Paths /\ d \in S \cap Paths /\ from # "idle"
    BY <1>3, <1>7
  <2> HIDE DEF S
  <2>2. Frame(t) /\ Calmer /\ (Idle(p)' /\ Idle(d)' => Post(t)) /\ calm'[p] = 0 /\ calm'[d] = 0
    BY <1>2, <2>1, TwoReturn
  <2>3. Idle(p)' /\ Idle(d)'
    BY <1>1, <2>2, DoubtedIdle
  <2> QED
    BY <1>5, <2>2, <2>3 DEF Held
<1> QED
  BY <1>6, <1>7 DEF Renamed

LEMMA RenameServerHeld ==
  ASSUME NEW t \in Threads, Ready(t), RenameServer(t)
  PROVE  Held(t)
<1>0. /\ pc[t] = "rename" /\ "rename" \in DestPCs /\ pc[t] \in {"rename", "renameAgain"}
      /\ "renameUnlink" \in {"renameUnlink", "renameAgain"}
  BY DEF RenameServer, At, DestPCs
<1>1. CacheInv /\ CacheInv' /\ HistInv
  BY <1>0, RenameStart
<1>2. PICK p \in Paths, d \in Paths : TwoStarts(t, p, d)
  BY <1>0, RenameStart
<1> DEFINE none == {}
<1>3. CASE Refused(t, "rename", server[path[t]] # 0 /\ server[dest[t]] = 0)
  <2>1. Return(t, pc[t], none) /\ UNCHANGED srvVars /\ UNCHANGED cacheVars
    BY <1>0, <1>3 DEF Refused
  <2> HIDE DEF none
  <2> QED
    BY <1>0, <1>2, <2>1, RenameFailsHeld
<1>4. CASE Step(t, "rename", "renameUnlink") /\ UNCHANGED <<srvVars, cacheVars, locals>>
  <2>1. /\ StepWith(t, "rename", "renameUnlink", none, none) /\ UNCHANGED srvVars
        /\ UNCHANGED <<path, dest, todo, stbuf>> /\ UNCHANGED cacheVars
    BY <1>4 DEF Step, locals
  <2> HIDE DEF none
  <2>2. /\ Frame(t) /\ Calmer /\ pc'[t] = "renameUnlink"
        /\ /\ Sole(p)' /\ Sole(d)' /\ Right(p)' /\ Absent(p)' /\ Absent(d)'
           /\ Local(t, p, d)'
           /\ "renameUnlink" = "renameAgain" \/ Right(d)'
           => Post(t)
    BY <1>0, <1>2, <2>1, TwoWait
  <2>3. Foreign(t) /\ \A x \in Paths : Keeps(x)
    BY <1>1, <2>1, <2>2, SameThins, AllKept
  <2>4. ASSUME t \notin suspect PROVE Post(t)
    <3>1. /\ Sole(p) /\ Sole(d) /\ Right(p) /\ Right(d) /\ Absent(p) /\ Absent(d)
          /\ p \notin creating
      BY <1>0, <1>2, <2>4 DEF TwoStarts, Local, WaitPCs, LatePCs
    <3>2. p \notin creating'
      BY <2>1, <3>1 DEF srvVars
    <3>3. Local(t, p, d)'
      BY <2>2, <3>2 DEF Local
    <3> QED
      BY <2>2, <2>3, <3>1, <3>3, KeptClaims
  <2> QED
    BY <2>2, <2>3, <2>4 DEF Held
<1> QED
  BY <1>0, <1>3, <1>4, RenamedHeld DEF RenameServer

LEMMA RenameUnlinkHeld ==
  ASSUME NEW t \in Threads, Ready(t), RenameUnlink(t)
  PROVE  Held(t)
<1>0. /\ pc[t] = "renameUnlink" /\ "renameUnlink" \in DestPCs
      /\ "renameAgain" \in {"renameUnlink", "renameAgain"}
  BY DEF RenameUnlink, Step, StepWith, Goto, At, DestPCs
<1>1. CacheInv /\ CacheInv' /\ HistInv /\ SrvInv
  BY <1>0, RenameStart
<1>2. PICK p \in Paths, d \in Paths : TwoStarts(t, p, d)
  BY <1>0, RenameStart
<1>3. d = dest[t] /\ p # d /\ PathsOf(t) = {p, d}
  BY <1>2 DEF TwoStarts
<1> DEFINE none == {}
<1>4. /\ StepWith(t, "renameUnlink", "renameAgain", none, none)
      /\ UNCHANGED <<path, dest, todo, stbuf>> /\ UNCHANGED cacheVars
  BY DEF RenameUnlink, Step, locals
<1> HIDE DEF none
<1>5. /\ creating' = creating /\ \A x \in Paths \ {d} : server'[x] = server[x]
      /\ server'[d] = server[d] \/ server'[d] = 0
  BY <1>1, <1>3 DEF RenameUnlink, SrvInv
<1>6. /\ Frame(t) /\ Calmer /\ pc'[t] = "renameAgain"
      /\ /\ Sole(p)' /\ Sole(d)' /\ Right(p)' /\ Absent(p)' /\ Absent(d)'
         /\ Local(t, p, d)'
         /\ "renameAgain" = "renameAgain" \/ Right(d)'
         => Post(t)
  BY <1>0, <1>2, <1>4, TwoWait
<1>7. (\A x \in Paths : Thins(x)) /\ (\A x \in Paths \ {d} : Keeps(x)) /\ Foreign(t)
  <2>1. \A x \in Paths : Thins(x)
    BY <1>1, <1>4, <1>6, SameThins
  <2> QED
    BY <1>3, <1>5, <2>1 DEF Keeps, Foreign
<1>8. ASSUME t \notin suspect PROVE Post(t)
  <2>1. /\ Sole(p) /\ Sole(d) /\ Right(p) /\ Right(d) /\ Absent(p) /\ Absent(d)
        /\ p \notin creating
    BY <1>0, <1>2, <1>8 DEF TwoStarts, Local, WaitPCs, LatePCs
  <2>2. Sole(p)' /\ Right(p)' /\ Absent(p)'
    BY <1>3, <1>7, <2>1, KeptClaims
  <2>3. Sole(d)' /\ Absent(d)'
    BY <1>5, <1>7, <2>1, ShrunkSole DEF Absent, Thins, Shrinks
  <2>4. server'[d] = 0 \/ Right(d)'
    <3>1. CASE server'[d] = server[d]
      <4>1. Keeps(d)
        BY <1>5, <1>7, <3>1 DEF Keeps
      <4> QED
        BY <2>1, <4>1, KeptClaims
    <3> QED
      BY <1>5, <3>1
  <2>5. Local(t, p, d)'
    BY <1>5, <1>6, <2>1, <2>4 DEF Local
  <2> QED
    BY <1>6, <2>2, <2>3, <2>5
<1> QED
  BY <1>6, <1>7, <1>8 DEF Held

LEMMA RenameAgainHeld ==
  ASSUME NEW t \in Threads, Ready(t), RenameAgain(t)
  PROVE  Held(t)
<1>0. /\ pc[t] = "renameAgain" /\ pc[t] \in DestPCs /\ pc[t] \in {"rename", "renameAgain"}
  BY DEF RenameAgain, At, DestPCs
<1>1. PICK p \in Paths, d \in Paths : TwoStarts(t, p, d)
  BY <1>0, RenameStart
<1>2. d = dest[t]
  BY <1>1 DEF TwoStarts
<1> DEFINE S == IF server[d] = 0 THEN {d} ELSE {}
<1>3. CASE Return(t, pc[t], S) /\ UNCHANGED srvVars /\ UNCHANGED cacheVars
  <2>1. pc[t] = "renameAgain" /\ server[d] = 0 => d \in S
    OBVIOUS
  <2> HIDE DEF S
  <2> QED
    BY <1>0, <1>1, <1>3, <2>1, RenameFailsHeld
<1> QED
  BY <1>0, <1>2, <1>3, RenamedHeld DEF RenameAgain

LEMMA RenameRmToHeld ==
  ASSUME NEW t \in Threads, Ready(t), RenameRmTo(t)
  PROVE  Held(t)
<1>0. /\ pc[t] = "renameRmTo" /\ "renameRmTo" \in DestPCs
      /\ "renameMatch" \in LatePCs /\ UNCHANGED srvVars
  BY DEF RenameRmTo, Step, StepWith, Goto, At, DestPCs, LatePCs
<1>1. CacheInv /\ CacheInv' /\ HistInv
  BY <1>0, RenameStart
<1>2. PICK p \in Paths, d \in Paths : TwoStarts(t, p, d)
  BY <1>0, RenameStart
<1> DEFINE none == {}
<1>3. /\ StepWith(t, "renameRmTo", "renameMatch", none, none)
      /\ UNCHANGED <<path, dest, todo, stbuf>> /\ RmPath(d)
  BY <1>2 DEF RenameRmTo, Step, locals, TwoStarts
<1> HIDE DEF none
<1>4. /\ Frame(t) /\ Calmer /\ pc'[t] = "renameMatch"
      /\ /\ Sole(p)' /\ Sole(d)' /\ Absent(p)' /\ Local(t, p, d)'
         /\ "renameMatch" # "rmNon" \/ Right(p)'
         /\ "renameMatch" = "renameRmTo" \/ Right(d)'
         => Post(t)
  BY <1>0, <1>2, <1>3, TwoMove
<1>5. Foreign(t) /\ \A x \in Paths : Keeps(x)
  BY <1>0, <1>1, <1>3, <1>4, RmPathThins, AllKept
<1>6. ASSUME t \notin suspect PROVE Post(t)
  <2>1. /\ Sole(p) /\ Sole(d) /\ Absent(p) /\ FreshNon(p) = {}
        /\ \A e \in FreshPath(p) : entry[e].ver = server[d]
    BY <1>0, <1>2, <1>6 DEF TwoStarts, Local
  <2>2. Sole(p)' /\ Sole(d)' /\ Absent(p)'
    BY <1>5, <2>1, KeptClaims
  <2>3. FreshPath(d)' = {}
    BY <1>1, <1>3, <1>4, <2>1, RmPathThins
  <2>4. FreshNon(p)' = {} /\ \A e \in FreshPath(p)' : entry'[e].ver = server'[d]
    BY <1>5, <2>1 DEF Keeps, Thins, Shrinks
  <2>5. Local(t, p, d)'
    BY <1>4, <2>4 DEF Local
  <2> QED
    BY <1>4, <2>2, <2>3, <2>5 DEF Right
<1> QED
  BY <1>4, <1>5, <1>6 DEF Held

LEMMA RenameMatchHeld ==
  ASSUME NEW t \in Threads, Ready(t), RenameMatch(t)
  PROVE  Held(t)
<1>0. /\ pc[t] = "renameMatch" /\ "renameMatch" \in DestPCs /\ UNCHANGED srvVars
      /\ ExpirePath
  BY DEF RenameMatch, Step, StepWith, Goto, At, DestPCs
<1>1. CacheInv /\ CacheInv' /\ HistInv
  BY <1>0, RenameStart
<1>2. PICK p \in Paths, d \in Paths : TwoStarts(t, p, d)
  BY <1>0, RenameStart
<1> DEFINE none == {}
           to == IF Match(p) = NoEntry THEN "rmNon" ELSE "renameAdd"
<1>3. /\ StepWith(t, "renameMatch", to, none, none)
      /\ UNCHANGED <<path, dest, todo, stbuf>>
      /\ to \in LatePCs \cup {"rmNon"}
      /\ to \in {"rmNon", "renameAdd"} /\ (to = "rmNon" => Match(p) = NoEntry)
  BY <1>2 DEF RenameMatch, Step, TwoStarts, DestPCs, LatePCs
<1> HIDE DEF none, to
<1>4. /\ Frame(t) /\ Calmer /\ pc'[t] = to
      /\ /\ Sole(p)' /\ Sole(d)' /\ Absent(p)' /\ Local(t, p, d)'
         /\ to # "rmNon" \/ Right(p)'
         /\ to = "renameRmTo" \/ Right(d)'
         => Post(t)
  BY <1>0, <1>2, <1>3, TwoMove
<1>5. Foreign(t) /\ \A x \in Paths : Keeps(x)
  BY <1>0, <1>1, <1>4, ExpireThins, AllKept
<1>6. ASSUME t \notin suspect PROVE Post(t)
  <2>1. /\ Sole(p) /\ Sole(d) /\ Absent(p) /\ Right(d) /\ FreshNon(p) = {}
        /\ \A e \in FreshPath(p) : entry[e].ver = server[d]
    BY <1>0, <1>2, <1>6 DEF TwoStarts, Local
  <2>2. Sole(p)' /\ Sole(d)' /\ Absent(p)' /\ Right(d)'
    BY <1>5, <2>1, KeptClaims
  <2>3. to # "rmNon" \/ Right(p)'
    <3>1. ASSUME to = "rmNon" PROVE Right(p)'
      <4>1. PathEntries(p)' = {}
        BY <1>0, <1>1, <1>3, <1>4, <3>1, ExpireThins
      <4> QED
        BY <4>1 DEF Right, FreshPath
    <3> QED
      BY <3>1
  <2>4. FreshNon(p)' = {} /\ \A e \in FreshPath(p)' : entry'[e].ver = server'[d]
    BY <1>5, <2>1 DEF Keeps, Thins, Shrinks
  <2>5. Local(t, p, d)'
    BY <1>3, <1>4, <2>4 DEF Local
  <2> QED
    BY <1>4, <2>2, <2>3, <2>5
<1> QED
  BY <1>4, <1>5, <1>6 DEF Held

LEMMA RenameAddHeld ==
  ASSUME NEW t \in Threads, Ready(t), RenameAdd(t)
  PROVE  Held(t)
<1>0. /\ pc[t] = "renameAdd" /\ "renameAdd" \in DestPCs /\ UNCHANGED srvVars
      /\ "renameRmFrom" \in LatePCs
  BY DEF RenameAdd, StepWith, Goto, At, DestPCs, LatePCs
<1>1. CacheInv /\ CacheInv' /\ HistInv
  BY <1>0, RenameStart
<1>2. PICK p \in Paths, d \in Paths : TwoStarts(t, p, d)
  BY <1>0, RenameStart
<1>3. p = path[t] /\ d = dest[t] /\ p # d /\ PathsOf(t) = {p, d}
  BY <1>2 DEF TwoStarts
<1> DEFINE none == {}
           S == Second(d) \cup (IF Trusted(t) THEN {} ELSE {d})
<1>4. /\ StepWith(t, "renameAdd", "renameRmFrom", S, none)
      /\ UNCHANGED <<path, dest, todo, stbuf>>
      /\ Second(d) \subseteq S /\ (Trusted(t) \/ d \in S)
  BY <1>3 DEF RenameAdd
<1>5. PICK v \in IF Live(ptr[t]) THEN {entry[ptr[t]].ver} ELSE Versions : AddPath(d, v, FALSE)
  BY <1>3 DEF RenameAdd
<1>6. v \in Stats /\ (Trusted(t) => v = entry[ptr[t]].ver)
  <2>1. CASE Live(ptr[t])
    <3>1. ptr[t] \in Entries
      BY <1>1, <2>1 DEF Live, Range, CacheInv, Queue
    <3> QED
      BY <1>1, <1>5, <2>1, <3>1 DEF CacheInv, EntryType
  <2>2. CASE ~Live(ptr[t])
    BY <1>5, <2>2, VersionTypes DEF Trusted
  <2> QED
    BY <2>1, <2>2
<1> HIDE DEF none, S
<1>7. /\ Frame(t) /\ Calmer /\ pc'[t] = "renameRmFrom"
      /\ \A x \in S \cap Paths : calm'[x] = 0
      /\ /\ Sole(p)' /\ Sole(d)' /\ Absent(p)' /\ Local(t, p, d)'
         /\ "renameRmFrom" # "rmNon" \/ Right(p)'
         /\ "renameRmFrom" = "renameRmTo" \/ Right(d)'
         => Post(t)
  BY <1>0, <1>2, <1>4, TwoMove
<1>8. Foreign(t) /\ Keeps(p)
  <2>1. d \in PathsOf(t)
    BY <1>3
  <2> QED
    BY <1>0, <1>1, <1>3, <1>5, <1>6, <1>7, <2>1, AddForeign
<1>9. PathEntries(d) = {} \/ calm'[d] = 0
  BY <1>1, <1>4, <1>7, SecondDoubted
<1>10. ASSUME t \notin suspect PROVE Post(t)
  <2>1. /\ Sole(p) /\ Sole(d) /\ Absent(p) /\ FreshNon(p) = {}
        /\ \A e \in FreshPath(p) : entry[e].ver = server[d]
    BY <1>0, <1>2, <1>10 DEF TwoStarts, Local
  <2>2. Sole(p)' /\ Absent(p)'
    BY <1>8, <2>1, KeptClaims
  <2>3. v = server'[d] \/ calm'[d] = 0
    <3>1. CASE Trusted(t)
      <4> DEFINE e == ptr[t]
      <4>1. Live(e) /\ entry[e].path = p /\ entry[e].age < calm[p]
        BY <1>3, <3>1 DEF Trusted
      <4>2. e \in ToSet(PathArray) \/ e \in ToSet(NonExistPathArray)
        BY <4>1 DEF Live, Range, ToSet
      <4>3. e \in FreshPath(p) \/ e \in FreshNon(p)
        BY <4>1, <4>2 DEF FreshPath, FreshNon, PathEntries, NonEntries
      <4>4. entry[e].ver = server[d]
        BY <2>1, <4>3
      <4> QED
        BY <1>0, <1>6, <3>1, <4>4 DEF srvVars
    <3>2. CASE ~Trusted(t)
      BY <1>4, <1>7, <3>2
    <3> QED
      BY <3>1, <3>2
  <2>4. Sole(d)' /\ Right(d)'
    BY <1>1, <1>5, <1>6, <1>7, <1>9, <2>1, <2>3, AddedRight
  <2>5. Local(t, p, d)'
    BY <1>7 DEF Local
  <2> QED
    BY <1>7, <2>2, <2>4, <2>5
<1> QED
  BY <1>7, <1>8, <1>10 DEF Held

LEMMA RenameRmFromHeld ==
  ASSUME NEW t \in Threads, Ready(t), RenameRmFrom(t)
  PROVE  Held(t)
<1>0. /\ pc[t] = "renameRmFrom" /\ "renameRmFrom" \in DestPCs /\ UNCHANGED srvVars
  BY DEF RenameRmFrom, Step, StepWith, Goto, At, DestPCs
<1>1. CacheInv /\ CacheInv' /\ HistInv
  BY <1>0, RenameStart
<1>2. PICK p \in Paths, d \in Paths : TwoStarts(t, p, d)
  BY <1>0, RenameStart
<1> DEFINE none == {}
<1>3. /\ StepWith(t, "renameRmFrom", "rmNon", none, none)
      /\ UNCHANGED <<path, dest, todo, stbuf>> /\ RmPath(p)
  BY <1>2 DEF RenameRmFrom, Step, locals, TwoStarts
<1> HIDE DEF none
<1>4. /\ Frame(t) /\ Calmer /\ pc'[t] = "rmNon"
      /\ /\ Sole(p)' /\ Sole(d)' /\ Absent(p)' /\ Local(t, p, d)'
         /\ "rmNon" # "rmNon" \/ Right(p)'
         /\ "rmNon" = "renameRmTo" \/ Right(d)'
         => Post(t)
  BY <1>0, <1>2, <1>3, TwoMove
<1>5. Foreign(t) /\ \A x \in Paths : Keeps(x)
  BY <1>0, <1>1, <1>3, <1>4, RmPathThins, AllKept
<1>6. ASSUME t \notin suspect PROVE Post(t)
  <2>1. Sole(p) /\ Sole(d) /\ Absent(p) /\ Right(d)
    BY <1>0, <1>2, <1>6 DEF TwoStarts
  <2>2. Sole(p)' /\ Sole(d)' /\ Absent(p)' /\ Right(d)'
    BY <1>5, <2>1, KeptClaims
  <2>3. FreshPath(p)' = {}
    BY <1>1, <1>3, <1>4, <2>1, RmPathThins
  <2>4. Local(t, p, d)'
    BY <1>4 DEF Local
  <2> QED
    BY <1>4, <2>2, <2>3, <2>4 DEF Right
<1> QED
  BY <1>4, <1>5, <1>6 DEF Held

\* The end of irodsMkdir, and of irodsRename.
LEMMA RmNonHeld ==
  ASSUME NEW t \in Threads, Ready(t), RmNon(t)
  PROVE  Held(t)
<1> DEFINE none == {}
<1>0. /\ pc[t] = "rmNon" /\ CacheInv /\ HistInv /\ UNCHANGED srvVars /\ ThreadInv
      /\ Return(t, "rmNon", none) /\ "rmNon" # "idle" /\ NoPath \notin Paths
      /\ RmNonExist(IF dest[t] = NoPath THEN path[t] ELSE dest[t])
  BY PathCacheAssumption DEF PathCacheAssumption, RmNon, At, Ready, Base, ThreadInv
<1> HIDE DEF none
<1>1. /\ Frame(t) /\ Calmer /\ ((\A x \in PathsOf(t) : Idle(x)') => Post(t))
  BY <1>0, ReturnFrame
<1>2. Foreign(t) /\ \A x \in Paths : Keeps(x)
  BY <1>0, <1>1, RmNonThins, AllKept
<1>3. CASE dest[t] = NoPath /\ t \notin suspect
  <2>1. path[t] \in Paths /\ PathsOf(t) = {path[t]}
    <3>1. pc[t] \in PathPCs
      BY <1>0 DEF PathPCs, PCs
    <3>2. path[t] \in Paths
      BY <1>0, <3>1, PathIn
    <3> QED
      BY <1>0, <1>3, <3>2 DEF Ready, Form, PathsOf
  <2>2. PICK p \in Paths : p = path[t] /\ PathsOf(t) = {p} /\ RmNonExist(p)
    BY <1>0, <1>3, <2>1
  <2>3. Sole(p) /\ Right(p)
    <3>1. ~PathOff(t, p)
      BY <1>0 DEF PathOff
    <3> QED
      BY <1>3, <2>2, <3>1 DEF Ready, Own, Claims
  <2>4. Sole(p)' /\ Right(p)'
    BY <1>2, <2>3, KeptClaims
  <2>5. FreshNon(p)' = {}
    BY <1>0, <1>1, <2>2, <2>3, RmNonThins
  <2>6. Idle(p)'
    BY <2>4, <2>5 DEF Idle, Absent
  <2> QED
    BY <1>1, <1>2, <2>2, <2>6 DEF Held
<1>4. CASE dest[t] # NoPath /\ t \notin suspect
  <2>1. PICK p \in Paths, d \in Paths : TwoStarts(t, p, d)
    BY <1>0, <1>4, TwoStart
  <2>2. Sole(p) /\ Sole(d) /\ Absent(p) /\ Right(p) /\ Right(d)
    BY <1>0, <1>4, <2>1 DEF TwoStarts, LatePCs
  <2>3. Sole(p)' /\ Sole(d)' /\ Absent(p)' /\ Right(p)' /\ Right(d)'
    BY <1>2, <2>2, KeptClaims
  <2>4. RmNonExist(d) /\ PathsOf(t) = {p, d}
    BY <1>0, <1>4, <2>1 DEF TwoStarts
  <2>5. FreshNon(d)' = {}
    BY <1>0, <1>1, <2>2, <2>4, RmNonThins
  <2>6. Idle(p)' /\ Idle(d)'
    BY <2>3, <2>5 DEF Idle, Absent
  <2> QED
    BY <1>1, <1>2, <2>4, <2>6 DEF Held
<1> QED
  BY <1>1, <1>2, <1>3, <1>4 DEF Held

-------------------------------------------------------------------------------
(***************************************************************************)
(* irodsTruncate, irodsChmod, irodsOpen and ifuseClose.                    *)
(***************************************************************************)
\* A step that only removes entries, to a place about which nothing is known.
LEMMA PlainHeld ==
  ASSUME NEW t \in Threads, Ready(t), NEW p \in Paths, Starts(t, p), pc[t] \notin OffPCs,
         NEW from \in OnePCs, NEW to \in PlainPCs, Step(t, from, to),
         UNCHANGED <<path, dest, todo>>, \A u \in Threads \ {t} : stbuf'[u] = stbuf[u],
         UNCHANGED srvVars, Calmer => \A x \in Paths : Thins(x)
  PROVE  Held(t)
<1> DEFINE none == {}
<1>1. StepWith(t, from, to, none, none)
  BY DEF Step
<1>2. Within(from, to)
  BY DEF Within, OnePCs, PlainPCs, PathPCs
<1> HIDE DEF none
<1>3. /\ Frame(t) /\ Calmer /\ pc'[t] = to
      /\ /\ Sole(p)' /\ Local(t, p, NoPath)'
         /\ to \in OffPCs \/ Right(p)'
         /\ to \in {"mkdirAdd", "rmNon"} \/ Absent(p)'
         => Post(t)
  BY <1>1, <1>2, OneMove
<1>4. Local(t, p, NoPath)'
  BY <1>3, PlainLocal
<1>5. Foreign(t) /\ \A x \in Paths : Keeps(x)
  BY <1>3, AllKept
<1>6. t \notin suspect => Idle(p)
  BY DEF Starts, OffPCs, Idle
<1> QED
  BY <1>3, <1>4, <1>5, <1>6, KeptIdle DEF Held, Idle

LEMMA TruncMatchHeld ==
  ASSUME NEW t \in Threads, Ready(t), TruncMatch(t)
  PROVE  Held(t)
<1>0. /\ pc[t] = "truncMatch" /\ "truncMatch" \in OnePCs /\ "truncMatch" \notin OffPCs
      /\ CacheInv /\ HistInv /\ UNCHANGED srvVars /\ ExpirePath
      /\ UNCHANGED <<path, dest, todo>> /\ stbuf' = stbuf
  BY DEF TruncMatch, Step, StepWith, Goto, At, Ready, Base, ThreadInv, OnePCs, PathPCs, PCs,
         DestPCs, OffPCs
<1>1. PICK p \in Paths : Starts(t, p)
  BY <1>0, OneStart
<1>2. PICK to \in PlainPCs : Step(t, "truncMatch", to)
  BY DEF TruncMatch, PlainPCs
<1>3. Calmer => \A x \in Paths : Thins(x)
  BY <1>0, ExpireThins
<1> QED
  BY <1>0, <1>1, <1>2, <1>3, PlainHeld

LEMMA OpenHeld ==
  ASSUME NEW t \in Threads, Ready(t), Open(t)
  PROVE  Held(t)
<1>0. /\ pc[t] = "open" /\ "open" \in OnePCs /\ "open" \notin OffPCs /\ CacheInv /\ HistInv
      /\ UNCHANGED srvVars /\ UNCHANGED cacheVars /\ "openRmNon" \in PlainPCs /\ "open" # "idle"
  BY DEF Open, Refused, At, Ready, Base, ThreadInv, OnePCs, PathPCs, PCs, DestPCs, OffPCs,
         PlainPCs
<1>1. PICK p \in Paths : Starts(t, p)
  BY <1>0, OneStart
<1>2. CASE Refused(t, "open", server[path[t]] # 0)
  BY <1>0, <1>1, <1>2, LeaveHeld DEF Refused
<1>3. CASE Step(t, "open", "openRmNon") /\ UNCHANGED locals
  <2>1. UNCHANGED <<path, dest, todo>> /\ \A u \in Threads \ {t} : stbuf'[u] = stbuf[u]
    BY <1>3 DEF locals
  <2>2. Calmer => \A x \in Paths : Thins(x)
    BY <1>0, SameThins
  <2> QED
    BY <1>0, <1>1, <1>3, <2>1, <2>2, PlainHeld
<1> QED
  BY <1>2, <1>3 DEF Open

LEMMA OpenRmNonHeld ==
  ASSUME NEW t \in Threads, Ready(t), OpenRmNon(t)
  PROVE  Held(t)
<1>0. /\ pc[t] = "openRmNon" /\ "openRmNon" \in OnePCs /\ "openRmNon" \notin OffPCs
      /\ CacheInv /\ HistInv /\ UNCHANGED srvVars /\ "write" \in PlainPCs
      /\ Step(t, "openRmNon", "write")
  BY DEF OpenRmNon, Step, StepWith, Goto, At, Ready, Base, ThreadInv, OnePCs, PathPCs, PCs,
         DestPCs, OffPCs, PlainPCs
<1>1. PICK p \in Paths : Starts(t, p)
  BY <1>0, OneStart
<1>2. RmNonExist(p)
  BY <1>1 DEF OpenRmNon, Starts
<1>3. UNCHANGED <<path, dest, todo>> /\ \A u \in Threads \ {t} : stbuf'[u] = stbuf[u]
  BY DEF OpenRmNon, locals
<1>4. Calmer => \A x \in Paths : Thins(x)
  BY <1>0, <1>2, RmNonThins
<1> QED
  BY <1>0, <1>1, <1>3, <1>4, PlainHeld

LEMMA WriteHeld ==
  ASSUME NEW t \in Threads, Ready(t), Write(t)
  PROVE  Held(t)
<1>0. /\ pc[t] = "write" /\ "write" \in OnePCs /\ pc[t] \notin OffPCs /\ "write" # "idle"
      /\ Within("write", "rm") /\ "rm" \in OffPCs
  BY DEF Write, At, OnePCs, PathPCs, PCs, DestPCs, OffPCs, Within
<1>1. PICK p \in Paths : Starts(t, p)
  BY <1>0, OneStart
<1>2. p = path[t]
  BY <1>1 DEF Starts
<1>3. CASE Return(t, "write", {}) /\ UNCHANGED <<srvVars, cacheVars>>
  BY <1>0, <1>1, <1>3, LeaveHeld
<1>4. ASSUME NEW v \in Versions, ServerSet(path[t], v), server[path[t]] # 0,
             Step(t, "write", "rm"), UNCHANGED <<cacheVars, locals>>
      PROVE  Held(t)
  <2>1. /\ ServerSet(p, v) /\ UNCHANGED <<path, dest, todo>> /\ server[p] # 0
        /\ UNCHANGED cacheVars /\ \A u \in Threads \ {t} : stbuf'[u] = stbuf[u]
    BY <1>2, <1>4 DEF locals
  <2> QED
    BY <1>0, <1>1, <1>4, <2>1, RequestHeld
<1> QED
  BY <1>3, <1>4 DEF Write

LEMMA ChangeServerHeld ==
  ASSUME NEW t \in Threads, Ready(t), ChangeServer(t)
  PROVE  Held(t)
<1>0. /\ pc[t] = "change" /\ pc[t] \in OnePCs /\ pc[t] \notin OffPCs /\ "change" # "idle"
      /\ Within("change", "changeMatch") /\ "changeMatch" \in OffPCs /\ ThreadType
  BY DEF ChangeServer, At, OnePCs, PathPCs, PCs, DestPCs, OffPCs, Within, Ready, Base,
         ThreadInv
<1>1. PICK p \in Paths : Starts(t, p)
  BY <1>0, OneStart
<1>2. p = path[t]
  BY <1>1 DEF Starts
<1>3. CASE Refused(t, "change", server[path[t]] # 0)
  BY <1>0, <1>1, <1>3, LeaveHeld DEF Refused
<1>4. ASSUME NEW v \in Versions, ServerSet(path[t], v), UNCHANGED cacheVars,
             server[path[t]] # 0, Step(t, "change", "changeMatch"), SetStat(t, v),
             UNCHANGED <<path, dest, ptrVars, caller, todo>>
      PROVE  Held(t)
  <2>1. /\ ServerSet(p, v) /\ UNCHANGED <<path, dest, todo>> /\ stbuf'[t][p] = v
        /\ server[p] # 0 /\ \A u \in Threads \ {t} : stbuf'[u] = stbuf[u]
    BY <1>0, <1>2, <1>4 DEF SetStat, ThreadType
  <2> QED
    BY <1>0, <1>1, <1>4, <2>1, RequestHeld
<1>5. ASSUME NEW v \in Versions, ServerSet(path[t], v), UNCHANGED cacheVars,
             Return(t, "change", {path[t]})
      PROVE  Held(t)
  <2>1. ServerSet(p, v) /\ Return(t, "change", {p})
    BY <1>2, <1>5
  <2> QED
    BY <1>0, <1>1, <1>5, <2>1, LostHeld
<1> QED
  BY <1>3, <1>4, <1>5 DEF ChangeServer

LEMMA ChangeMatchHeld ==
  ASSUME NEW t \in Threads, Ready(t), ChangeMatch(t)
  PROVE  Held(t)
<1>0. /\ pc[t] = "changeMatch" /\ pc[t] \in OnePCs /\ CacheInv /\ HistInv /\ UNCHANGED srvVars
      /\ ExpirePath /\ Within("changeMatch", "changeUse") /\ ThreadType
  BY DEF ChangeMatch, At, Ready, Base, ThreadInv, OnePCs, PathPCs, PCs, DestPCs, Within
<1>1. PICK p \in Paths : Starts(t, p)
  BY <1>0, OneStart
<1>2. p = path[t]
  BY <1>1 DEF Starts
<1>3. t \notin suspect => Sole(p) /\ Absent(p) /\ stbuf[t][p] = server[p]
  BY <1>0, <1>1 DEF Starts, Local
<1> DEFINE none == {}
<1>4. CASE Match(p) = NoEntry /\ Return(t, "changeMatch", none)
  <2> HIDE DEF none
  <2>0. "changeMatch" # "idle"
    OBVIOUS
  <2>1. Frame(t) /\ Calmer /\ (Idle(p)' => Post(t))
    BY <1>1, <1>4, <2>0, OneReturn
  <2>2. Foreign(t) /\ \A x \in Paths : Keeps(x)
    BY <1>0, <2>1, ExpireThins, AllKept
  <2>3. PathEntries(p)' = {}
    BY <1>0, <1>4, <2>1, ExpireThins
  <2>4. Right(p)'
    BY <2>3 DEF Right, FreshPath
  <2> QED
    BY <1>3, <2>1, <2>2, <2>4, KeptClaims DEF Held, Idle
<1>5. CASE /\ Match(p) # NoEntry /\ StepWith(t, "changeMatch", "changeUse", none, none)
           /\ SetPtr(t, Match(p)) /\ UNCHANGED <<path, dest, caller, stbuf, todo>>
  <2> HIDE DEF none
  <2>1. /\ UNCHANGED <<path, dest, todo>> /\ \A u \in Threads \ {t} : stbuf'[u] = stbuf[u]
        /\ ptr'[t] = Match(p)
    BY <1>0, <1>5 DEF SetPtr, ThreadType
  <2>2. /\ Frame(t) /\ Calmer /\ pc'[t] = "changeUse"
        /\ /\ Sole(p)' /\ Local(t, p, NoPath)'
           /\ "changeUse" \in OffPCs \/ Right(p)'
           /\ "changeUse" \in {"mkdirAdd", "rmNon"} \/ Absent(p)'
           => Post(t)
    BY <1>0, <1>1, <1>5, <2>1, OneMove
  <2>3. Foreign(t) /\ \A x \in Paths : Keeps(x)
    BY <1>0, <2>2, ExpireThins, AllKept
  <2>4. ASSUME t \notin suspect PROVE Post(t)
    <3>1. Sole(p)' /\ Absent(p)'
      BY <1>3, <2>3, <2>4, KeptClaims
    <3>2. FreshPath(p)' \subseteq {ptr'[t]}
      BY <1>0, <1>3, <1>5, <2>1, <2>3, <2>4, MatchIsFresh DEF Keeps, Thins, Shrinks
    <3>3. stbuf'[t][p] = server'[p]
      BY <1>0, <1>3, <1>5, <2>4 DEF srvVars
    <3>4. Local(t, p, NoPath)'
      BY <2>2, <3>2, <3>3 DEF Local
    <3> QED
      BY <2>2, <3>1, <3>4 DEF OffPCs
  <2> QED
    BY <2>2, <2>3, <2>4 DEF Held
<1> QED
  BY <1>2, <1>4, <1>5 DEF ChangeMatch, Step

\* The entry the pointer has is the fresh one, or there is none.
LEMMA ChangeUseHeld ==
  ASSUME NEW t \in Threads, Ready(t), ChangeUse(t)
  PROVE  Held(t)
<1>0. /\ pc[t] = "changeUse" /\ pc[t] \in OnePCs /\ CacheInv /\ HistInv /\ UNCHANGED srvVars
      /\ UNCHANGED <<PathArray, NonExistPathArray>> /\ "changeUse" # "idle" /\ ThreadType
  BY DEF ChangeUse, At, Ready, Base, ThreadInv, OnePCs, PathPCs, PCs, DestPCs, srvVars
<1>1. PICK p \in Paths : Starts(t, p)
  BY <1>0, OneStart
<1>2. p = path[t] /\ PathsOf(t) = {p}
  BY <1>1 DEF Starts
<1>3. PICK v \in Stats : v = stbuf[t][p]
  BY <1>0 DEF ThreadType
<1>4. t \notin suspect => /\ Sole(p) /\ Absent(p) /\ v = server[p]
                          /\ FreshPath(p) \subseteq {ptr[t]}
  BY <1>0, <1>1, <1>3 DEF Starts, Local
<1>5. PICK e : e = ptr[t]
  OBVIOUS
<1> DEFINE S == IF Live(e) THEN {entry[e].path} \ {p} ELSE {}
<1>6. Return(t, "changeUse", S)
  BY <1>2, <1>5 DEF ChangeUse
<1>7. Live(e) /\ entry[e].path # p => entry[e].path \in S
  OBVIOUS
<1> HIDE DEF S
<1>8. Frame(t) /\ Calmer /\ (Idle(p)' => Post(t)) /\ \A x \in S \cap Paths : calm'[x] = 0
  BY <1>0, <1>1, <1>6, OneReturn
<1>9. CASE Live(e) /\ entry' = [entry EXCEPT ![e].ver = v]
  <2>1. ASSUME NEW x \in Paths
        PROVE  /\ Shrinks(x) /\ entry'[e].ver = v
               /\ entry[e].path # x \/ calm'[x] = 0 => Thins(x)
    <3>1. TRUE \in BOOLEAN
      OBVIOUS
    <3> QED
      BY <1>0, <1>8, <1>9, <3>1, StoreGives
  <2>2. ASSUME NEW x \in Paths \ PathsOf(t) PROVE Thins(x)
    <3>1. entry[e].path # x \/ calm'[x] = 0
      BY <1>2, <1>7, <1>8, <1>9
    <3> QED
      BY <2>1, <3>1
  <2>3. Foreign(t)
    BY <1>0, <2>2 DEF Foreign, Keeps, srvVars
  <2>4. ASSUME t \notin suspect PROVE Idle(p)'
    <3>1. Sole(p)'
      BY <1>4, <2>1, <2>4, ShrunkSole
    <3>2. Absent(p)'
      BY <1>0, <1>4, <2>1, <2>4 DEF Absent, Shrinks, srvVars
    <3>3. Right(p)'
      BY <1>0, <1>4, <1>5, <2>1, <2>4 DEF Right, Shrinks, srvVars
    <3> QED
      BY <3>1, <3>2, <3>3 DEF Idle
  <2> QED
    BY <1>8, <2>3, <2>4 DEF Held
<1>10. CASE ~Live(e) /\ entry' = entry
  <2>1. UNCHANGED cacheVars
    BY <1>0, <1>10 DEF cacheVars
  <2>2. Foreign(t) /\ \A x \in Paths : Keeps(x)
    BY <1>0, <1>8, <2>1, SameThins, AllKept
  <2>3. ASSUME t \notin suspect PROVE Idle(p)'
    <3>1. FreshPath(p) \subseteq ToSet(PathArray) /\ e \notin ToSet(PathArray)
      BY <1>10 DEF FreshPath, PathEntries, Live, Range, ToSet
    <3>2. Right(p)
      BY <1>4, <1>5, <2>3, <3>1 DEF Right
    <3> QED
      BY <1>4, <2>2, <2>3, <3>2, KeptClaims DEF Idle
  <2> QED
    BY <1>8, <2>2, <2>3 DEF Held
<1> QED
  BY <1>2, <1>3, <1>5, <1>9, <1>10 DEF ChangeUse

LEMMA TruncUseHeld ==
  ASSUME NEW t \in Threads, Ready(t), TruncUse(t)
  PROVE  Held(t)
<1>0. /\ pc[t] = "truncUse" /\ "truncUse" \in OnePCs /\ "truncUse" \notin OffPCs
      /\ CacheInv /\ HistInv /\ "truncUse" # "idle" /\ "change" \in PlainPCs
  BY DEF TruncUse, At, Ready, Base, ThreadInv, OnePCs, PathPCs, PCs, DestPCs, OffPCs, PlainPCs
<1>1. PICK p \in Paths : Starts(t, p)
  BY <1>0, OneStart
<1>2. p = path[t] /\ PathsOf(t) = {p} /\ (t \notin suspect => Idle(p))
  BY <1>0, <1>1 DEF Starts, Idle, OffPCs
<1>3. CASE Goes(t, "truncUse", "change") /\ UNCHANGED srvVars /\ UNCHANGED cacheVars
  <2>1. Frame(t) /\ Calmer /\ (Idle(p)' => Post(t))
    BY <1>0, <1>1, <1>3, GoesHeld
  <2>2. Foreign(t) /\ \A x \in Paths : Keeps(x)
    BY <1>0, <1>3, <2>1, SameThins, AllKept
  <2> QED
    BY <1>2, <2>1, <2>2, KeptIdle DEF Held
<1>4. ASSUME NEW v \in Versions, Live(ptr[t]), entry' = [entry EXCEPT ![ptr[t]].ver = v],
             Return(t, "truncUse", {entry[ptr[t]].path}),
             UNCHANGED <<srvVars, PathArray, NonExistPathArray>>
      PROVE  Held(t)
  <2>1. PICK e : e = ptr[t]
    OBVIOUS
  <2> DEFINE S == {entry[e].path}
  <2>2. Return(t, "truncUse", S) /\ entry[e].path \in S
    BY <1>4, <2>1
  <2> HIDE DEF S
  <2>3. Frame(t) /\ Calmer /\ (Idle(p)' => Post(t)) /\ \A x \in S \cap Paths : calm'[x] = 0
    BY <1>0, <1>1, <2>2, OneReturn
  <2>4. ASSUME NEW x \in Paths PROVE Thins(x)
    <3>1. entry[e].path # x \/ calm'[x] = 0
      BY <2>2, <2>3
    <3>2. /\ v \in Stats /\ TRUE \in BOOLEAN /\ Live(e) /\ entry' = [entry EXCEPT ![e].ver = v]
          /\ UNCHANGED <<PathArray, NonExistPathArray>>
      BY <1>4, <2>1, VersionTypes
    <3> QED
      BY <1>0, <2>3, <3>1, <3>2, StoreGives
  <2>5. Foreign(t) /\ \A x \in Paths : Keeps(x)
    BY <1>4, <2>3, <2>4, AllKept
  <2> QED
    BY <1>2, <2>3, <2>5, KeptIdle DEF Held
<1> QED
  BY <1>3, <1>4 DEF TruncUse

LEMMA CloseMatchHeld ==
  ASSUME NEW t \in Threads, Ready(t), CloseMatch(t)
  PROVE  Held(t)
<1>0. /\ pc[t] = "closeMatch" /\ pc[t] \in OnePCs /\ CacheInv /\ HistInv
      /\ ExpirePath /\ Within("closeMatch", "closePut") /\ Within("closeMatch", "rm")
      /\ ThreadType /\ "closeMatch" # "idle"
  BY DEF CloseMatch, At, Ready, Base, ThreadInv, OnePCs, PathPCs, PCs, DestPCs, Within
<1>1. PICK p \in Paths : Starts(t, p)
  BY <1>0, OneStart
<1>2. p = path[t] /\ PathsOf(t) = {p}
  BY <1>1 DEF Starts
<1>3. t \notin suspect => Sole(p) /\ Right(p) /\ Absent(p)
  BY <1>0, <1>1 DEF Starts, OffPCs
<1> DEFINE none == {}
<1>4. CASE /\ Match(p) # NoEntry /\ StepWith(t, "closeMatch", "closePut", none, none)
           /\ SetPtr(t, Match(p)) /\ UNCHANGED <<path, dest, caller, stbuf, todo>>
           /\ UNCHANGED srvVars
  <2> HIDE DEF none
  <2>1. /\ UNCHANGED <<path, dest, todo>> /\ \A u \in Threads \ {t} : stbuf'[u] = stbuf[u]
        /\ ptr'[t] = Match(p)
    BY <1>0, <1>4 DEF SetPtr, ThreadType
  <2>2. /\ Frame(t) /\ Calmer /\ pc'[t] = "closePut"
        /\ /\ Sole(p)' /\ Local(t, p, NoPath)'
           /\ "closePut" \in OffPCs \/ Right(p)'
           /\ "closePut" \in {"mkdirAdd", "rmNon"} \/ Absent(p)'
           => Post(t)
    BY <1>0, <1>1, <1>4, <2>1, OneMove
  <2>3. Foreign(t) /\ \A x \in Paths : Keeps(x)
    BY <1>0, <1>4, <2>2, ExpireThins, AllKept
  <2>4. ASSUME t \notin suspect PROVE Post(t)
    <3>1. Sole(p)' /\ Absent(p)' /\ Right(p)'
      BY <1>3, <2>3, <2>4, KeptClaims
    <3>2. Match(p) \in PathEntries(p) /\ FreshPath(p) \subseteq {Match(p)}
      BY <1>0, <1>3, <1>4, <2>4, MatchIsFresh
    <3>3. FreshPath(p)' \subseteq {ptr'[t]} /\ FreshNon(p)' = {}
      BY <1>3, <2>1, <2>3, <2>4, <3>2 DEF Keeps, Thins, Shrinks, Absent
    <3>4. Local(t, p, NoPath)'
      BY <2>2, <3>3 DEF Local
    <3> QED
      BY <2>2, <3>1, <3>4
  <2> QED
    BY <2>2, <2>3, <2>4 DEF Held
<1>5. CASE /\ Match(p) = NoEntry \/ ~entry[Match(p)].loc
           /\ creating' = creating \ {p} /\ server' = server
           /\ \/ StepWith(t, "closeMatch", "rm", none, none) /\ UNCHANGED locals
              \/ Return(t, "closeMatch", none)
  <2> HIDE DEF none
  <2>1. Calmer => Foreign(t) /\ Thins(p) /\ (Match(p) = NoEntry => PathEntries(p)' = {})
    <3>1. Calmer => \A x \in Paths : Thins(x)
      BY <1>0, ExpireThins
    <3>2. Calmer => (Match(p) = NoEntry => PathEntries(p)' = {})
      BY <1>0, ExpireThins
    <3> QED
      BY <1>2, <1>5, <3>1, <3>2 DEF Foreign, Keeps
  <2>2. ASSUME t \notin suspect, Calmer PROVE Idle(p)'
    <3>1. Sole(p)'
      BY <1>3, <2>1, <2>2, ShrunkSole DEF Thins
    <3>2. Absent(p)'
      BY <1>3, <1>5, <2>1, <2>2 DEF Thins, Shrinks, Absent
    <3>3. CASE Match(p) = NoEntry
      <4>1. Right(p)'
        BY <2>1, <2>2, <3>3 DEF Right, FreshPath
      <4> QED
        BY <3>1, <3>2, <4>1 DEF Idle
    <3>4. CASE Match(p) # NoEntry
      <4>1. FreshPath(p) \subseteq {Match(p)} /\ ~entry[Match(p)].loc
        BY <1>0, <1>3, <1>5, <2>2, <3>4, MatchIsFresh
      <4>2. \A e \in FreshPath(p) : entry[e].ver = server[p]
        BY <1>3, <2>2, <4>1 DEF Right
      <4>3. Right(p)'
        BY <1>5, <2>1, <2>2, <4>2 DEF Right, Thins, Shrinks
      <4> QED
        BY <3>1, <3>2, <4>3 DEF Idle
    <3> QED
      BY <3>3, <3>4
  <2>3. CASE Return(t, "closeMatch", none)
    <3>1. Frame(t) /\ Calmer /\ (Idle(p)' => Post(t))
      BY <1>0, <1>1, <2>3, OneReturn
    <3> QED
      BY <2>1, <2>2, <3>1 DEF Held
  <2>4. CASE StepWith(t, "closeMatch", "rm", none, none) /\ UNCHANGED locals
    <3>0. UNCHANGED <<path, dest, todo>> /\ \A u \in Threads \ {t} : stbuf'[u] = stbuf[u]
      BY <2>4 DEF locals
    <3>1. /\ Frame(t) /\ Calmer /\ pc'[t] = "rm"
          /\ /\ Sole(p)' /\ Local(t, p, NoPath)'
             /\ "rm" \in OffPCs \/ Right(p)'
             /\ "rm" \in {"mkdirAdd", "rmNon"} \/ Absent(p)'
             => Post(t)
      BY <1>0, <1>1, <2>4, <3>0, OneMove
    <3>2. Local(t, p, NoPath)'
      BY <3>1, PlainLocal
    <3> QED
      BY <2>1, <2>2, <3>1, <3>2 DEF Held, Idle
  <2> QED
    BY <1>5, <2>3, <2>4
<1> QED
  BY <1>2, <1>4, <1>5 DEF CloseMatch, Step

LEMMA ClosePutHeld ==
  ASSUME NEW t \in Threads, Ready(t), ClosePut(t)
  PROVE  Held(t)
<1>0. /\ pc[t] = "closePut" /\ pc[t] \in OnePCs /\ CacheInv /\ HistInv /\ CacheInv' /\ SrvInv
      /\ "closePut" # "idle" /\ UNCHANGED <<PathArray, NonExistPathArray>>
  BY DEF ClosePut, At, Ready, Base, ThreadInv, OnePCs, PathPCs, PCs, DestPCs
<1>1. PICK p \in Paths : Starts(t, p)
  BY <1>0, OneStart
<1>2. p = path[t] /\ PathsOf(t) = {p} /\ creating' = creating \ {p}
  BY <1>1 DEF Starts, ClosePut
<1>3. t \notin suspect => Sole(p) /\ FreshNon(p) = {} /\ FreshPath(p) \subseteq {ptr[t]}
  BY <1>0, <1>1 DEF Starts, Local
<1>4. CASE Return(t, "closePut", {p}) /\ UNCHANGED <<server, entry>>
  <2> DEFINE S == {p}
  <2>1. Return(t, "closePut", S) /\ p \in S \cap Paths
    BY <1>4
  <2> HIDE DEF S
  <2>2. Frame(t) /\ Calmer /\ (Idle(p)' => Post(t)) /\ calm'[p] = 0
    BY <1>0, <1>1, <2>1, OneReturn
  <2>3. Idle(p)'
    BY <1>0, <2>2, DoubtedIdle
  <2>4. \A x \in Paths : Thins(x)
    BY <1>0, <1>4, <2>2, SameThins DEF cacheVars
  <2>5. Foreign(t)
    BY <1>2, <1>4, <2>4 DEF Foreign, Keeps
  <2> QED
    BY <2>2, <2>3, <2>5 DEF Held
<1>5. ASSUME NEW v \in Versions, NEW l \in BOOLEAN, NEW e, e = ptr[t],
             server' = [server EXCEPT ![p] = v],
             IF Live(e) THEN entry' = [entry EXCEPT ![e].ver = v, ![e].loc = l]
                        ELSE UNCHANGED entry,
             Return(t, "closePut", IF Live(e) /\ entry[e].path = p THEN {} ELSE Paths)
      PROVE  Held(t)
  <2> DEFINE S == IF Live(e) /\ entry[e].path = p THEN {} ELSE Paths
  <2>1. Return(t, "closePut", S) /\ (S = Paths \/ (Live(e) /\ entry[e].path = p))
    BY <1>5
  <2> HIDE DEF S
  <2>2. Frame(t) /\ Calmer /\ (Idle(p)' => Post(t)) /\ \A x \in S \cap Paths : calm'[x] = 0
    BY <1>0, <1>1, <2>1, OneReturn
  <2>3. server'[p] = v /\ \A x \in Paths \ {p} : server'[x] = server[x]
    BY <1>0, <1>5 DEF SrvInv
  <2>4. CASE Live(e) /\ entry' = [entry EXCEPT ![e].ver = v, ![e].loc = l]
    <3>1. ASSUME NEW x \in Paths
          PROVE  /\ Shrinks(x) /\ entry'[e].ver = v
                 /\ entry[e].path # x \/ calm'[x] = 0 => Thins(x)
      <4>1. v \in Stats
        BY VersionTypes
      <4> QED
        BY <1>0, <2>2, <2>4, <4>1, StoreGives
    <3>2. ASSUME NEW x \in Paths \ {p} PROVE Thins(x)
      BY <2>1, <2>2, <3>1
    <3>3. Foreign(t)
      BY <1>2, <2>3, <3>2 DEF Foreign, Keeps
    <3>4. ASSUME t \notin suspect PROVE Idle(p)'
      <4>1. Sole(p)'
        BY <1>3, <3>1, <3>4, ShrunkSole
      <4>2. Absent(p)'
        BY <1>3, <3>1, <3>4 DEF Absent, Shrinks
      <4>3. Right(p)'
        BY <1>3, <1>5, <2>3, <3>1, <3>4 DEF Right, Shrinks
      <4> QED
        BY <4>1, <4>2, <4>3 DEF Idle
    <3> QED
      BY <2>2, <3>3, <3>4 DEF Held
  <2>5. CASE ~Live(e) /\ entry' = entry
    <3>1. \A x \in Paths : calm'[x] = 0
      BY <2>1, <2>2, <2>5
    <3>2. \A x \in Paths : Thins(x)
      BY <1>0, <2>2, <2>5, SameThins DEF cacheVars
    <3>3. Foreign(t)
      BY <1>2, <2>3, <3>2 DEF Foreign, Keeps
    <3> QED
      BY <1>0, <2>2, <3>1, <3>3, DoubtedIdle DEF Held
  <2> QED
    BY <1>5, <2>4, <2>5
<1> QED
  BY <1>2, <1>4, <1>5 DEF ClosePut

-------------------------------------------------------------------------------
(***************************************************************************)
(* All steps.                                                              *)
(***************************************************************************)
\* Every step of a thread.
LEMMA ThreadStale ==
  ASSUME PathCacheInv, PathCacheInv', StaleInv, NEW t \in Threads, ThreadStep(t)
  PROVE  StaleInv'
<1>1. CASE CallStep(t)
  BY <1>1, StaleCall
<1>2. CASE ~CallStep(t)
  <2>1. Base
    BY DEF PathCacheInv, Base, ThreadInv
  <2>2. Shape(t)
    BY <2>1, ThreadGood DEF Good
  <2>3. Ready(t)
    <3>1. CacheInv'
      BY DEF PathCacheInv
    <3> QED
      BY <2>1, <3>1 DEF StaleInv, Ready
  <2>4. Held(t)
    <3>1. CASE \/ MatchNonExist(t) \/ MatchPath(t) \/ UseEntry(t) \/ UseEntryFails(t)
               \/ Stat(t) \/ StatFails(t) \/ Add(t)
      BY <2>3, <3>1, MatchNonHeld, MatchHeld, UseHeld, UseFailsHeld, StatHeld,
         StatFailsHeld, AddHeld
    <3>2. CASE \/ ReaddirMatch(t) \/ ReaddirAdd(t) \/ ReaddirDone(t)
               \/ MkdirServer(t) \/ MkdirAdd(t) \/ RmNon(t)
               \/ MknodRm(t) \/ MknodAdd(t) \/ MknodSet(t)
               \/ UnlinkServer(t) \/ Rm(t)
      BY <2>3, <3>2, ReaddirMatchHeld, ReaddirAddHeld, ReaddirDoneHeld, MkdirServerHeld,
         MkdirAddHeld, RmNonHeld, MknodRmHeld, MknodAddHeld, MknodSetHeld, UnlinkServerHeld, RmHeld
    <3>3. CASE \/ RenameServer(t) \/ RenameUnlink(t) \/ RenameAgain(t)
               \/ RenameRmTo(t) \/ RenameMatch(t) \/ RenameAdd(t)
               \/ RenameRmFrom(t)
      BY <2>3, <3>3, RenameServerHeld, RenameUnlinkHeld, RenameAgainHeld, RenameRmToHeld,
         RenameMatchHeld, RenameAddHeld,
         RenameRmFromHeld
    <3>4. CASE \/ TruncMatch(t) \/ TruncUse(t) \/ ChangeServer(t) \/ ChangeMatch(t)
               \/ ChangeUse(t) \/ Open(t) \/ OpenRmNon(t) \/ Write(t) \/ CloseMatch(t)
               \/ ClosePut(t)
      BY <2>3, <3>4, TruncMatchHeld, TruncUseHeld, ChangeServerHeld, ChangeMatchHeld,
         ChangeUseHeld, OpenHeld, OpenRmNonHeld, WriteHeld, CloseMatchHeld, ClosePutHeld
    <3> QED
      BY <1>2, <3>1, <3>2, <3>3, <3>4 DEF ThreadStep
  <2> QED
    BY <2>2, <2>4, StaleStep
<1> QED
  BY <1>1, <1>2

\* A step of no thread: what it changes it makes doubtful.
LEMMA StaleRest ==
  ASSUME ThreadInv, CacheInv', StaleInv, \A u \in Threads : Same(u), suspect \subseteq suspect',
         \A p \in Paths : Keeps(p) \/ (calm'[p] = 0 /\ ActiveOn(p) \subseteq suspect')
  PROVE  StaleInv'
<1>1. \A u \in Threads : PathsOf(u)' = PathsOf(u) /\ pc'[u] = pc[u]
  BY DEF Same, PathsOf
<1>2. \A p : ActiveOn(p)' = ActiveOn(p)
  BY <1>1 DEF ActiveOn
<1>3. ASSUME NEW p \in Paths, ActiveOn(p)' = {} PROVE Idle(p)'
  <2>1. CASE Keeps(p)
    BY <1>2, <1>3, <2>1, KeptIdle DEF StaleInv
  <2>2. CASE calm'[p] = 0
    BY <2>2, DoubtedIdle
  <2> QED
    BY <2>1, <2>2
<1>4. ASSUME NEW u \in Threads \ suspect' PROVE Own(u)'
  <2>1. Own(u) /\ Same(u)
    BY DEF StaleInv
  <2>2. ASSUME NEW p \in PathsOf(u) PROVE Keeps(p)
    <3>1. p \in Paths
      BY PathsOfTypes
    <3>2. pc[u] # "idle"
      BY DEF ThreadInv, ControlInv, PathsOf
    <3>3. u \in ActiveOn(p)
      BY <3>2 DEF ActiveOn
    <3> QED
      BY <1>4, <3>1, <3>3
  <2> QED
    BY <2>1, <2>2, StillOwn
<1>5. ASSUME NEW u \in Threads PROVE Form(u)'
  BY DEF Same, Form, StaleInv
<1> QED
  BY <1>3, <1>4, <1>5 DEF StaleInv

\* An entry that is younger than the last doubt after a tick was so before.
LEMMA TickKeeps ==
  ASSUME PathCacheInv, Tick, NEW p \in Paths
  PROVE  Keeps(p)
<1>0. /\ CacheInv /\ HistInv /\ CACHE_EXPIRE_TIME \in Nat
      /\ PathArray' = PathArray /\ NonExistPathArray' = NonExistPathArray
      /\ server' = server /\ creating' = creating
  BY PathCacheAssumption DEF PathCacheAssumption, PathCacheInv, Tick, srvVars
<1>1. \A m, n \in Ages : Older(m) < Older(n) => m < n
  BY <1>0 DEF Older, Ages
<1>2. ASSUME NEW e \in Entries, Live(e)
      PROVE  /\ entry'[e].path = entry[e].path /\ entry'[e].ver = entry[e].ver
             /\ entry'[e].loc = entry[e].loc
             /\ entry'[e].age < calm'[p] => entry[e].age < calm[p]
  <2>1. entry[e] \in EntryType
    BY <1>0 DEF CacheInv
  <2>2. entry'[e] = [entry[e] EXCEPT !.age = Older(@)]
    BY <1>2 DEF Tick
  <2>3. /\ entry'[e].path = entry[e].path /\ entry'[e].ver = entry[e].ver
        /\ entry'[e].loc = entry[e].loc /\ entry'[e].age = Older(entry[e].age)
        /\ entry[e].age \in Ages
    BY <2>1, <2>2 DEF EntryType
  <2>4. calm'[p] = Older(calm[p]) /\ calm[p] \in Ages
    BY <1>0 DEF Tick, HistInv
  <2> QED
    BY <1>1, <2>3, <2>4
<1>3. \A e \in ToSet(PathArray) \cup ToSet(NonExistPathArray) : e \in Entries /\ Live(e)
  BY <1>0, ElementsIn DEF CacheInv, Queue, Live, Range, ToSet
<1>4. PathEntries(p)' = PathEntries(p) /\ NonEntries(p)' = NonEntries(p)
  BY <1>0, <1>2, <1>3 DEF PathEntries, NonEntries
<1>5. \A e \in PathEntries(p) \cup NonEntries(p) : e \in Entries /\ Live(e)
  BY <1>3 DEF PathEntries, NonEntries
<1>6. FreshPath(p)' \subseteq FreshPath(p) /\ FreshNon(p)' \subseteq FreshNon(p)
  BY <1>2, <1>4, <1>5 DEF FreshPath, FreshNon
<1>7. FreshPath(p)' \subseteq PathEntries(p)
  BY <1>4 DEF FreshPath
<1> QED
  BY <1>0, <1>2, <1>4, <1>5, <1>6, <1>7 DEF Keeps, Thins, Shrinks

LEMMA StaleInit ==
  ASSUME Init
  PROVE  StaleInv
<1>1. PathCacheInv
  BY PathCacheInit
<1>2. ToSet(PathArray) = {} /\ ToSet(NonExistPathArray) = {}
  BY EmptyElements DEF Init
<1>3. ASSUME NEW p \in Paths PROVE Idle(p)
  BY <1>2 DEF Idle, Sole, Right, Absent, FreshPath, FreshNon, PathEntries, NonEntries
<1>4. ASSUME NEW t \in Threads PROVE Own(t) /\ Form(t)
  <2>1. pc[t] = "idle" /\ path[t] = NoPath /\ dest[t] = NoPath /\ todo[t] = {}
    BY DEF Init
  <2>2. PathsOf(t) = {}
    BY <2>1 DEF PathsOf
  <2>3. Knows(t)
    BY <2>1, PathCacheAssumption DEF PathCacheAssumption, Knows
  <2> QED
    BY <2>1, <2>2, <2>3 DEF Own, Claims, Listed, Form
<1> QED
  BY <1>3, <1>4 DEF StaleInv

LEMMA StaleNext ==
  ASSUME PathCacheInv, StaleInv, [Next]_vars
  PROVE  StaleInv'
<1>0. PathCacheInv' /\ ThreadInv /\ CacheInv /\ HistInv
  BY PathCacheStep DEF PathCacheInv, ThreadInv
<1>1. CacheInv'
  BY <1>0 DEF PathCacheInv
<1>2. CASE UNCHANGED vars
  <2>1. /\ \A u \in Threads : Same(u)
        /\ suspect' = suspect /\ calm' = calm /\ server' = server /\ creating' = creating
        /\ UNCHANGED cacheVars
    BY <1>2 DEF vars, locals, ptrVars, srvVars, Same
  <2>2. \A p \in Paths : Keeps(p)
    <3>1. Calmer
      BY <2>1 DEF Calmer
    <3> QED
      BY <1>0, <2>1, <3>1, SameThins DEF Keeps
  <2> QED
    BY <1>0, <1>1, <2>1, <2>2, StaleRest
<1>3. CASE Tick
  <2>1. (\A u \in Threads : Same(u)) /\ suspect' = suspect
    BY <1>3 DEF Tick, Same
  <2>2. \A p \in Paths : Keeps(p)
    BY <1>3, TickKeeps
  <2> QED
    BY <1>0, <1>1, <2>1, <2>2, StaleRest
<1>4. ASSUME NEW x \in Paths, OtherClient(x) PROVE StaleInv'
  <2>1. /\ \A u \in Threads : Same(u)
        /\ suspect' = suspect \cup ActiveOn(x) /\ UNCHANGED cacheVars
    BY <1>4 DEF OtherClient, locals, ptrVars, Same
  <2>2. calm'[x] = 0 /\ Calmer
    BY <1>4 DEF OtherClient, Doubt, Calmer
  <2>3. ASSUME NEW p \in Paths \ {x} PROVE Keeps(p)
    <3>1. server'[p] = server[p] /\ creating' = creating
      BY <1>0, <1>4 DEF OtherClient, ServerSet, PathCacheInv, SrvInv
    <3> QED
      BY <1>0, <2>1, <2>2, <3>1, SameThins DEF Keeps
  <2>4. /\ suspect \subseteq suspect'
        /\ \A p \in Paths : Keeps(p) \/ (calm'[p] = 0 /\ ActiveOn(p) \subseteq suspect')
    BY <2>1, <2>2, <2>3
  <2> QED
    BY <1>0, <1>1, <2>1, <2>4, StaleRest
<1>5. ASSUME NEW t \in Threads, ThreadStep(t) PROVE StaleInv'
  BY <1>0, <1>5, ThreadStale
<1> QED
  BY <1>2, <1>3, <1>4, <1>5 DEF Next

LEMMA StaleAlways == Spec => []StaleInv
<1>1. Init => StaleInv
  BY StaleInit
<1>2. PathCacheInv /\ StaleInv /\ [Next]_vars => StaleInv'
  BY StaleNext
<1> QED
  BY <1>1, <1>2, PathCacheAlways, PTL DEF Spec

\* What is known about a settled path, and has not expired, is fresh.
LEMMA SettledFresh ==
  ASSUME CacheInv, NEW p \in Paths, Settled(p)
  PROVE  /\ \A e \in PathEntries(p) : ~Expired(e) => e \in FreshPath(p)
         /\ \A e \in NonEntries(p) : ~Expired(e) => e \in FreshNon(p)
<1>1. ToSet(PathArray) \subseteq Entries /\ ToSet(NonExistPathArray) \subseteq Entries
  BY ElementsIn DEF CacheInv, Queue
<1>2. \A e \in Entries : entry[e].age \in Nat
  BY Records DEF CacheInv, EntryType, Ages
<1>3. CACHE_EXPIRE_TIME \in Nat /\ calm[p] = CACHE_EXPIRE_TIME
  BY PathCacheAssumption DEF PathCacheAssumption, Settled
<1> QED
  BY <1>1, <1>2, <1>3 DEF Expired, FreshPath, FreshNon, PathEntries, NonEntries

-------------------------------------------------------------------------------
\* The types, and what addToCacheSlot and _rmPathFromCache keep: an entry is linked
\* in one queue at most, and once.
THEOREM PathCacheTypes == Spec => []TypeOK
<1>1. PathCacheInv => TypeOK
  <2> SUFFICES ASSUME PathCacheInv PROVE TypeOK
    OBVIOUS
  <2>1. CacheInv /\ SrvInv /\ ThreadType /\ HistInv
    BY DEF PathCacheInv
  <2>2. IsInjective(PathArray \o NonExistPathArray)
    BY <2>1, ConcatElements DEF CacheInv, Queue
  <2> QED
    BY <2>1, <2>2
       DEF CacheInv, Queue, SrvInv, ThreadType, HistInv, TypeOK, EntryType, Ages, Stats
<1> QED
  BY <1>1, PathCacheAlways, PTL

\* chkCacheExpire may stop at the first entry that has not expired: whatever the
\* handlers remove and add, each queue stays ordered by cachedTime.
THEOREM QueuesStaySorted == Spec => []QueuesSorted
<1>1. PathCacheInv => QueuesSorted
  BY DEF PathCacheInv, CacheInv, Ordered, QueuesSorted
<1> QED
  BY <1>1, PathCacheAlways, PTL

\* A handler that no other has met on its paths, and whose entry was not due to
\* expire, still has its entry when it uses the pointer matchPathInPathCache returned.
THEOREM PointersStayValid == Spec => []PointersValid
<1>1. PathCacheInv => PointersValid
  <2> SUFFICES ASSUME PathCacheInv, NEW t \in Threads, ptr[t] # NoEntry, t \notin suspect,
                      ptrAge[t] < CACHE_EXPIRE_TIME
               PROVE  Live(ptr[t]) /\ entry[ptr[t]].path = path[t]
    BY DEF PointersValid
  <2>1. ptr[t] \in ToSet(PathArray) /\ entry[ptr[t]].path = path[t]
    BY DEF PathCacheInv, PtrInv
  <2> QED
    BY <2>1 DEF Live, Range, ToSet
<1> QED
  BY <1>1, PathCacheAlways, PTL

\* What a lookup of a settled path is told is what the server has: what overlapping
\* handlers, lost answers, reconnects and other clients leave in either queue of the
\* cache is gone CACHE_EXPIRE_TIME later.
THEOREM StalenessEnds == Spec => []StaleEnds
<1>1. PathCacheInv /\ StaleInv => StaleEnds
  <2> SUFFICES ASSUME PathCacheInv, StaleInv, NEW p \in Paths, Settled(p)
               PROVE  /\ Match(p) # NoEntry => entry[Match(p)].ver = server[p]
                      /\ Has(chkCacheExpire(NonExistPathArray), p) => server[p] = 0
    BY DEF StaleEnds
  <2>1. CacheInv /\ Queue(PathArray) /\ Queue(NonExistPathArray)
        /\ Ordered(PathArray, entry) /\ Ordered(NonExistPathArray, entry)
        /\ entry \in [Entries -> EntryType]
    BY DEF PathCacheInv, CacheInv
  <2>2. Idle(p) /\ p \notin creating
    BY DEF StaleInv, Settled
  <2>3. ASSUME Match(p) # NoEntry PROVE entry[Match(p)].ver = server[p]
    <3>1. Match(p) \in ToSet(chkCacheExpire(PathArray)) /\ entry[Match(p)].path = p
      BY <2>1, <2>3, MatchIn
    <3>2. ToSet(chkCacheExpire(PathArray)) \subseteq ToSet(PathArray)
      BY <2>1, ExpireSub, SubQueueKeeps
    <3>3. ~Expired(Match(p))
      BY <2>1, <3>1, ExpireLeaves
    <3>4. Match(p) \in FreshPath(p)
      BY <2>1, <3>1, <3>2, <3>3, SettledFresh DEF PathEntries
    <3> QED
      BY <2>2, <3>4 DEF Idle, Right
  <2>4. ASSUME Has(chkCacheExpire(NonExistPathArray), p) PROVE server[p] = 0
    <3> DEFINE r == chkCacheExpire(NonExistPathArray)
    <3>1. Queue(r) /\ ToSet(r) \subseteq ToSet(NonExistPathArray)
      BY <2>1, ExpireSub, SubQueueKeeps
    <3>2. \A e \in ToSet(r) : ~Expired(e)
      BY <2>1, ExpireLeaves
    <3>3. Has(r, p)
      BY <2>4
    <3> HIDE DEF r
    <3>4. PICK i \in 1..Len(r) : entry[r[i]].path = p
      BY <3>3 DEF Has
    <3>5. r[i] \in ToSet(r)
      BY <3>1 DEF Queue, ToSet
    <3>6. r[i] \in FreshNon(p)
      BY <2>1, <3>1, <3>2, <3>4, <3>5, SettledFresh DEF NonEntries
    <3> QED
      BY <2>2, <3>6 DEF Idle, Absent
  <2> QED
    BY <2>3, <2>4
<1> QED
  BY <1>1, PathCacheAlways, StaleAlways, PTL

\* A settled path has at most one entry that has not expired in each queue: what
\* _rmPathFromCache removes is all that is known about the path.
THEOREM EntriesStaySingle == Spec => []OneEntry
<1>1. PathCacheInv /\ StaleInv => OneEntry
  <2> SUFFICES ASSUME PathCacheInv, StaleInv, NEW p \in Paths, Settled(p),
                      NEW q \in {PathArray, NonExistPathArray}
               PROVE  Cardinality({i \in 1..Len(q) : entry[q[i]].path = p /\ ~Expired(q[i])})
                        <= 1
    BY DEF OneEntry
  <2>1. CacheInv /\ Queue(q) /\ Len(q) \in Nat /\ DOMAIN q = 1..Len(q)
    BY DEF PathCacheInv, CacheInv, Queue
  <2>2. Idle(p)
    BY DEF StaleInv, Settled
  <2> DEFINE I == {i \in 1..Len(q) : entry[q[i]].path = p /\ ~Expired(q[i])}
  <2>3. ASSUME NEW i \in I, NEW j \in I PROVE i = j
    <3>1. i \in 1..Len(q) /\ j \in 1..Len(q) /\ q[i] \in ToSet(q) /\ q[j] \in ToSet(q)
      BY <2>1 DEF ToSet
    <3>2. q[i] = q[j]
      <4>1. CASE q = PathArray
        <5>1. {q[i], q[j]} \subseteq PathEntries(p)
          BY <3>1, <4>1 DEF PathEntries
        <5>2. q[i] \in FreshPath(p)
          BY <2>1, <5>1, SettledFresh
        <5> QED
          BY <2>2, <5>1, <5>2 DEF Idle, Sole
      <4>2. CASE q = NonExistPathArray
        <5>1. {q[i], q[j]} \subseteq NonEntries(p)
          BY <3>1, <4>2 DEF NonEntries
        <5>2. q[i] \in FreshNon(p)
          BY <2>1, <5>1, SettledFresh
        <5> QED
          BY <2>2, <5>1, <5>2 DEF Idle, Sole
      <4> QED
        BY <4>1, <4>2
    <3> QED
      BY <2>1, <3>1, <3>2 DEF Queue, IsInjective
  <2> HIDE DEF I
  <2>4. CASE I = {}
    <3>1. Cardinality(I) = 0
      BY <2>4, FS_EmptySet
    <3> QED
      BY <3>1 DEF I
  <2>5. CASE I # {}
    <3>1. PICK i : I = {i}
      BY <2>3, <2>5
    <3>2. Cardinality(I) = 1
      BY <3>1, FS_Singleton
    <3> QED
      BY <3>2 DEF I
  <2> QED
    BY <2>4, <2>5
<1> QED
  BY <1>1, PathCacheAlways, StaleAlways, PTL

===============================================================================

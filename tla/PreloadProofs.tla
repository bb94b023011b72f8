---------------------------- MODULE PreloadProofs ----------------------------
(***************************************************************************)
(* Proofs about the preload cache, for any workers, paths, sizes and       *)
(* bounds: its types, the safety properties and the refinement of          *)
(* WholeFileCache.                                                         *)
(***************************************************************************)
EXTENDS Preload, CollectionLemmas

(***************************************************************************)
(* The inductive invariant, in parts that each speak of a few variables.   *)
(***************************************************************************)
InodeType == [ver : 0..Mixed, size : 0..MaxSize, mtime : 0..MaxVersion,
              whole : BOOLEAN, mount : 0..MaxMounts]

\* The server's files; only a stale stat is too large.
SrvInv ==
  /\ server \in [Paths -> Stat] /\ lastVer \in 0..MaxVersion
  /\ \A p \in Paths : server[p].size <= MaxSize

\* No two directory entries are the same inode.
Apart ==
  /\ \A p, q \in Paths : cache[p] # 0 /\ cache[p] = cache[q] => p = q
  /\ \A p, q \in Paths : part[p] # 0 /\ part[p] = part[q] => p = q
  /\ \A p, q \in Paths : cache[p] # 0 => cache[p] # part[q]

\* Copies are whole and have a version, a download that says it is complete has
\* a whole .part file or none, and while a file is downloaded there is no copy.
DirInv ==
  /\ cache \in [Paths -> Inodes \cup {0}] /\ part \in [Paths -> Inodes \cup {0}]
  /\ inode \in [Inodes -> InodeType]
  /\ \A p \in Paths : cache[p] # 0 => inode[cache[p]].whole /\ inode[cache[p]].ver # 0
  /\ \A p \in Paths : part[p] # 0 => inode[part[p]].ver # 0
  /\ \A p \in Paths : part[p] # 0 /\ job[p] = "got" => inode[part[p]].whole
  /\ \A p \in Paths : job[p] \in {"run", "get", "got"} => cache[p] = 0
  /\ Apart

\* The handle table and the open descriptors are the same thing, one to one.
HandleInv ==
  /\ handle \in [Paths -> Fds \cup {0}] /\ fds \in [Fds -> Inodes \cup {0}]
  /\ \A p \in Paths : handle[p] # 0 => fds[handle[p]] # 0
  /\ \A p, q \in Paths : handle[p] # 0 /\ handle[p] = handle[q] => p = q
  /\ \A f \in Fds : fds[f] # 0 => \E p \in Paths : handle[p] = f

\* Every thread that has not left the list is in it, or main has taken it out to
\* join it; main has as many to take as there are.
ListInv ==
  /\ list \in Seq(Paths) /\ IsInjective(list)
  /\ job \in [Paths -> {"none", "run", "get", "got", "end", "free"}]
  /\ jobStat \in [Paths -> Stat] /\ PreloadLock \subseteq Paths
  /\ \A p \in ToSet(list) : job[p] \in {"run", "get", "got", "end"}
  /\ \A p \in Paths :
       job[p] \in {"run", "get", "got", "end"} => p \in ToSet(list) \cup joining
  /\ main # "join" => joining = {}
  /\ main \in {"wait", "join", "uninit"} => Len(list) <= left
  /\ main = "uninit" => left = 0

\* A handler that is under way has its path; one that truncates has a size the
\* server could have; one that reads, and was not disturbed, reads through the
\* handle of its path.
WorkerInv ==
  /\ pc \in [Workers -> {"idle", "preload", "read", "truncate", "truncCache", "mknod"}]
  /\ path \in [Workers -> Paths \cup {NoPath}] /\ st \in [Workers -> Stat]
  /\ desc \in [Workers -> Fds \cup {0}] /\ disturbed \subseteq Workers
  /\ \A w \in Workers : pc[w] # "idle" => path[w] \in Paths
  /\ \A w \in Workers : pc[w] = "truncCache" => st[w].size <= MaxSize
  /\ \A w \in Workers : pc[w] = "read" /\ w \notin disturbed =>
                          desc[w] # 0 /\ handle[path[w]] = desc[w]

\* Workers that are about to return from an open of p.
Opening(p) == {w \in Workers : path[w] = p /\ pc[w] = "preload"}

OpenInv ==
  /\ opened \in [Paths -> 0..MaxOpens] /\ writable \subseteq Paths
  /\ \A p \in Paths : opened[p] + Cardinality(Opening(p)) <= MaxOpens

MainInv ==
  /\ main \in {"mounted", "wait", "join", "uninit", "off"}
  /\ left \in 0..Cardinality(Paths) /\ joining \subseteq Paths
  /\ mount \in 1..MaxMounts /\ clearCache \in BOOLEAN
  /\ ops \in 0..MaxOps

PreloadInv ==
  /\ SrvInv /\ DirInv /\ OwnParts /\ HandleInv /\ ListInv /\ WorkerInv /\ OpenInv
  /\ MainInv

-------------------------------------------------------------------------------
(***************************************************************************)
(* Lemmas about the operators of the model.                                *)
(***************************************************************************)
LEMMA Constants ==
  /\ Cardinality(Paths) \in Nat /\ IsFiniteSet(Workers) /\ NoPath \notin Paths
  /\ MaxSize \in Nat /\ MaxVersion \in Nat /\ MaxOpens \in Nat /\ MaxOps \in Nat
  /\ MaxMounts \in Nat \ {0} /\ Cardinality(Paths) < MaxVersion
  /\ Mixed \in Nat /\ MaxVersion < Mixed /\ 1..Mixed = 1..MaxVersion \cup {Mixed}
<1>1. Cardinality(Paths) \in Nat
  BY FS_CardinalityType, PreloadAssumption DEF PreloadAssumption
<1> QED
  BY <1>1, PreloadAssumption DEF PreloadAssumption, Mixed

\* A step that makes no entry and changes no file that still has one.
DirShrinks ==
  /\ cache' \in [Paths -> Inodes \cup {0}] /\ part' \in [Paths -> Inodes \cup {0}]
  /\ inode' \in [Inodes -> InodeType]
  /\ \A p \in Paths :
       cache'[p] # 0 => cache'[p] = cache[p] /\ inode'[cache'[p]] = inode[cache[p]]
  /\ \A p \in Paths :
       part'[p] # 0 => part'[p] = part[p] /\ inode'[part'[p]] = inode[part[p]]

\* A file that has an entry after the step keeps what it is given.
LEMMA SetDirKeeps ==
  ASSUME NEW c \in [Paths -> Inodes \cup {0}], NEW pt \in [Paths -> Inodes \cup {0}],
         NEW f, NEW ino \in [Inodes -> InodeType], SetDir(c, pt, f, ino)
  PROVE  /\ cache' = c /\ part' = pt /\ fds' = f
         /\ inode' \in [Inodes -> InodeType]
         /\ \A p \in Paths : c[p] # 0 => inode'[c[p]] = ino[c[p]]
         /\ \A p \in Paths : pt[p] # 0 => inode'[pt[p]] = ino[pt[p]]
<1>1. NoInode \in InodeType
  BY Constants DEF NoInode, InodeType
<1>2. \A p \in Paths : c[p] \in Used(c, pt, f) /\ pt[p] \in Used(c, pt, f)
  BY DEF Used, Range
<1>3. /\ cache' = c /\ part' = pt /\ fds' = f
      /\ inode' = [i \in Inodes |-> IF i \in Used(c, pt, f) THEN ino[i] ELSE NoInode]
  BY DEF SetDir
<1>4. inode' \in [Inodes -> InodeType]
  BY <1>1, <1>3
<1> QED
  BY <1>2, <1>3, <1>4

LEMMA SameDirShrinks == DirInv /\ cache' = cache /\ part' = part /\ inode' = inode => DirShrinks
BY DEF DirInv, DirShrinks

\* Unlinking, whatever becomes of the descriptors.
LEMMA UnlinkShrinks ==
  ASSUME DirInv, NEW F, NEW f,
         SetDir(Unlinked("cache", cache, F), Unlinked("part", part, F), f, inode)
  PROVE  /\ DirShrinks /\ fds' = f
         /\ \A p \in Paths : <<"cache", p>> \in F => cache'[p] = 0
         /\ \A p \in Paths : <<"part", p>> \in F => part'[p] = 0
<1> DEFINE c == Unlinked("cache", cache, F)
           pt == Unlinked("part", part, F)
<1>1. c \in [Paths -> Inodes \cup {0}] /\ pt \in [Paths -> Inodes \cup {0}]
  BY DEF DirInv, Unlinked
<1>2. /\ \A p \in Paths : c[p] = IF <<"cache", p>> \in F THEN 0 ELSE cache[p]
      /\ \A p \in Paths : pt[p] = IF <<"part", p>> \in F THEN 0 ELSE part[p]
  BY DEF Unlinked
<1> HIDE DEF c, pt
<1>3. inode \in [Inodes -> InodeType] /\ SetDir(c, pt, f, inode)
  BY DEF DirInv, c, pt
<1>4. /\ cache' = c /\ part' = pt /\ fds' = f
      /\ inode' \in [Inodes -> InodeType]
      /\ \A p \in Paths : c[p] # 0 => inode'[c[p]] = inode[c[p]]
      /\ \A p \in Paths : pt[p] # 0 => inode'[pt[p]] = inode[pt[p]]
  BY <1>1, <1>3, SetDirKeeps
<1>5. DirShrinks
  BY <1>1, <1>2, <1>4 DEF DirShrinks
<1> QED
  BY <1>2, <1>4, <1>5

LEMMA UnlinkFilesShrinks ==
  ASSUME DirInv, NEW F, UnlinkFiles(F)
  PROVE  /\ DirShrinks /\ fds' = fds
         /\ \A p \in Paths : <<"cache", p>> \in F => cache'[p] = 0
         /\ \A p \in Paths : <<"part", p>> \in F => part'[p] = 0
BY UnlinkShrinks DEF UnlinkFiles

\* An inode is free when a download makes its .part file.
LEMMA FreeInode ==
  ASSUME DirInv, HandleInv, NEW p \in Paths, part[p] = 0
  PROVE  Min(Inodes \ Used(cache, part, fds)) \in Inodes \ Used(cache, part, fds)
<1> DEFINE n == Cardinality(Paths)
           q == [x \in Paths \ {p} |-> part[x]]
           W == Range(cache) \cup Range(q) \cup Range(fds)
<1>1. n \in Nat /\ IsFiniteSet(Paths)
  BY Constants, PreloadAssumption DEF PreloadAssumption
<1>2. IsFiniteSet(Range(cache)) /\ Cardinality(Range(cache)) <= n
  BY <1>1, RangeCardinality DEF DirInv
<1>3. IsFiniteSet(Range(q)) /\ Cardinality(Range(q)) <= n - 1
  <2>1. IsFiniteSet(Paths \ {p}) /\ Cardinality(Paths \ {p}) = n - 1
    BY <1>1, FS_RemoveElement
  <2>2. IsFiniteSet(Range(q)) /\ Cardinality(Range(q)) <= Cardinality(Paths \ {p})
    BY <2>1, RangeCardinality
  <2> QED
    BY <2>1, <2>2
<1>4. IsFiniteSet(Range(fds)) /\ Cardinality(Range(fds)) <= n
  <2>1. IsFiniteSet(Fds) /\ Cardinality(Fds) = n
    <3>1. IsFiniteSet(1..n) /\ Cardinality(1..n) = IF 1 > n THEN 0 ELSE n - 1 + 1
      BY <1>1, FS_Interval
    <3> QED
      BY <1>1, <3>1 DEF Fds
  <2>2. DOMAIN fds = Fds /\ fds = [x \in Fds |-> fds[x]]
    BY DEF HandleInv
  <2>3. IsFiniteSet(Range(fds)) /\ Cardinality(Range(fds)) <= Cardinality(Fds)
    BY <2>1, <2>2, RangeCardinality
  <2> QED
    BY <2>1, <2>3
<1>5. IsFiniteSet(W) /\ Cardinality(W) <= 3 * n - 1
  <2> DEFINE A == Range(cache)
             B == Range(q)
             C == Range(fds)
  <2> HIDE DEF A, B, C, n
  <2>1. /\ IsFiniteSet(A) /\ IsFiniteSet(B) /\ IsFiniteSet(C)
        /\ Cardinality(A) <= n /\ Cardinality(B) <= n - 1 /\ Cardinality(C) <= n
    BY <1>2, <1>3, <1>4 DEF A, B, C
  <2>2. /\ IsFiniteSet(A \cup B)
        /\ Cardinality(A \cup B) = Cardinality(A) + Cardinality(B) - Cardinality(A \cap B)
    BY <2>1, FS_Union
  <2>3. /\ IsFiniteSet((A \cup B) \cup C)
        /\ Cardinality((A \cup B) \cup C) =
             Cardinality(A \cup B) + Cardinality(C) - Cardinality((A \cup B) \cap C)
    BY <2>1, <2>2, FS_Union
  <2>4. Cardinality(A \cap B) \in Nat /\ Cardinality((A \cup B) \cap C) \in Nat
    BY <2>1, <2>2, FS_Intersection, FS_CardinalityType
  <2>5. Cardinality(A) \in Nat /\ Cardinality(B) \in Nat /\ Cardinality(C) \in Nat
    BY <2>1, FS_CardinalityType
  <2>6. Cardinality((A \cup B) \cup C) <= 3 * n - 1
    BY <1>1, <2>1, <2>2, <2>3, <2>4, <2>5
  <2> QED
    BY <2>3, <2>6 DEF A, B, C
<1>6. IsFiniteSet(Inodes) /\ Cardinality(Inodes) = 3 * n /\ 0 \notin Inodes
  <2> HIDE DEF n
  <2>1. IsFiniteSet(1..3 * n) /\ Cardinality(1..3 * n) = IF 1 > 3 * n THEN 0 ELSE 3 * n - 1 + 1
    BY <1>1, FS_Interval
  <2>2. Cardinality(1..3 * n) = 3 * n
    BY <1>1, <2>1
  <2> QED
    BY <1>1, <2>1, <2>2 DEF Inodes, n
<1>7. Inodes \ Used(cache, part, fds) # {}
  <2> SUFFICES ASSUME Inodes \subseteq Used(cache, part, fds) PROVE FALSE
    OBVIOUS
  <2>1. Range(part) \subseteq Range(q) \cup {0}
    BY DEF Range, DirInv
  <2>2. Inodes \subseteq W
    BY <1>6, <2>1 DEF Used
  <2> HIDE DEF W, n
  <2>3. Cardinality(Inodes) <= Cardinality(W) /\ Cardinality(W) \in Nat
    BY <1>5, <2>2, FS_Subset, FS_CardinalityType
  <2> QED
    BY <1>1, <1>5, <1>6, <2>3
<1>8. Inodes \ Used(cache, part, fds) \in SUBSET Nat
  BY <1>1 DEF Inodes
<1> QED
  BY <1>7, <1>8, MinInSet

\* A descriptor is free when a path without a handle gets one.
LEMMA FreeFd ==
  ASSUME HandleInv, NEW p \in Paths, handle[p] = 0
  PROVE  Min({g \in Fds : fds[g] = 0}) \in {g \in Fds : fds[g] = 0}
<1> DEFINE n == Cardinality(Paths)
           q == [x \in Paths \ {p} |-> handle[x]]
<1>1. n \in Nat /\ IsFiniteSet(Paths)
  BY Constants, PreloadAssumption DEF PreloadAssumption
<1>2. IsFiniteSet(Range(q)) /\ Cardinality(Range(q)) <= n - 1
  <2>1. IsFiniteSet(Paths \ {p}) /\ Cardinality(Paths \ {p}) = n - 1
    BY <1>1, FS_RemoveElement
  <2>2. IsFiniteSet(Range(q)) /\ Cardinality(Range(q)) <= Cardinality(Paths \ {p})
    BY <2>1, RangeCardinality
  <2> QED
    BY <2>1, <2>2
<1>3. IsFiniteSet(Fds) /\ Cardinality(Fds) = n /\ 0 \notin Fds
  <2>1. IsFiniteSet(1..n) /\ Cardinality(1..n) = IF 1 > n THEN 0 ELSE n - 1 + 1
    BY <1>1, FS_Interval
  <2> QED
    BY <1>1, <2>1 DEF Fds
<1>4. {g \in Fds : fds[g] = 0} # {}
  <2> SUFFICES ASSUME \A g \in Fds : fds[g] # 0 PROVE FALSE
    OBVIOUS
  <2>1. Fds \subseteq Range(q)
    <3> SUFFICES ASSUME NEW g \in Fds PROVE \E x \in Paths \ {p} : handle[x] = g
      BY DEF Range
    <3> QED
      BY <1>3 DEF HandleInv
  <2> HIDE DEF q, n
  <2>2. Cardinality(Fds) <= Cardinality(Range(q)) /\ Cardinality(Range(q)) \in Nat
    BY <1>2, <2>1, FS_Subset, FS_CardinalityType
  <2> QED
    BY <1>1, <1>2, <1>3, <2>2
<1>5. {g \in Fds : fds[g] = 0} \in SUBSET Nat
  BY <1>1 DEF Fds
<1> QED
  BY <1>4, <1>5, MinInSet

\* What preloadFile does to the directory and to the list.
LEMMA PreloadFileEffect ==
  ASSUME DirInv, HandleInv, ListInv, WorkerInv, NEW w \in Workers, PreloadFile(w)
  PROVE  /\ DirShrinks /\ fds' = fds /\ PreloadLock' = PreloadLock
         /\ path[w] \in Paths
         /\ \/ list' = list /\ job' = job /\ jobStat' = jobStat
            \/ /\ main = "mounted" /\ job[path[w]] = "none" /\ cache'[path[w]] = 0
               /\ startPreload(path[w], st[w])
<1> DEFINE p == path[w]
<1>0. p \in Paths
  BY DEF PreloadFile, At, WorkerInv
<1>1. CASE UNCHANGED <<dirVars, fds, jobVars>>
  BY <1>0, <1>1, SameDirShrinks DEF dirVars, jobVars
<1>2. CASE UnlinkFiles(FilesOf(p)) /\ UNCHANGED jobVars
  BY <1>0, <1>2, UnlinkFilesShrinks DEF jobVars
<1>3. ASSUME NEW F, UnlinkFiles(F), FilesOf(p) \subseteq F, ~preloaded(p, st[w]),
             UNCHANGED PreloadLock,
             startPreload(p, st[w]) \/ UNCHANGED <<list, job, jobStat>>
      PROVE  /\ DirShrinks /\ fds' = fds /\ PreloadLock' = PreloadLock
             /\ \/ list' = list /\ job' = job /\ jobStat' = jobStat
                \/ /\ main = "mounted" /\ job[p] = "none" /\ cache'[p] = 0
                   /\ startPreload(p, st[w])
  <2>1. <<"cache", p>> \in F
    BY <1>3 DEF FilesOf
  <2>2. DirShrinks /\ fds' = fds /\ cache'[p] = 0
    BY <1>0, <1>3, <2>1, UnlinkFilesShrinks
  <2>3. main = "mounted" /\ job[p] = "none"
    BY <1>0, <1>3 DEF PreloadFile, At, preloaded, isFilePreloading
  <2> QED
    BY <1>3, <2>2, <2>3
<1>4. \/ UNCHANGED <<dirVars, fds, jobVars>>
      \/ UnlinkFiles(FilesOf(p)) /\ UNCHANGED jobVars
      \/ \E F, G : /\ UnlinkFiles(FilesOf(p) \cup F \cup G)
                   /\ ~preloaded(p, st[w])
                   /\ startPreload(p, st[w]) \/ UNCHANGED <<list, job, jobStat>>
                   /\ UNCHANGED PreloadLock
  BY DEF PreloadFile
<1>5. CASE \E F, G : /\ UnlinkFiles(FilesOf(p) \cup F \cup G)
                     /\ ~preloaded(p, st[w])
                     /\ startPreload(p, st[w]) \/ UNCHANGED <<list, job, jobStat>>
                     /\ UNCHANGED PreloadLock
  <2> PICK F, G : /\ UnlinkFiles(FilesOf(p) \cup F \cup G)
                  /\ ~preloaded(p, st[w])
                  /\ startPreload(p, st[w]) \/ UNCHANGED <<list, job, jobStat>>
                  /\ UNCHANGED PreloadLock
    BY <1>5
  <2>1. FilesOf(p) \subseteq FilesOf(p) \cup F \cup G
    OBVIOUS
  <2> HIDE DEF p
  <2>2. /\ DirShrinks /\ fds' = fds /\ PreloadLock' = PreloadLock
        /\ \/ list' = list /\ job' = job /\ jobStat' = jobStat
           \/ /\ main = "mounted" /\ job[p] = "none" /\ cache'[p] = 0
              /\ startPreload(p, st[w])
    BY <1>3, <2>1
  <2> QED
    BY <1>0, <2>2 DEF p
<1> QED
  BY <1>1, <1>2, <1>4, <1>5

-------------------------------------------------------------------------------
(***************************************************************************)
(* Each part is kept by every step.                                        *)
(***************************************************************************)
LEMMA SrvStep == PreloadInv /\ [Next]_vars => SrvInv'
<1> SUFFICES ASSUME PreloadInv, [Next]_vars PROVE SrvInv'
  OBVIOUS
<1> USE Constants
<1>0. SrvInv
  BY DEF PreloadInv
<1>1. ASSUME NEW p \in Paths, NEW z \in 0..MaxSize, NewVersion(p, z) PROVE SrvInv'
  <2>1. lastVer + 1 \in 0..MaxVersion /\ lastVer' = lastVer + 1
    BY <1>0, <1>1 DEF NewVersion, SrvInv
  <2>2. [ver |-> lastVer + 1, size |-> z] \in Stat
    BY <2>1 DEF Stat
  <2>3. server' \in [Paths -> Stat] /\ \A q \in Paths : server'[q].size <= MaxSize
    BY <1>0, <1>1, <2>2 DEF NewVersion, SrvInv
  <2> QED
    BY <2>1, <2>3 DEF SrvInv
<1>2. CASE UNCHANGED srvVars
  BY <1>0, <1>2 DEF SrvInv, srvVars
<1>3. ASSUME NEW p \in Paths, Unlink(p) PROVE SrvInv'
  <2>1. NoFile \in Stat /\ NoFile.size = 0
    BY DEF NoFile, Stat
  <2> QED
    BY <1>0, <1>3, <2>1 DEF Unlink, SrvInv
<1>4. ASSUME NEW p \in Paths, NEW q \in Paths, Rename(p, q) PROVE SrvInv'
  <2>1. NoFile \in Stat /\ NoFile.size = 0
    BY DEF NoFile, Stat
  <2> QED
    BY <1>0, <1>4, <2>1 DEF Rename, SrvInv
<1>5. ASSUME NEW w \in Workers, WorkerStep(w) PROVE SrvInv'
  <2>1. CASE \E p \in Paths : Mknod(w, p)
    BY <1>1, <2>1 DEF Mknod
  <2>2. CASE \E z \in 1..MaxSize : TruncateServer(w, z)
    <3> PICK z \in 1..MaxSize : TruncateServer(w, z)
      BY <2>2
    <3>1. path[w] \in Paths
      BY DEF PreloadInv, WorkerInv, TruncateServer, At
    <3>2. z \in 0..MaxSize
      OBVIOUS
    <3> QED
      BY <1>1, <1>2, <3>1, <3>2 DEF TruncateServer
  <2>3. CASE UNCHANGED srvVars
    BY <1>2, <2>3
  <2> QED
    BY <1>5, <2>1, <2>2, <2>3
    DEF WorkerStep, OpenRead, Truncate, Read, PreloadFile, TruncateCache, MknodInvalidate,
        ReadLocal
<1>6. ASSUME NEW p \in Paths, FileStep(p) PROVE SrvInv'
  <2>1. CASE \E z \in 1..MaxSize : Write(p, z)
    BY <1>1, <2>1 DEF Write
  <2> QED
    BY <1>2, <1>3, <1>4, <1>6, <2>1 DEF FileStep, OpenWrite, Release
<1>7. ASSUME NEW p \in Paths, JobStep(p) PROVE SrvInv'
  BY <1>2, <1>7
  DEF JobStep, JobGet, JobFail, JobWrite, JobGot, JobComplete, JobUnlist, JobFree
<1>8. CASE MainStep \/ Mount \/ Crash
  BY <1>2, <1>8 DEF MainStep, Unmount, WaitTake, WaitJoin, WaitDone, Uninit, Mount, Crash
<1> QED
  BY <1>2, <1>5, <1>6, <1>7, <1>8 DEF Next, vars

\* Most steps make no entry, move no download forward to where it may make one
\* unless its copy is gone, and do not start a new mount over .part files.
JobsStop ==
  \A p \in Paths :
    /\ job'[p] = "got" => job[p] = "got"
    /\ job'[p] \in {"run", "get", "got"} =>
         job[p] \in {"run", "get", "got"} \/ cache'[p] = 0

MountClean ==
  main' = "mounted" => \/ main = "mounted" /\ mount' = mount
                       \/ \A p \in Paths : part'[p] = 0

Quiet == DirShrinks /\ JobsStop /\ MountClean

LEMMA QuietKeeps ==
  ASSUME DirInv, OwnParts, Quiet
  PROVE  DirInv' /\ OwnParts'
<1>0. Apart'
  <2>1. \A p \in Paths : cache'[p] # 0 => cache'[p] = cache[p]
    BY DEF Quiet, DirShrinks
  <2>2. \A p \in Paths : part'[p] # 0 => part'[p] = part[p]
    BY DEF Quiet, DirShrinks
  <2>3. Apart
    BY DEF DirInv
  <2>4. \A p, q \in Paths : cache'[p] # 0 => cache'[p] # part'[q]
    BY <2>1, <2>2, <2>3 DEF Apart
  <2> QED
    BY <2>1, <2>2, <2>3, <2>4 DEF Apart
<1>1. DirInv'
  BY <1>0 DEF DirInv, Quiet, DirShrinks, JobsStop
<1>2. OwnParts'
  BY DEF OwnParts, Quiet, DirShrinks, MountClean
<1> QED
  BY <1>1, <1>2

LEMMA DirCases ==
  ASSUME PreloadInv, [Next]_vars
  PROVE  \/ Quiet
         \/ \E w \in Workers : TruncateCache(w)
         \/ \E p, q \in Paths : Rename(p, q)
         \/ \E p \in Paths : JobGet(p) \/ JobWrite(p) \/ JobGot(p) \/ JobComplete(p)
<1>0. DirInv /\ HandleInv /\ ListInv /\ WorkerInv
  BY DEF PreloadInv
<1>1. CASE UNCHANGED <<dirVars, job, main, mount>>
  BY <1>0, <1>1, SameDirShrinks DEF dirVars, Quiet, JobsStop, MountClean
<1>2. ASSUME DirShrinks, UNCHANGED <<job, main, mount>> PROVE Quiet
  BY <1>2 DEF Quiet, JobsStop, MountClean
<1>3. ASSUME NEW w \in Workers, WorkerStep(w), ~TruncateCache(w) PROVE Quiet
  <2>1. CASE PreloadFile(w)
    <3>1. /\ DirShrinks /\ path[w] \in Paths
          /\ \/ job' = job
             \/ cache'[path[w]] = 0 /\ startPreload(path[w], st[w])
      BY <1>0, <2>1, PreloadFileEffect
    <3>2. JobsStop
      BY <1>0, <3>1 DEF JobsStop, startPreload, ListInv
    <3>3. MountClean
      BY <2>1 DEF PreloadFile, MountClean, mainVars
    <3> QED
      BY <3>1, <3>2, <3>3 DEF Quiet
  <2>2. CASE MknodInvalidate(w)
    BY <1>0, <1>2, <2>2, SameDirShrinks, UnlinkFilesShrinks
    DEF MknodInvalidate, jobVars, mainVars, dirVars
  <2>3. CASE UNCHANGED <<dirVars, job, main, mount>>
    BY <1>0, <2>3, SameDirShrinks DEF dirVars, Quiet, JobsStop, MountClean
  <2> QED
    BY <1>3, <2>1, <2>2, <2>3
    DEF WorkerStep, OpenRead, Truncate, Read, Mknod, TruncateServer, ReadLocal, jobVars,
        mainVars, dirVars
<1>4. ASSUME NEW p \in Paths, Unlink(p) PROVE Quiet
  BY <1>0, <1>2, <1>4, SameDirShrinks, UnlinkFilesShrinks DEF Unlink, jobVars, mainVars, dirVars
<1>5. ASSUME NEW p \in Paths, Release(p) PROVE Quiet
  <2>1. CASE CloseFd(p)
    <3> DEFINE f == [fds EXCEPT ![handle[p]] = 0]
    <3>1. SetDir(cache, part, f, inode)
      BY <2>1 DEF CloseFd
    <3> HIDE DEF f
    <3>2. DirShrinks
      BY <1>0, <3>1, SetDirKeeps DEF DirInv, DirShrinks
    <3> QED
      BY <1>2, <1>5, <3>2 DEF Release, jobVars, mainVars
  <2>2. CASE UNCHANGED <<dirVars, hdlVars>>
    BY <1>0, <1>2, <1>5, <2>2, SameDirShrinks DEF Release, jobVars, mainVars, dirVars
  <2> QED
    BY <1>5, <2>1, <2>2 DEF Release, closePreloadedFile
<1>6. ASSUME NEW p \in Paths, FileStep(p), ~\E q \in Paths : Rename(p, q) PROVE Quiet
  <2>1. CASE UNCHANGED <<dirVars, job, main, mount>>
    BY <1>0, <2>1, SameDirShrinks DEF dirVars, Quiet, JobsStop, MountClean
  <2> QED
    BY <1>4, <1>5, <1>6, <2>1 DEF FileStep, Write, OpenWrite, jobVars, mainVars, dirVars
<1>7. ASSUME NEW p \in Paths, JobFail(p) \/ JobUnlist(p) \/ JobFree(p) PROVE Quiet
  <2>1. DirShrinks
    BY <1>0, <1>7, SameDirShrinks DEF JobFail, JobUnlist, JobFree, dirVars
  <2>2. JobsStop
    BY <1>0, <1>7 DEF JobFail, JobUnlist, JobFree, Step, JobsStop, ListInv
  <2>3. MountClean
    BY <1>7 DEF JobFail, JobUnlist, JobFree, MountClean, mainVars
  <2> QED
    BY <2>1, <2>2, <2>3 DEF Quiet
<1>8. ASSUME NEW F, NoProcess(F) PROVE Quiet
  <2>1. DirShrinks
    BY <1>0, <1>8, UnlinkShrinks DEF NoProcess
  <2>2. JobsStop /\ MountClean
    BY <1>8 DEF NoProcess, JobsStop, MountClean
  <2> QED
    BY <2>1, <2>2 DEF Quiet
<1>9. CASE Mount
  <2>1. UnlinkFiles(Cleaned(clearCache'))
    BY <1>9 DEF Mount
  <2>2. /\ DirShrinks
        /\ \A p \in Paths : <<"part", p>> \in Cleaned(clearCache') => part'[p] = 0
    BY <1>0, <2>1, UnlinkFilesShrinks
  <2>3. \A p \in Paths : part'[p] = 0
    <3> SUFFICES ASSUME NEW p \in Paths, part'[p] # 0 PROVE FALSE
      OBVIOUS
    <3>1. part[p] # 0
      BY <2>2 DEF DirShrinks
    <3>2. <<"part", p>> \in DiskFiles
      BY <3>1 DEF DiskFiles
    <3>3. <<"part", p>> \in Cleaned(clearCache')
      BY <3>2 DEF Cleaned
    <3> QED
      BY <2>2, <3>3
  <2>4. JobsStop
    BY <1>9 DEF Mount, JobsStop, jobVars
  <2> QED
    BY <2>2, <2>3, <2>4 DEF Quiet, MountClean
<1>10. CASE MainStep
  <2>1. CASE Uninit
    BY <1>8, <2>1 DEF Uninit
  <2>2. CASE Unmount \/ WaitTake \/ WaitJoin \/ WaitDone
    <3>1. DirShrinks
      BY <1>0, <2>2, SameDirShrinks DEF Unmount, WaitTake, WaitJoin, WaitDone, dirVars
    <3>2. JobsStop
      BY <2>2 DEF Unmount, WaitTake, WaitJoin, WaitDone, jobVars, JobsStop
    <3>3. MountClean
      BY <2>2 DEF Unmount, WaitTake, WaitJoin, WaitDone, MountClean
    <3> QED
      BY <3>1, <3>2, <3>3 DEF Quiet
  <2> QED
    BY <1>10, <2>1, <2>2 DEF MainStep
<1>11. CASE Crash
  BY <1>8, <1>11 DEF Crash
<1>12. CASE UNCHANGED vars
  BY <1>1, <1>12 DEF vars, jobVars, mainVars
<1> QED
  BY <1>3, <1>6, <1>7, <1>9, <1>10, <1>11, <1>12 DEF Next, JobStep, FileStep

LEMMA DirStep == PreloadInv /\ [Next]_vars => DirInv' /\ OwnParts'
<1> SUFFICES ASSUME PreloadInv, [Next]_vars PROVE DirInv' /\ OwnParts'
  OBVIOUS
<1> USE Constants
<1>0. DirInv /\ OwnParts /\ HandleInv /\ ListInv /\ WorkerInv /\ SrvInv /\ MainInv
  BY DEF PreloadInv
<1>1. CASE Quiet
  BY <1>0, <1>1, QuietKeeps
<1>2. ASSUME NEW w \in Workers, TruncateCache(w) PROVE DirInv' /\ OwnParts'
  <2>1. /\ cache' = cache /\ part' = part /\ job' = job /\ main' = main /\ mount' = mount
        /\ path[w] \in Paths /\ st[w].size \in 0..MaxSize /\ st[w].ver \in 0..MaxVersion
    <3>1. pc[w] = "truncCache" /\ st[w] \in Stat
      BY <1>0, <1>2 DEF TruncateCache, At, WorkerInv
    <3> QED
      BY <1>0, <1>2, <3>1 DEF TruncateCache, jobVars, mainVars, WorkerInv, Stat
  <2>2. /\ inode' \in [Inodes -> InodeType]
        /\ \A i \in Inodes : /\ inode'[i].whole = inode[i].whole
                             /\ inode'[i].ver \in {inode[i].ver, Mixed}
                             /\ inode'[i].mount = inode[i].mount
    <3>1. CASE ~hasCache(path[w])
      BY <1>0, <1>2, <3>1 DEF TruncateCache, DirInv
    <3>2. CASE hasCache(path[w])
      <4> DEFINE i == cache[path[w]]
      <4>1. i \in Inodes
        BY <1>0, <2>1, <3>2 DEF hasCache, DirInv
      <4>2. PICK now \in {0, st[w].ver} :
                   inode' = [inode EXCEPT ![i] = [@ EXCEPT !.ver = Mixed, !.size = st[w].size,
                                                           !.mtime = now]]
        BY <1>2, <3>2 DEF TruncateCache, truncatedTo
      <4> HIDE DEF i
      <4>3. now \in 0..MaxVersion /\ Mixed \in 0..Mixed /\ st[w].size \in 0..MaxSize
        BY <2>1
      <4>4. inode \in [Inodes -> InodeType]
        BY <1>0 DEF DirInv
      <4>5. \A j \in Inodes :
              inode'[j] = IF j = i THEN [inode[j] EXCEPT !.ver = Mixed, !.size = st[w].size,
                                                         !.mtime = now]
                                   ELSE inode[j]
        BY <4>1, <4>2, <4>4
      <4>6. ASSUME NEW j \in Inodes
            PROVE  /\ inode'[j] \in InodeType /\ inode'[j].whole = inode[j].whole
                   /\ inode'[j].ver \in {inode[j].ver, Mixed}
                   /\ inode'[j].mount = inode[j].mount
        <5>1. inode[j] \in InodeType
          BY <4>4
        <5> QED
          BY <4>3, <4>5, <5>1 DEF InodeType
      <4>7. inode' \in [Inodes -> InodeType]
        BY <4>2, <4>4, <4>6
      <4> QED
        BY <4>6, <4>7
    <3> QED
      BY <3>1, <3>2
  <2>3. DirInv'
    BY <1>0, <2>1, <2>2 DEF DirInv, Apart
  <2>4. OwnParts'
    BY <1>0, <2>1, <2>2 DEF OwnParts, DirInv
  <2> QED
    BY <2>3, <2>4
<1>3. ASSUME NEW p \in Paths, NEW q \in Paths, Rename(p, q) PROVE DirInv' /\ OwnParts'
  <2> DEFINE c == IF hasCache(p) THEN [cache EXCEPT ![q] = cache[p], ![p] = 0] ELSE cache
  <2>1. /\ SetDir(c, part, fds, inode)
        /\ job' = job /\ main' = main /\ mount' = mount /\ job[p] = "none" /\ job[q] = "none"
    BY <1>3 DEF Rename, jobVars, mainVars, renameBusy, isFilePreloading
  <2>2. /\ c \in [Paths -> Inodes \cup {0}]
        /\ \A x \in Paths \ {q} : c[x] \in {0, cache[x]}
        /\ c[q] \in {0, cache[p], cache[q]}
    BY <1>0, <1>3 DEF DirInv, Rename
  <2> HIDE DEF c
  <2>3. /\ cache' = c /\ part' = part /\ inode' \in [Inodes -> InodeType]
        /\ \A x \in Paths : c[x] # 0 => inode'[c[x]] = inode[c[x]]
        /\ \A x \in Paths : part[x] # 0 => inode'[part[x]] = inode[part[x]]
    BY <1>0, <2>1, <2>2, SetDirKeeps DEF DirInv
  <2>a. Apart'
    <3>1. /\ \A x \in Paths : c[x] # 0 => \E y \in Paths : c[x] = cache[y]
          /\ \A x, y \in Paths : c[x] # 0 /\ c[x] = c[y] => x = y
      <4>1. \A x, y \in Paths : cache[x] # 0 /\ cache[x] = cache[y] => x = y
        BY <1>0 DEF DirInv, Apart
      <4>2. p # q
        BY <1>3 DEF Rename
      <4>3. CASE hasCache(p)
        <5>1. c[q] = cache[p] /\ c[p] = 0 /\ \A x \in Paths \ {p, q} : c[x] = cache[x]
          BY <1>0, <4>2, <4>3 DEF c, DirInv
        <5> QED
          BY <4>1, <5>1
      <4>4. CASE ~hasCache(p)
        BY <4>1, <4>4 DEF c
      <4> QED
        BY <4>3, <4>4
    <3> QED
      BY <1>0, <2>3, <3>1 DEF DirInv, Apart
  <2>4. DirInv'
    BY <1>0, <2>1, <2>2, <2>3, <2>a DEF DirInv
  <2>5. OwnParts'
    BY <1>0, <2>1, <2>3 DEF OwnParts
  <2> QED
    BY <2>4, <2>5
<1>4. ASSUME NEW p \in Paths, JobGet(p) PROVE DirInv' /\ OwnParts'
  <2> DEFINE i == Min(Inodes \ Used(cache, part, fds))
             r == [ver |-> server[p].ver, size |-> 0, mtime |-> 0,
                   whole |-> FALSE, mount |-> mount]
             pt == [part EXCEPT ![p] = i]
             ino == [inode EXCEPT ![i] = r]
  <2>1. /\ i \in Inodes /\ i \notin Used(cache, part, fds)
    BY <1>0, <1>4, FreeInode DEF JobGet
  <2>2. /\ SetDir(cache, pt, fds, ino)
        /\ job[p] = "run" /\ job' = [job EXCEPT ![p] = "get"]
        /\ main' = main /\ mount' = mount
    BY <1>4 DEF JobGet, Step, mainVars
  <2>3. r \in InodeType /\ r.ver # 0 /\ r.mount = mount
    BY <1>0, <1>4 DEF JobGet, Exists, SrvInv, Stat, InodeType, MainInv
  <2> HIDE DEF i, r
  <2>4. pt \in [Paths -> Inodes \cup {0}] /\ ino \in [Inodes -> InodeType]
    BY <1>0, <2>1, <2>3 DEF DirInv
  <2>5. \A x \in Paths : cache[x] # i /\ part[x] # i
    BY <1>0, <2>1 DEF Used, Range, DirInv
  <2>6. /\ pt[p] = i /\ \A x \in Paths \ {p} : pt[x] = part[x]
        /\ ino[i] = r /\ \A j \in Inodes \ {i} : ino[j] = inode[j]
    BY <1>0, <2>1 DEF DirInv
  <2> HIDE DEF pt, ino
  <2>7. /\ cache' = cache /\ part' = pt /\ inode' \in [Inodes -> InodeType]
        /\ \A x \in Paths : cache[x] # 0 => inode'[cache[x]] = ino[cache[x]]
        /\ \A x \in Paths : pt[x] # 0 => inode'[pt[x]] = ino[pt[x]]
    BY <1>0, <2>2, <2>4, SetDirKeeps DEF DirInv
  <2>8. job'[p] = "get" /\ \A x \in Paths \ {p} : job'[x] = job[x]
    BY <1>0, <2>2 DEF ListInv
  <2>a. Apart'
    <3>1. Apart /\ i # 0
      BY <1>0, <2>1 DEF DirInv, Inodes
    <3> QED
      BY <2>5, <2>6, <2>7, <3>1 DEF Apart
  <2>9. DirInv'
    BY <1>0, <2>2, <2>3, <2>4, <2>5, <2>6, <2>7, <2>8, <2>a DEF DirInv
  <2>10. OwnParts'
    BY <1>0, <2>2, <2>3, <2>4, <2>5, <2>6, <2>7 DEF OwnParts, DirInv
  <2> QED
    BY <2>9, <2>10
<1>5. ASSUME NEW p \in Paths, JobGot(p) PROVE DirInv' /\ OwnParts'
  <2>1. /\ cache' = cache /\ part' = part /\ main' = main /\ mount' = mount
        /\ job[p] = "get" /\ job'[p] = "got" /\ \A x \in Paths \ {p} : job'[x] = job[x]
    BY <1>0, <1>5 DEF JobGot, Step, mainVars, ListInv
  <2>2. /\ inode' \in [Inodes -> InodeType]
        /\ \A i \in Inodes : /\ inode[i].whole => inode'[i].whole
                             /\ inode'[i].ver \in {inode[i].ver, Mixed}
                             /\ inode'[i].mount = inode[i].mount
        /\ part[p] # 0 => inode'[part[p]].whole
    <3>1. CASE part[p] = 0
      BY <1>0, <1>5, <3>1 DEF JobGot, DirInv
    <3>2. CASE part[p] # 0
      <4> DEFINE v == IF Changed(p) THEN Mixed ELSE inode[part[p]].ver
      <4>1. inode' = [inode EXCEPT ![part[p]] = [@ EXCEPT !.whole = TRUE, !.ver = v]]
        BY <1>5, <3>2 DEF JobGot
      <4>2. part[p] \in Inodes
        BY <1>0, <3>2 DEF DirInv
      <4>3. v \in {inode[part[p]].ver, Mixed} /\ v \in 0..Mixed
        BY <1>0, <4>2 DEF DirInv, InodeType
      <4> HIDE DEF v
      <4> QED
        BY <1>0, <4>1, <4>2, <4>3 DEF DirInv, InodeType
    <3> QED
      BY <3>1, <3>2
  <2>3. DirInv'
    BY <1>0, <2>1, <2>2 DEF DirInv, Apart
  <2>4. OwnParts'
    BY <1>0, <2>1, <2>2 DEF OwnParts, DirInv
  <2> QED
    BY <2>3, <2>4
<1>7. ASSUME NEW p \in Paths, JobWrite(p) PROVE DirInv' /\ OwnParts'
  <2>1. UNCHANGED <<cache, part, main, mount, job>>
    BY <1>7 DEF JobWrite, mainVars, jobVars
  <2>2. /\ inode' \in [Inodes -> InodeType]
        /\ \A i \in Inodes : /\ inode'[i].whole = inode[i].whole
                             /\ inode'[i].ver = inode[i].ver
                             /\ inode'[i].mount = inode[i].mount
    <3>1. part[p] \in Inodes
      BY <1>0, <1>7 DEF JobWrite, DirInv
    <3>2. inode[part[p]] \in InodeType
      BY <1>0, <3>1 DEF DirInv
    <3>3. inode[part[p]].size + 1 \in 0..MaxSize
      <4>1. inode[part[p]].size \in 0..MaxSize
        BY <3>2 DEF InodeType
      <4>2. server[p].size \in Nat /\ server[p].size <= MaxSize
        BY <1>0 DEF SrvInv, Stat
      <4>3. inode[part[p]].size < server[p].size
        BY <1>7 DEF JobWrite
      <4> QED
        BY <4>1, <4>2, <4>3
    <3>4. inode' = [inode EXCEPT ![part[p]].size = @ + 1]
      BY <1>7 DEF JobWrite
    <3>5. /\ inode \in [Inodes -> InodeType] /\ DOMAIN inode' = Inodes
          /\ \A j \in Inodes :
               inode'[j] = IF j = part[p] THEN [inode[j] EXCEPT !.size = inode[part[p]].size + 1]
                                          ELSE inode[j]
          /\ inode' = [j \in Inodes |-> inode'[j]]
      BY <1>0, <3>1, <3>4 DEF DirInv
    <3>6. ASSUME NEW j \in Inodes
          PROVE  /\ inode'[j] \in InodeType /\ inode'[j].whole = inode[j].whole
                 /\ inode'[j].ver = inode[j].ver /\ inode'[j].mount = inode[j].mount
      <4>1. inode[j] \in InodeType
        BY <3>5
      <4> QED
        BY <3>3, <3>5, <4>1 DEF InodeType
    <3>7. inode' \in [Inodes -> InodeType]
      BY <3>5, <3>6
    <3> QED
      BY <3>6, <3>7
  <2>3. DirInv'
    BY <1>0, <2>1, <2>2 DEF DirInv, Apart
  <2>4. OwnParts'
    BY <1>0, <2>1, <2>2 DEF OwnParts, DirInv
  <2> QED
    BY <2>3, <2>4
<1>6. ASSUME NEW p \in Paths, JobComplete(p) PROVE DirInv' /\ OwnParts'
  <2>1. /\ main' = main /\ mount' = mount
        /\ job[p] = "got" /\ job'[p] = "end" /\ \A x \in Paths \ {p} : job'[x] = job[x]
    BY <1>0, <1>6 DEF JobComplete, Step, mainVars, ListInv
  <2>2. CASE part[p] = 0
    <3>1. DirShrinks
      BY <1>0, <1>6, <2>2, SameDirShrinks DEF JobComplete, dirVars
    <3> QED
      BY <1>0, <2>1, <3>1, QuietKeeps DEF Quiet, JobsStop, MountClean
  <2>3. CASE part[p] # 0
    <3> DEFINE i == part[p]
               c == [cache EXCEPT ![p] = i]
               pt == [part EXCEPT ![p] = 0]
               ino == [inode EXCEPT ![i] = [@ EXCEPT !.mtime = jobStat[p].ver]]
    <3>1. SetDir(c, pt, fds, ino) /\ i \in Inodes /\ jobStat[p].ver \in 0..MaxVersion
      BY <1>0, <1>6, <2>3 DEF JobComplete, DirInv, ListInv, Stat
    <3>2. c \in [Paths -> Inodes \cup {0}] /\ pt \in [Paths -> Inodes \cup {0}]
      BY <1>0, <3>1 DEF DirInv
    <3>3. /\ ino \in [Inodes -> InodeType]
          /\ \A j \in Inodes : /\ ino[j].whole = inode[j].whole
                               /\ ino[j].ver = inode[j].ver
                               /\ ino[j].mount = inode[j].mount
      BY <1>0, <3>1 DEF DirInv, InodeType
    <3>4. /\ c[p] = part[p] /\ \A x \in Paths \ {p} : c[x] = cache[x]
          /\ pt[p] = 0 /\ \A x \in Paths \ {p} : pt[x] = part[x]
      BY <1>0 DEF DirInv
    <3> HIDE DEF c, pt, ino
    <3>5. /\ cache' = c /\ part' = pt /\ inode' \in [Inodes -> InodeType]
          /\ \A x \in Paths : c[x] # 0 => inode'[c[x]] = ino[c[x]]
          /\ \A x \in Paths : pt[x] # 0 => inode'[pt[x]] = ino[pt[x]]
      BY <3>1, <3>2, <3>3, SetDirKeeps
    <3>a. Apart'
      <4>1. Apart /\ \A x \in Paths : cache[x] # 0 => cache[x] # part[p]
        BY <1>0 DEF DirInv, Apart
      <4> QED
        BY <2>3, <3>4, <3>5, <4>1 DEF Apart
    <3>6. DirInv'
      BY <1>0, <2>1, <2>3, <3>2, <3>3, <3>4, <3>5, <3>a DEF DirInv
    <3>7. OwnParts'
      BY <1>0, <2>1, <3>2, <3>3, <3>4, <3>5 DEF OwnParts, DirInv
    <3> QED
      BY <3>6, <3>7
  <2> QED
    BY <2>2, <2>3
<1> QED
  BY <1>1, <1>2, <1>3, <1>4, <1>5, <1>6, <1>7, DirCases

LEMMA HandleStep == PreloadInv /\ [Next]_vars => HandleInv'
<1> SUFFICES ASSUME PreloadInv, [Next]_vars PROVE HandleInv'
  OBVIOUS
<1>0. DirInv /\ HandleInv /\ ListInv /\ WorkerInv
  BY DEF PreloadInv
<1>1. CASE fds' = fds /\ handle' = handle
  BY <1>0, <1>1 DEF HandleInv
<1>2. ASSUME NEW w \in Workers, NEW p \in Paths, Read(w, p) PROVE HandleInv'
  <2>1. CASE handle[p] # 0
    BY <1>1, <1>2, <2>1 DEF Read, hdlVars
  <2>2. CASE handle[p] = 0
    <3> DEFINE f == Min({g \in Fds : fds[g] = 0})
    <3>1. f \in Fds /\ fds[f] = 0
      BY <1>0, <2>2, FreeFd
    <3>2. /\ handle' = [handle EXCEPT ![p] = f]
          /\ fds' = [fds EXCEPT ![f] = cache[p]] /\ cache[p] # 0
      BY <1>2, <2>2 DEF Read, hasCache
    <3> HIDE DEF f
    <3>3. cache[p] \in Inodes
      BY <1>0, <3>2 DEF DirInv
    <3>4. 0 \notin Fds
      BY Constants DEF Fds
    <3>5. /\ handle' \in [Paths -> Fds \cup {0}] /\ fds' \in [Fds -> Inodes \cup {0}]
          /\ handle'[p] = f /\ \A q \in Paths \ {p} : handle'[q] = handle[q]
          /\ fds'[f] = cache[p] /\ \A g \in Fds \ {f} : fds'[g] = fds[g]
      BY <1>0, <3>1, <3>2, <3>3 DEF HandleInv
    <3>6. \A q \in Paths : handle[q] # f
      BY <1>0, <3>1, <3>4 DEF HandleInv
    <3> QED
      BY <1>0, <2>2, <3>1, <3>2, <3>4, <3>5, <3>6 DEF HandleInv
  <2> QED
    BY <2>1, <2>2
<1>3. ASSUME NEW p \in Paths, Release(p) PROVE HandleInv'
  <2>1. CASE hasCache(p) /\ handle[p] # 0
    <3> DEFINE f == handle[p]
    <3>1. /\ handle' = [handle EXCEPT ![p] = 0] /\ fds' = [fds EXCEPT ![f] = 0]
          /\ f \in Fds
      BY <1>0, <1>3, <2>1 DEF Release, closePreloadedFile, CloseFd, SetDir, HandleInv
    <3>2. /\ handle' \in [Paths -> Fds \cup {0}] /\ fds' \in [Fds -> Inodes \cup {0}]
          /\ handle'[p] = 0 /\ \A q \in Paths \ {p} : handle'[q] = handle[q]
          /\ fds'[f] = 0 /\ \A g \in Fds \ {f} : fds'[g] = fds[g]
      BY <1>0, <3>1 DEF HandleInv
    <3> QED
      BY <1>0, <2>1, <3>1, <3>2 DEF HandleInv
  <2>2. CASE ~(hasCache(p) /\ handle[p] # 0)
    BY <1>1, <1>3, <2>2 DEF Release, hdlVars
  <2> QED
    BY <2>1, <2>2
<1>4. ASSUME NEW F, NoProcess(F) PROVE HandleInv'
  BY <1>4 DEF NoProcess, SetDir, HandleInv
<1>5. ASSUME NEW w \in Workers, WorkerStep(w) PROVE HandleInv'
  <2>1. CASE PreloadFile(w)
    BY <1>0, <1>1, <2>1, PreloadFileEffect DEF PreloadFile
  <2>2. CASE MknodInvalidate(w)
    BY <1>0, <1>1, <2>2, UnlinkFilesShrinks DEF MknodInvalidate
  <2> QED
    BY <1>1, <1>2, <1>5, <2>1, <2>2
    DEF WorkerStep, OpenRead, Truncate, Mknod, TruncateCache, TruncateServer, ReadLocal, hdlVars
<1>6. ASSUME NEW p \in Paths, FileStep(p) PROVE HandleInv'
  <2>1. CASE Unlink(p)
    BY <1>0, <1>1, <2>1, UnlinkFilesShrinks DEF Unlink
  <2>2. CASE \E q \in Paths : Rename(p, q)
    BY <1>1, <2>2 DEF Rename, SetDir
  <2> QED
    BY <1>1, <1>3, <1>6, <2>1, <2>2 DEF FileStep, Write, OpenWrite, hdlVars
<1>7. ASSUME NEW p \in Paths, JobStep(p) PROVE HandleInv'
  BY <1>1, <1>7
  DEF JobStep, JobGet, JobFail, JobWrite, JobGot, JobComplete, JobUnlist, JobFree, SetDir, hdlVars
<1>8. CASE MainStep \/ Crash
  BY <1>1, <1>4, <1>8
  DEF MainStep, Unmount, WaitTake, WaitJoin, WaitDone, Uninit, Crash, hdlVars
<1>9. CASE Mount
  BY <1>0, <1>1, <1>9, UnlinkFilesShrinks DEF Mount
<1> QED
  BY <1>1, <1>5, <1>6, <1>7, <1>8, <1>9 DEF Next, vars, hdlVars

LEMMA ListStep == PreloadInv /\ [Next]_vars => ListInv'
<1> SUFFICES ASSUME PreloadInv, [Next]_vars PROVE ListInv'
  OBVIOUS
<1>0. DirInv /\ HandleInv /\ ListInv /\ WorkerInv /\ MainInv
  BY DEF PreloadInv
<1>1. CASE UNCHANGED <<jobVars, main, left, joining>>
  BY <1>0, <1>1 DEF ListInv, jobVars
<1>2. ASSUME NEW w \in Workers, PreloadFile(w) PROVE ListInv'
  <2> DEFINE p == path[w]
  <2>0. /\ PreloadLock' = PreloadLock /\ p \in Paths
        /\ \/ list' = list /\ job' = job /\ jobStat' = jobStat
           \/ main = "mounted" /\ job[p] = "none" /\ startPreload(p, st[w])
        /\ main' = main /\ left' = left /\ joining' = joining
    BY <1>0, <1>2, PreloadFileEffect DEF PreloadFile, mainVars
  <2>1. CASE list' = list /\ job' = job /\ jobStat' = jobStat
    BY <1>0, <2>0, <2>1 DEF ListInv
  <2>2. CASE main = "mounted" /\ job[p] = "none" /\ startPreload(p, st[w])
    <3>1. /\ list' = Append(list, p) /\ job' = [job EXCEPT ![p] = "run"]
          /\ jobStat' = [jobStat EXCEPT ![p] = st[w]] /\ st[w] \in Stat
      BY <1>0, <2>2 DEF startPreload, WorkerInv
    <3>2. p \notin ToSet(list)
      BY <1>0, <2>2 DEF ListInv
    <3> HIDE DEF p
    <3>3. list' \in Seq(Paths) /\ IsInjective(list') /\ ToSet(list') = ToSet(list) \cup {p}
      BY <1>0, <2>0, <3>1, <3>2, AppendElements DEF ListInv
    <3>4. /\ job' \in [Paths -> {"none", "run", "get", "got", "end", "free"}]
          /\ job'[p] = "run" /\ \A q \in Paths \ {p} : job'[q] = job[q]
          /\ jobStat' \in [Paths -> Stat]
      BY <1>0, <2>0, <3>1 DEF ListInv
    <3>5. ToSet(list) \subseteq Paths
      BY <1>0 DEF ListInv, ToSet
    <3> QED
      BY <1>0, <2>0, <2>2, <3>3, <3>4, <3>5 DEF ListInv
  <2> QED
    BY <2>0, <2>1, <2>2
<1>3. ASSUME NEW p \in Paths, NEW l \in {"get", "got", "end"}, job[p] \in {"run", "get", "got"},
             job' = [job EXCEPT ![p] = l],
             UNCHANGED <<list, jobStat, PreloadLock, main, left, joining>>
      PROVE  ListInv'
  <2>1. /\ job' \in [Paths -> {"none", "run", "get", "got", "end", "free"}]
        /\ job'[p] = l /\ \A q \in Paths \ {p} : job'[q] = job[q]
    BY <1>0, <1>3 DEF ListInv
  <2>2. ToSet(list) \subseteq Paths
    BY <1>0 DEF ListInv, ToSet
  <2> QED
    BY <1>0, <1>3, <2>1, <2>2 DEF ListInv
<1>4. ASSUME NEW p \in Paths, JobUnlist(p) PROVE ListInv'
  <2>1. /\ job[p] = "end" /\ job' = [job EXCEPT ![p] = "free"] /\ list' = RemoveFirst(list, p)
        /\ PreloadLock' = {p}
        /\ jobStat' = jobStat /\ main' = main /\ left' = left /\ joining' = joining
    BY <1>4 DEF JobUnlist, Step, mainVars
  <2>2. /\ list' \in Seq(Paths) /\ IsInjective(list') /\ ToSet(list') = ToSet(list) \ {p}
        /\ Len(list') <= Len(list)
    BY <1>0, <2>1, RemoveFirstElements DEF ListInv
  <2>3. /\ job' \in [Paths -> {"none", "run", "get", "got", "end", "free"}]
        /\ job'[p] = "free" /\ \A q \in Paths \ {p} : job'[q] = job[q]
    BY <1>0, <2>1 DEF ListInv
  <2>4. ToSet(list) \subseteq Paths /\ left \in Nat /\ Len(list) \in Nat /\ Len(list') \in Nat
    BY <1>0, <2>2 DEF ListInv, ToSet, MainInv
  <2> QED
    BY <1>0, <2>1, <2>2, <2>3, <2>4 DEF ListInv
<1>5. ASSUME NEW p \in Paths, JobFree(p) PROVE ListInv'
  <2>1. /\ job[p] = "free" /\ job' = [job EXCEPT ![p] = "none"] /\ list' = list
        /\ jobStat' = [jobStat EXCEPT ![p] = NoFile] /\ PreloadLock' = {}
        /\ main' = main /\ left' = left /\ joining' = joining
    BY <1>5 DEF JobFree, Step, mainVars
  <2>2. NoFile \in Stat
    BY Constants DEF NoFile, Stat
  <2>3. /\ job' \in [Paths -> {"none", "run", "get", "got", "end", "free"}]
        /\ job'[p] = "none" /\ \A q \in Paths \ {p} : job'[q] = job[q]
        /\ jobStat' \in [Paths -> Stat]
    BY <1>0, <2>1, <2>2 DEF ListInv
  <2>4. ToSet(list) \subseteq Paths
    BY <1>0 DEF ListInv, ToSet
  <2> QED
    BY <1>0, <2>1, <2>3, <2>4 DEF ListInv
<1>6. ASSUME NEW F, NoProcess(F) PROVE ListInv'
  <2>1. NoFile \in Stat
    BY Constants DEF NoFile, Stat
  <2>2. IsInjective(<<>>) /\ ToSet(<<>>) = {} /\ <<>> \in Seq(Paths)
    BY DEF IsInjective, ToSet
  <2> QED
    BY <1>6, <2>1, <2>2 DEF NoProcess, ListInv
<1>7. CASE Unmount
  BY <1>0, <1>7 DEF Unmount, ListInv, jobVars
<1>8. CASE WaitTake
  <2>1. CASE list = <<>>
    <3>1. /\ list' = <<>> /\ main' = "wait" /\ left' = left - 1 /\ left > 0 /\ left \in Nat
          /\ Len(list') = 0
      BY <1>0, <1>8, <2>1 DEF WaitTake, MainInv
    <3> QED
      BY <1>0, <1>8, <2>1, <3>1 DEF WaitTake, ListInv
  <2>2. CASE list # <<>>
    <3>1. /\ list' = Tail(list) /\ joining' = {Head(list)} /\ main = "wait" /\ main' = "join"
          /\ left' = left - 1 /\ left \in Nat
          /\ job' = job /\ jobStat' = jobStat /\ PreloadLock' = PreloadLock
      BY <1>0, <1>8, <2>2 DEF WaitTake, MainInv
    <3>2. /\ list' \in Seq(Paths) /\ Len(list') = Len(list) - 1 /\ IsInjective(list')
          /\ ToSet(list) = ToSet(list') \cup joining' /\ Len(list) \in Nat
      BY <1>0, <2>2, <3>1, TailElements DEF ListInv
    <3> QED
      BY <1>0, <3>1, <3>2 DEF ListInv
  <2> QED
    BY <2>1, <2>2
<1>9. CASE WaitJoin
  BY <1>0, <1>9 DEF WaitJoin, ListInv, jobVars
<1>10. CASE WaitDone
  BY <1>0, <1>10 DEF WaitDone, ListInv, jobVars
<1>11. CASE Mount
  BY <1>0, <1>11 DEF Mount, ListInv, jobVars
<1>12. ASSUME NEW w \in Workers, WorkerStep(w) PROVE ListInv'
  BY <1>1, <1>2, <1>12
  DEF WorkerStep, OpenRead, Truncate, Mknod, Read, TruncateCache, TruncateServer, ReadLocal,
      MknodInvalidate, mainVars
<1>13. ASSUME NEW p \in Paths, FileStep(p) PROVE ListInv'
  BY <1>1, <1>13 DEF FileStep, Write, OpenWrite, Unlink, Release, Rename, mainVars
<1>14. ASSUME NEW p \in Paths, JobStep(p) PROVE ListInv'
  <2>1. CASE JobFail(p)
    BY <1>3, <2>1 DEF JobFail, mainVars
  <2>2. CASE JobGet(p)
    BY <1>3, <2>2 DEF JobGet, Step, mainVars
  <2>3. CASE JobWrite(p)
    BY <1>1, <2>3 DEF JobWrite, mainVars
  <2>4. CASE JobGot(p)
    BY <1>3, <2>4 DEF JobGot, Step, mainVars
  <2>5. CASE JobComplete(p)
    BY <1>3, <2>5 DEF JobComplete, Step, mainVars
  <2> QED
    BY <1>4, <1>5, <1>14, <2>1, <2>2, <2>3, <2>4, <2>5 DEF JobStep
<1> QED
  BY <1>1, <1>6, <1>7, <1>8, <1>9, <1>10, <1>11, <1>12, <1>13, <1>14
  DEF Next, MainStep, Uninit, Crash, vars, mainVars

\* A handler returns, with the handles as they were.
LEMMA ReturnKeeps ==
  ASSUME WorkerInv, NEW w \in Workers, Return(w), handle' = handle
  PROVE  WorkerInv'
<1>1. NoFile \in Stat
  BY Constants DEF NoFile, Stat
<1>2. /\ pc' \in [Workers -> {"idle", "preload", "read", "truncate", "truncCache", "mknod"}]
      /\ path' \in [Workers -> Paths \cup {NoPath}] /\ st' \in [Workers -> Stat]
      /\ desc' \in [Workers -> Fds \cup {0}] /\ disturbed' \subseteq Workers
      /\ pc'[w] = "idle"
      /\ \A u \in Workers \ {w} : /\ pc'[u] = pc[u] /\ path'[u] = path[u]
                                  /\ st'[u] = st[u] /\ desc'[u] = desc[u]
                                  /\ u \in disturbed' <=> u \in disturbed
  BY <1>1 DEF Return, WorkerInv
<1> QED
  BY <1>2 DEF WorkerInv

\* A handler goes on to a step other than a read or the truncation of the copy.
LEMMA CallKeeps ==
  ASSUME WorkerInv, NEW w \in Workers, NEW p \in Paths,
         NEW l \in {"preload", "truncate", "mknod"}, NEW s \in Stat, Call(w, p, l),
         st' = [st EXCEPT ![w] = s] \/ st' = st,
         UNCHANGED <<desc, disturbed, handle>>
  PROVE  WorkerInv'
<1>1. /\ pc' \in [Workers -> {"idle", "preload", "read", "truncate", "truncCache", "mknod"}]
      /\ path' \in [Workers -> Paths \cup {NoPath}] /\ st' \in [Workers -> Stat]
      /\ pc'[w] = l /\ path'[w] = p
      /\ \A u \in Workers \ {w} : pc'[u] = pc[u] /\ path'[u] = path[u] /\ st'[u] = st[u]
  BY DEF Call, WorkerInv
<1> QED
  BY <1>1 DEF WorkerInv

LEMMA WorkerStepKeeps == PreloadInv /\ [Next]_vars => WorkerInv'
<1> SUFFICES ASSUME PreloadInv, [Next]_vars PROVE WorkerInv'
  OBVIOUS
<1>0. DirInv /\ HandleInv /\ ListInv /\ WorkerInv /\ SrvInv
  BY DEF PreloadInv
<1>1. CASE UNCHANGED <<wrkVars, handle>>
  BY <1>0, <1>1 DEF WorkerInv, wrkVars
<1>2. ASSUME NEW w \in Workers, NEW p \in Paths, OpenRead(w, p) PROVE WorkerInv'
  <2> PICK s \in Stats(p) :
        IF s.size > MAX_READ_CACHE_SIZE /\ server[p].size <= MAX_READ_CACHE_SIZE
          THEN Call(w, p, "preload") /\ st' = [st EXCEPT ![w] = s]
          ELSE UNCHANGED <<pc, path, st>>
    BY <1>2 DEF OpenRead
  <2>1. s \in Stat
    BY <1>0, Constants DEF Stats, Stat, SrvInv
  <2>2. desc' = desc /\ disturbed' = disturbed /\ handle' = handle
    BY <1>2 DEF OpenRead, hdlVars
  <2>3. CASE UNCHANGED <<pc, path, st>>
    BY <1>1, <2>2, <2>3 DEF wrkVars
  <2>4. CASE Call(w, p, "preload") /\ st' = [st EXCEPT ![w] = s]
    BY <1>0, <2>1, <2>2, <2>4, CallKeeps
  <2> QED
    BY <2>3, <2>4
<1>3. ASSUME NEW w \in Workers, NEW p \in Paths, Truncate(w, p) \/ Mknod(w, p) PROVE WorkerInv'
  <2>1. NoFile \in Stat
    BY Constants DEF NoFile, Stat
  <2> QED
    BY <1>0, <1>3, <2>1, CallKeeps DEF Truncate, Mknod, hdlVars
<1>4. ASSUME NEW w \in Workers, NEW p \in Paths, Read(w, p) PROVE WorkerInv'
  <2> DEFINE f == Min({g \in Fds : fds[g] = 0})
  <2>1. 0 \notin Fds
    BY Constants DEF Fds
  <2>2. \E d \in Fds : /\ desc' = [desc EXCEPT ![w] = d] /\ handle'[p] = d
                       /\ \A q \in Paths : handle[q] # 0 => handle'[q] = handle[q]
    <3>1. CASE handle[p] # 0
      BY <1>0, <1>4, <3>1 DEF Read, hdlVars, HandleInv
    <3>2. CASE handle[p] = 0
      <4>1. f \in Fds
        BY <1>0, <3>2, FreeFd
      <4>2. desc' = [desc EXCEPT ![w] = f] /\ handle' = [handle EXCEPT ![p] = f]
        BY <1>4, <3>2 DEF Read
      <4> HIDE DEF f
      <4>3. handle'[p] = f /\ \A q \in Paths \ {p} : handle'[q] = handle[q]
        BY <1>0, <4>2 DEF HandleInv
      <4> QED
        BY <3>2, <4>1, <4>2, <4>3
    <3> QED
      BY <3>1, <3>2
  <2>3. PICK d \in Fds : /\ desc' = [desc EXCEPT ![w] = d] /\ handle'[p] = d
                         /\ \A q \in Paths : handle[q] # 0 => handle'[q] = handle[q]
    BY <2>2
  <2>4. /\ pc' \in [Workers -> {"idle", "preload", "read", "truncate", "truncCache", "mknod"}]
        /\ path' \in [Workers -> Paths \cup {NoPath}] /\ desc' \in [Workers -> Fds \cup {0}]
        /\ st' = st /\ disturbed' = disturbed
        /\ pc'[w] = "read" /\ path'[w] = p /\ desc'[w] = d
        /\ \A u \in Workers \ {w} : pc'[u] = pc[u] /\ path'[u] = path[u] /\ desc'[u] = desc[u]
    BY <1>0, <1>4, <2>3 DEF Read, Call, WorkerInv
  <2>5. /\ \A u \in Workers : pc'[u] # "idle" => path'[u] \in Paths
        /\ \A u \in Workers : pc'[u] = "truncCache" => st'[u].size <= MaxSize
    BY <1>0, <2>4 DEF WorkerInv
  <2>6. ASSUME NEW u \in Workers, pc'[u] = "read", u \notin disturbed'
        PROVE  desc'[u] # 0 /\ handle'[path'[u]] = desc'[u]
    <3>1. CASE u = w
      BY <2>1, <2>3, <2>4, <3>1
    <3>2. CASE u # w
      <4>1. path[u] \in Paths /\ desc[u] # 0 /\ handle[path[u]] = desc[u]
        BY <1>0, <2>4, <2>6, <3>2 DEF WorkerInv
      <4> QED
        BY <2>3, <2>4, <3>2, <4>1
    <3> QED
      BY <3>1, <3>2
  <2> QED
    BY <1>0, <2>4, <2>5, <2>6 DEF WorkerInv
<1>5. ASSUME NEW w \in Workers,
             PreloadFile(w) \/ TruncateCache(w) \/ MknodInvalidate(w) \/ ReadLocal(w)
      PROVE  WorkerInv'
  BY <1>0, <1>5, ReturnKeeps DEF PreloadFile, TruncateCache, MknodInvalidate, ReadLocal, hdlVars
<1>6. ASSUME NEW w \in Workers, NEW z \in 1..MaxSize, TruncateServer(w, z) PROVE WorkerInv'
  <2>1. PICK s \in Stat : st' = [st EXCEPT ![w] = s] /\ s.size <= MaxSize
    <3>1. CASE NewVersion(path[w], z) /\ st' = [st EXCEPT ![w] = [ver |-> lastVer', size |-> z]]
      <4>1. lastVer' \in 0..MaxVersion
        BY <1>0, <3>1, Constants DEF NewVersion, SrvInv
      <4> DEFINE s == [ver |-> lastVer', size |-> z]
      <4>2. s \in Stat /\ s.size <= MaxSize /\ st' = [st EXCEPT ![w] = s]
        BY <3>1, <4>1, Constants DEF Stat
      <4> HIDE DEF s
      <4> QED
        BY <4>2
    <3>2. CASE st' = [st EXCEPT ![w] = [ver |-> 0, size |-> z]]
      <4> DEFINE s == [ver |-> 0, size |-> z]
      <4>1. s \in Stat /\ s.size <= MaxSize /\ st' = [st EXCEPT ![w] = s]
        BY <3>2, Constants DEF Stat
      <4> HIDE DEF s
      <4> QED
        BY <4>1
    <3> QED
      BY <1>6, <3>1, <3>2 DEF TruncateServer
  <2>2. /\ pc' \in [Workers -> {"idle", "preload", "read", "truncate", "truncCache", "mknod"}]
        /\ st' \in [Workers -> Stat] /\ pc[w] = "truncate" /\ pc'[w] = "truncCache" /\ st'[w] = s
        /\ \A u \in Workers \ {w} : pc'[u] = pc[u] /\ st'[u] = st[u]
        /\ path' = path /\ desc' = desc /\ disturbed' = disturbed /\ handle' = handle
    BY <1>0, <1>6, <2>1 DEF TruncateServer, At, WorkerInv, hdlVars
  <2> QED
    BY <1>0, <2>1, <2>2 DEF WorkerInv
<1>7. ASSUME NEW p \in Paths, Release(p) PROVE WorkerInv'
  <2>1. /\ pc' = pc /\ path' = path /\ st' = st /\ desc' = desc
        /\ disturbed' = disturbed \cup {w \in Workers : path[w] = p /\ pc[w] = "read"}
    BY <1>7 DEF Release
  <2>2. \A q \in Paths \ {p} : handle'[q] = handle[q]
    BY <1>0, <1>7 DEF Release, closePreloadedFile, HandleInv, hdlVars
  <2> QED
    BY <1>0, <2>1, <2>2 DEF WorkerInv
<1>8. ASSUME NEW F, NoProcess(F) PROVE WorkerInv'
  <2>1. NoFile \in Stat
    BY Constants DEF NoFile, Stat
  <2> QED
    BY <1>8, <2>1 DEF NoProcess, WorkerInv
<1>9. ASSUME NEW w \in Workers, WorkerStep(w) PROVE WorkerInv'
  BY <1>2, <1>3, <1>4, <1>5, <1>6, <1>9 DEF WorkerStep
<1>10. ASSUME NEW p \in Paths, FileStep(p) PROVE WorkerInv'
  BY <1>1, <1>7, <1>10 DEF FileStep, Write, OpenWrite, Unlink, Rename, hdlVars
<1>11. ASSUME NEW p \in Paths, JobStep(p) PROVE WorkerInv'
  BY <1>1, <1>11
  DEF JobStep, JobGet, JobFail, JobWrite, JobGot, JobComplete, JobUnlist, JobFree, hdlVars
<1>12. CASE MainStep \/ Mount \/ Crash
  BY <1>1, <1>8, <1>12
  DEF MainStep, Unmount, WaitTake, WaitJoin, WaitDone, Uninit, Mount, Crash, hdlVars
<1> QED
  BY <1>1, <1>9, <1>10, <1>11, <1>12 DEF Next, vars, hdlVars

\* The opens that are about to return are finitely many.
LEMMA OpeningFinite ==
  \A p : IsFiniteSet(Opening(p)) /\ Cardinality(Opening(p)) \in Nat
BY Constants, FS_Subset, FS_CardinalityType DEF Opening

LEMMA OpenStep == PreloadInv /\ [Next]_vars => OpenInv'
<1> SUFFICES ASSUME PreloadInv, [Next]_vars PROVE OpenInv'
  OBVIOUS
<1> USE Constants, OpeningFinite
<1>0. WorkerInv /\ OpenInv
  BY DEF PreloadInv
<1>1. ASSUME opened' \in [Paths -> 0..MaxOpens], writable' \subseteq Paths,
             \A p \in Paths : Opening(p)' = Opening(p),
             \A p \in Paths : opened'[p] + Cardinality(Opening(p)) <= MaxOpens
      PROVE  OpenInv'
  BY <1>1 DEF OpenInv
<1>2. ASSUME UNCHANGED openVars, \A p \in Paths : Opening(p)' = Opening(p) PROVE OpenInv'
  BY <1>0, <1>2 DEF OpenInv, openVars
<1>3. ASSUME UNCHANGED <<pc, path>> PROVE \A p \in Paths : Opening(p)' = Opening(p)
  BY <1>3 DEF Opening
<1>4. ASSUME NEW p \in Paths, MayOpen(p), opened' = [opened EXCEPT ![p] = @ + 1],
             writable' \subseteq Paths, UNCHANGED <<pc, path>>
      PROVE  OpenInv'
  <2>1. opened[p] + Cardinality(Opening(p)) < MaxOpens /\ opened[p] \in Nat
    BY <1>0, <1>4 DEF MayOpen, Opening, OpenInv
  <2>2. opened[p] + 1 \in 0..MaxOpens /\ (opened[p] + 1) + Cardinality(Opening(p)) <= MaxOpens
    BY <2>1
  <2>3. /\ opened' \in [Paths -> 0..MaxOpens] /\ opened'[p] = opened[p] + 1
        /\ \A q \in Paths \ {p} : opened'[q] = opened[q]
    BY <1>0, <1>4, <2>2 DEF OpenInv
  <2>4. \A q \in Paths : opened'[q] + Cardinality(Opening(q)) <= MaxOpens
    BY <1>0, <2>2, <2>3 DEF OpenInv
  <2> QED
    BY <1>1, <1>3, <1>4, <2>3, <2>4
<1>5. ASSUME NEW w \in Workers, NEW p \in Paths, OpenRead(w, p) PROVE OpenInv'
  <2>1. CASE Call(w, p, "preload") /\ UNCHANGED opened
    <3>1. pc[w] = "idle" /\ MayOpen(p) /\ writable' = writable
      BY <1>5 DEF OpenRead, At
    <3>2. /\ Opening(p)' = Opening(p) \cup {w} /\ w \notin Opening(p)
          /\ \A q \in Paths \ {p} : Opening(q)' = Opening(q)
      BY <1>0, <2>1, <3>1 DEF Opening, Call, WorkerInv
    <3>3. Cardinality(Opening(p) \cup {w}) = Cardinality(Opening(p)) + 1
      BY <3>2, FS_AddElement
    <3>4. opened[p] + Cardinality(Opening(p)) < MaxOpens /\ opened[p] \in Nat
      BY <1>0, <3>1 DEF MayOpen, Opening, OpenInv
    <3>5. opened[p] + Cardinality(Opening(p)') <= MaxOpens
      BY <3>2, <3>3, <3>4
    <3> QED
      BY <1>0, <2>1, <3>1, <3>2, <3>5 DEF OpenInv
  <2>2. CASE opened' = [opened EXCEPT ![p] = @ + 1] /\ UNCHANGED <<pc, path, st>>
    BY <1>0, <1>4, <1>5, <2>2 DEF OpenRead, OpenInv
  <2> QED
    BY <1>5, <2>1, <2>2 DEF OpenRead
<1>6. ASSUME NEW w \in Workers, PreloadFile(w) PROVE OpenInv'
  <2> PICK p \in Paths : p = path[w]
    BY <1>0, <1>6 DEF PreloadFile, At, WorkerInv
  <2>1. /\ pc[w] = "preload" /\ opened' = [opened EXCEPT ![p] = @ + 1]
        /\ writable' = writable /\ Return(w)
    BY <1>0, <1>6 DEF PreloadFile, At, WorkerInv
  <2>2. /\ Opening(p)' = Opening(p) \ {w} /\ w \in Opening(p)
        /\ \A q \in Paths \ {p} : Opening(q)' = Opening(q)
    BY <1>0, <2>1 DEF Opening, Return, WorkerInv
  <2>3. Cardinality(Opening(p) \ {w}) = Cardinality(Opening(p)) - 1
    BY <2>2, FS_RemoveElement
  <2>4. /\ opened[p] \in Nat /\ opened[p] + Cardinality(Opening(p)) <= MaxOpens
        /\ Cardinality(Opening(p) \ {w}) \in Nat
    <3>1. IsFiniteSet(Opening(p) \ {w})
      BY FS_RemoveElement
    <3>2. Cardinality(Opening(p) \ {w}) \in Nat
      BY <3>1, FS_CardinalityType
    <3> QED
      BY <1>0, <3>2 DEF OpenInv
  <2>5. /\ opened[p] + 1 \in 0..MaxOpens
        /\ (opened[p] + 1) + Cardinality(Opening(p)') <= MaxOpens
    BY <2>2, <2>3, <2>4
  <2>6. /\ opened' \in [Paths -> 0..MaxOpens] /\ opened'[p] = opened[p] + 1
        /\ \A q \in Paths \ {p} : opened'[q] = opened[q]
    BY <1>0, <2>1, <2>5 DEF OpenInv
  <2> QED
    BY <1>0, <2>1, <2>2, <2>5, <2>6 DEF OpenInv
<1>7. ASSUME NEW w \in Workers, NEW p \in Paths, Truncate(w, p) \/ Mknod(w, p) \/ Read(w, p)
      PROVE  OpenInv'
  <2>1. \A q \in Paths : Opening(q)' = Opening(q)
    BY <1>0, <1>7 DEF Opening, Truncate, Mknod, Read, At, Call, WorkerInv
  <2> QED
    BY <1>2, <1>7, <2>1 DEF Truncate, Mknod, Read
<1>8. ASSUME NEW w \in Workers, TruncateCache(w) \/ MknodInvalidate(w) \/ ReadLocal(w)
      PROVE  OpenInv'
  <2>1. \A q \in Paths : Opening(q)' = Opening(q)
    BY <1>0, <1>8 DEF Opening, TruncateCache, MknodInvalidate, ReadLocal, At, Return, WorkerInv
  <2> QED
    BY <1>2, <1>8, <2>1 DEF TruncateCache, MknodInvalidate, ReadLocal
<1>9. ASSUME NEW w \in Workers, NEW z, TruncateServer(w, z) PROVE OpenInv'
  <2>1. \A q \in Paths : Opening(q)' = Opening(q)
    BY <1>0, <1>9 DEF Opening, TruncateServer, At, WorkerInv
  <2> QED
    BY <1>2, <1>9, <2>1 DEF TruncateServer
<1>10. ASSUME NEW p \in Paths, OpenWrite(p) PROVE OpenInv'
  BY <1>0, <1>4, <1>10 DEF OpenWrite, OpenInv, wrkVars
<1>11. ASSUME NEW p \in Paths, Release(p) PROVE OpenInv'
  <2>1. /\ opened[p] \in 1..MaxOpens /\ opened' = [opened EXCEPT ![p] = @ - 1]
        /\ writable' \subseteq Paths /\ pc' = pc /\ path' = path
    BY <1>0, <1>11 DEF Release, MayRelease, OpenInv
  <2>2. /\ opened' \in [Paths -> 0..MaxOpens] /\ opened'[p] = opened[p] - 1
        /\ \A q \in Paths \ {p} : opened'[q] = opened[q]
    BY <1>0, <2>1 DEF OpenInv
  <2>3. \A q \in Paths : opened'[q] + Cardinality(Opening(q)) <= MaxOpens
    BY <1>0, <2>1, <2>2 DEF OpenInv
  <2> QED
    BY <1>1, <1>3, <2>1, <2>2, <2>3
<1>12. ASSUME NEW p \in Paths, NEW q \in Paths, Rename(p, q) PROVE OpenInv'
  <2>1. pc' = pc /\ path' = path /\ p # q /\ Opening(p) = {} /\ Opening(q) = {}
    BY <1>12 DEF Rename, wrkVars, InUse, Opening
  <2>2. Cardinality(Opening(p)) = 0 /\ Cardinality(Opening(q)) = 0
    BY <2>1, FS_EmptySet
  <2>3. CASE UNCHANGED openVars
    BY <1>2, <1>3, <2>1, <2>3
  <2>4. CASE /\ opened' = [opened EXCEPT ![q] = opened[p], ![p] = 0]
             /\ writable' = {x \in Paths \ {p} : x \in writable \/ (x = q /\ p \in writable)}
    <3>1. /\ opened' \in [Paths -> 0..MaxOpens] /\ opened'[q] = opened[p] /\ opened'[p] = 0
          /\ \A x \in Paths \ {p, q} : opened'[x] = opened[x]
      BY <1>0, <2>1, <2>4 DEF OpenInv
    <3>2. \A x \in Paths : opened'[x] + Cardinality(Opening(x)) <= MaxOpens
      BY <1>0, <2>2, <3>1 DEF OpenInv
    <3> QED
      BY <1>1, <1>3, <2>1, <2>4, <3>1, <3>2
  <2> QED
    BY <1>12, <2>3, <2>4 DEF Rename, openVars
<1>13. ASSUME NEW F, NoProcess(F) PROVE OpenInv'
  <2>1. \A p \in Paths : Opening(p)' = {}
    BY <1>13 DEF Opening, NoProcess
  <2>2. \A p \in Paths : Cardinality(Opening(p)') = 0
    BY <2>1, FS_EmptySet
  <2>3. /\ opened' \in [Paths -> 0..MaxOpens] /\ writable' = {}
        /\ \A p \in Paths : opened'[p] = 0
    BY <1>13 DEF NoProcess
  <2>4. \A p \in Paths : opened'[p] + Cardinality(Opening(p)') <= MaxOpens
    BY <2>2, <2>3
  <2> QED
    BY <2>3, <2>4 DEF OpenInv
<1>14. ASSUME NEW w \in Workers, WorkerStep(w) PROVE OpenInv'
  BY <1>5, <1>6, <1>7, <1>8, <1>9, <1>14 DEF WorkerStep
<1>15. ASSUME NEW p \in Paths, FileStep(p) PROVE OpenInv'
  <2>1. CASE (\E z \in 1..MaxSize : Write(p, z)) \/ Unlink(p)
    BY <1>2, <1>3, <2>1 DEF Write, Unlink, wrkVars
  <2> QED
    BY <1>10, <1>11, <1>12, <1>15, <2>1 DEF FileStep
<1>16. ASSUME NEW p \in Paths, JobStep(p) PROVE OpenInv'
  BY <1>2, <1>3, <1>16
  DEF JobStep, JobGet, JobFail, JobWrite, JobGot, JobComplete, JobUnlist, JobFree, wrkVars
<1>17. CASE MainStep \/ Mount \/ Crash
  <2>1. CASE Uninit \/ Crash
    BY <1>13, <2>1 DEF Uninit, Crash
  <2>2. CASE Unmount \/ WaitTake \/ WaitJoin \/ WaitDone \/ Mount
    BY <1>2, <1>3, <2>2 DEF Unmount, WaitTake, WaitJoin, WaitDone, Mount, wrkVars
  <2> QED
    BY <1>17, <2>1, <2>2 DEF MainStep
<1>18. CASE UNCHANGED vars
  BY <1>2, <1>3, <1>18 DEF vars, wrkVars
<1> QED
  BY <1>14, <1>15, <1>16, <1>17, <1>18 DEF Next

LEMMA MainStepKeeps == PreloadInv /\ [Next]_vars => MainInv'
<1> SUFFICES ASSUME PreloadInv, [Next]_vars PROVE MainInv'
  OBVIOUS
<1> USE Constants
<1>0. ListInv /\ MainInv
  BY DEF PreloadInv
<1>1. ASSUME UNCHANGED mainVars, ops' = ops \/ Count PROVE MainInv'
  BY <1>0, <1>1 DEF MainInv, mainVars, Count
<1>2. ASSUME NEW F, NoProcess(F), UNCHANGED <<mount, clearCache, ops>> PROVE MainInv'
  BY <1>0, <1>2 DEF MainInv, NoProcess
<1>3. CASE Unmount
  <2>1. Len(list) \in Nat /\ Len(list) <= Cardinality(Paths)
    BY <1>0, InjectiveLen, PreloadAssumption DEF ListInv, PreloadAssumption
  <2> QED
    BY <1>0, <1>3, <2>1 DEF Unmount, MainInv
<1>4. CASE WaitTake
  <2>1. list # <<>> => Head(list) \in Paths
    BY <1>0, TailElements DEF ListInv
  <2> QED
    BY <1>0, <1>4, <2>1 DEF WaitTake, MainInv
<1>5. CASE WaitJoin \/ WaitDone \/ Mount
  BY <1>0, <1>5 DEF WaitJoin, WaitDone, Mount, MainInv
<1>6. ASSUME NEW w \in Workers, WorkerStep(w) PROVE MainInv'
  BY <1>1, <1>6
  DEF WorkerStep, OpenRead, Truncate, Mknod, Read, PreloadFile, TruncateCache, TruncateServer,
      ReadLocal, MknodInvalidate
<1>7. ASSUME NEW p \in Paths, FileStep(p) PROVE MainInv'
  BY <1>1, <1>7 DEF FileStep, Write, OpenWrite, Unlink, Release, Rename
<1>8. ASSUME NEW p \in Paths, JobStep(p) PROVE MainInv'
  BY <1>1, <1>8 DEF JobStep, JobGet, JobFail, JobWrite, JobGot, JobComplete, JobUnlist, JobFree
<1> QED
  BY <1>1, <1>2, <1>3, <1>4, <1>5, <1>6, <1>7, <1>8 DEF Next, MainStep, Uninit, Crash, vars

LEMMA InitPreloadInv == Init => PreloadInv
<1> SUFFICES ASSUME Init PROVE PreloadInv
  OBVIOUS
<1> USE Constants
<1>0. NoFile \in Stat /\ NoInode \in InodeType
  BY DEF NoFile, Stat, NoInode, InodeType
<1>1. SrvInv
  <2>1. \A p \in Paths : /\ server[p] \in Stat /\ server[p].size <= MaxSize
    BY DEF Init, Stat
  <2>2. server \in [Paths -> Stat]
    BY <2>1 DEF Init
  <2> QED
    BY <2>1, <2>2 DEF Init, SrvInv
<1>2. DirInv
  BY <1>0 DEF Init, DirInv, Apart
<1>3. OwnParts
  BY DEF Init, OwnParts
<1>4. HandleInv
  BY DEF Init, HandleInv
<1>5. ListInv
  <2>1. IsInjective(<<>>) /\ ToSet(<<>>) = {} /\ <<>> \in Seq(Paths)
    BY DEF IsInjective, ToSet
  <2> QED
    BY <1>0, <2>1 DEF Init, ListInv
<1>6. WorkerInv
  BY <1>0 DEF Init, WorkerInv
<1>7. OpenInv
  <2>1. \A p \in Paths : Opening(p) = {}
    BY DEF Opening, Init
  <2>2. \A p \in Paths : Cardinality(Opening(p)) = 0
    BY <2>1, FS_EmptySet
  <2>3. /\ opened \in [Paths -> 0..MaxOpens] /\ writable = {}
        /\ \A p \in Paths : opened[p] = 0
    BY DEF Init
  <2>4. \A p \in Paths : opened[p] + Cardinality(Opening(p)) <= MaxOpens
    BY <2>2, <2>3
  <2> QED
    BY <2>3, <2>4 DEF OpenInv
<1>8. MainInv
  BY DEF Init, MainInv
<1> QED
  BY <1>1, <1>2, <1>3, <1>4, <1>5, <1>6, <1>7, <1>8 DEF PreloadInv

LEMMA NextPreloadInv == PreloadInv /\ [Next]_vars => PreloadInv'
BY SrvStep, DirStep, HandleStep, ListStep, WorkerStepKeeps, OpenStep, MainStepKeeps
DEF PreloadInv

LEMMA PreloadInvariance == Spec => []PreloadInv
BY InitPreloadInv, NextPreloadInv, PTL DEF Spec

-------------------------------------------------------------------------------
(***************************************************************************)
(* The theorems.                                                           *)
(***************************************************************************)
\* The variables have their types in every reachable state: an inode and a
\* descriptor are found whenever one is needed, the opens of a path stay within
\* MaxOpens, and no download is twice in PreloadThreadList (preloadFile).
THEOREM PreloadTypes == Spec => []TypeOK
<1>1. PreloadInv => TypeOK
  BY DEF PreloadInv, SrvInv, DirInv, InodeType, HandleInv, ListInv, WorkerInv, OpenInv, MainInv,
         TypeOK
<1> QED
  BY <1>1, PreloadInvariance, PTL

\* A file under its final name is a whole copy, whatever download failed, was
\* killed, evicted or invalidated under way (_download, _completeDownload).
THEOREM CopiesAreWhole == Spec => []CacheWhole
<1>1. PreloadInv => CacheWhole
  BY DEF PreloadInv, DirInv, CacheWhole, hasCache
<1> QED
  BY <1>1, PreloadInvariance, PTL

\* While the file system is mounted every .part file is this execution's own:
\* initPreload has removed the others.
THEOREM PartsAreOwn == Spec => []OwnParts
<1>1. PreloadInv => OwnParts
  BY DEF PreloadInv
<1> QED
  BY <1>1, PreloadInvariance, PTL

\* The descriptor that openPreloadedFile gave to a read is open, and its path's,
\* when readPreloadedFile uses it, unless the path was released in between.
THEOREM ReadsThroughOpenHandle == Spec => []ReadsOpenHandle
<1>1. PreloadInv => ReadsOpenHandle
  <2> SUFFICES ASSUME PreloadInv, NEW w \in Workers, pc[w] = "read", w \notin disturbed
               PROVE  fds[desc[w]] # 0 /\ handle[path[w]] = desc[w]
    BY DEF ReadsOpenHandle
  <2>1. path[w] \in Paths /\ desc[w] # 0 /\ handle[path[w]] = desc[w]
    BY DEF PreloadInv, WorkerInv
  <2> QED
    BY <2>1 DEF PreloadInv, HandleInv
<1> QED
  BY <1>1, PreloadInvariance, PTL

\* When waitPreloadJobs has returned no download is under way, however many there
\* were and whichever of them ended by themselves meanwhile.
THEOREM UnmountWaitsForAll == Spec => []UnmountWaits
<1>1. PreloadInv => UnmountWaits
  <2> SUFFICES ASSUME PreloadInv, main = "uninit", NEW p \in Paths
               PROVE  job[p] \notin {"run", "get", "got"}
    BY DEF UnmountWaits
  <2>1. Len(list) = 0 /\ joining = {}
    BY DEF PreloadInv, ListInv
  <2>2. ToSet(list) = {}
    BY <2>1 DEF PreloadInv, ListInv, ToSet
  <2> QED
    BY <2>1, <2>2 DEF PreloadInv, ListInv
<1> QED
  BY <1>1, PreloadInvariance, PTL

-------------------------------------------------------------------------------
(***************************************************************************)
(* The refinement of WholeFileCache.                                       *)
(***************************************************************************)
\* The abstract entries: the refinement mapping.
Entry == [p \in Paths |-> IF hasCache(p) THEN inode[cache[p]].ver ELSE 0]

LEMMA EntryValues ==
  ASSUME DirInv, NEW p \in Paths
  PROVE  /\ cache[p] = 0 => Entry[p] = 0
         /\ cache[p] # 0 => Entry[p] = inode[cache[p]].ver /\ Entry[p] \in 1..Mixed
<1>1. Entry[p] = IF cache[p] # 0 THEN inode[cache[p]].ver ELSE 0
  BY DEF Entry, hasCache
<1>2. cache[p] # 0 => inode[cache[p]].ver \in 1..Mixed
  BY Constants DEF DirInv, InodeType
<1> QED
  BY <1>1, <1>2

\* The initial states map to initial states.
LEMMA RefinesInit == Init => Entry \in [Paths -> 1..MaxVersion \cup {0}]
BY DEF Init, Entry, hasCache

\* A step that makes no entry drops some, perhaps none.
LEMMA QuietDrops ==
  ASSUME DirInv, DirInv', Quiet
  PROVE  \E S \in SUBSET Paths : Entry' = [p \in Paths |-> IF p \in S THEN 0 ELSE Entry[p]]
<1> DEFINE S == {p \in Paths : cache'[p] = 0}
<1>1. ASSUME NEW p \in Paths PROVE Entry'[p] = IF p \in S THEN 0 ELSE Entry[p]
  <2>1. Entry'[p] = IF cache'[p] # 0 THEN inode'[cache'[p]].ver ELSE 0
    BY DEF Entry, hasCache
  <2>2. Entry[p] = IF cache[p] # 0 THEN inode[cache[p]].ver ELSE 0
    BY DEF Entry, hasCache
  <2> QED
    BY <2>1, <2>2 DEF Quiet, DirShrinks
<1>2. Entry' = [p \in Paths |-> IF p \in S THEN 0 ELSE Entry[p]]
  BY <1>1 DEF Entry
<1> QED
  BY <1>2

\* Every step publishes one entry where there is none, drops entries, truncates
\* or moves one, or leaves all of them.
LEMMA RefinesNext ==
  ASSUME PreloadInv, [Next]_vars
  PROVE  \/ \E p \in Paths, v \in 1..Mixed :
              Entry[p] = 0 /\ Entry' = [Entry EXCEPT ![p] = v]
         \/ \E S \in SUBSET Paths : Entry' = [p \in Paths |-> IF p \in S THEN 0 ELSE Entry[p]]
         \/ \E p \in Paths : Entry[p] # 0 /\ Entry' = [Entry EXCEPT ![p] = Mixed]
         \/ \E p, q \in Paths : /\ p # q /\ Entry[p] # 0
                                /\ Entry' = [Entry EXCEPT ![q] = Entry[p], ![p] = 0]
         \/ Entry' = Entry
<1>0. DirInv /\ DirInv' /\ HandleInv /\ ListInv /\ WorkerInv
  BY DirStep DEF PreloadInv
<1>a. /\ Entry = [p \in Paths |-> IF cache[p] # 0 THEN inode[cache[p]].ver ELSE 0]
      /\ Entry' = [p \in Paths |-> IF cache'[p] # 0 THEN inode'[cache'[p]].ver ELSE 0]
  BY DEF Entry, hasCache
<1>1. CASE Quiet
  BY <1>0, <1>1, QuietDrops
<1>2. ASSUME NEW w \in Workers, TruncateCache(w)
      PROVE  \/ Entry' = Entry
             \/ \E p \in Paths : Entry[p] # 0 /\ Entry' = [Entry EXCEPT ![p] = Mixed]
  <2>1. cache' = cache /\ path[w] \in Paths
    BY <1>0, <1>2 DEF TruncateCache, At, WorkerInv
  <2>2. PICK p \in Paths : p = path[w]
    BY <2>1
  <2>3. CASE cache[p] = 0
    <3>1. inode' = inode
      BY <1>2, <2>2, <2>3 DEF TruncateCache, hasCache
    <3> QED
      BY <1>a, <2>1, <3>1
  <2>4. CASE cache[p] # 0
    <3>1. cache[p] \in Inodes /\ inode \in [Inodes -> InodeType]
      BY <1>0, <2>4 DEF DirInv
    <3>2. PICK now : inode' = [inode EXCEPT ![cache[p]] =
                                 [@ EXCEPT !.ver = Mixed, !.size = st[w].size, !.mtime = now]]
      BY <1>2, <2>2, <2>4 DEF TruncateCache, truncatedTo, hasCache
    <3>3. /\ inode'[cache[p]].ver = Mixed
          /\ \A x \in Paths \ {p} : cache[x] # 0 => inode'[cache[x]] = inode[cache[x]]
      <4>1. \A x \in Paths \ {p} : cache[x] # 0 => cache[x] \in Inodes /\ cache[x] # cache[p]
        BY <1>0 DEF DirInv, Apart
      <4> QED
        BY <3>1, <3>2, <4>1 DEF InodeType
    <3>4. Entry[p] # 0
      BY <1>0, <2>4, EntryValues
    <3>5. Entry' = [Entry EXCEPT ![p] = Mixed]
      BY <1>a, <2>1, <2>4, <3>3
    <3> QED
      BY <3>4, <3>5
  <2> QED
    BY <2>3, <2>4
<1>3. ASSUME NEW p \in Paths, NEW q \in Paths, Rename(p, q)
      PROVE  \/ Entry' = Entry
             \/ /\ p # q /\ Entry[p] # 0
                /\ Entry' = [Entry EXCEPT ![q] = Entry[p], ![p] = 0]
  <2> DEFINE c == IF hasCache(p) THEN [cache EXCEPT ![q] = cache[p], ![p] = 0] ELSE cache
  <2>1. SetDir(c, part, fds, inode) /\ p # q
    BY <1>3 DEF Rename
  <2>2. c \in [Paths -> Inodes \cup {0}]
    BY <1>0 DEF DirInv
  <2>3. cache' = c /\ \A x \in Paths : c[x] # 0 => inode'[c[x]] = inode[c[x]]
    <3> HIDE DEF c
    <3> QED
      BY <1>0, <2>1, <2>2, SetDirKeeps DEF DirInv
  <2>4. CASE ~hasCache(p)
    BY <1>a, <2>3, <2>4 DEF hasCache
  <2>5. CASE hasCache(p)
    <3>1. /\ cache' = [cache EXCEPT ![q] = cache[p], ![p] = 0] /\ cache[p] # 0
          /\ \A x \in Paths : cache'[x] # 0 => inode'[cache'[x]] = inode[cache'[x]]
      BY <2>3, <2>5 DEF hasCache
    <3>2. /\ cache'[p] = 0 /\ cache'[q] = cache[p]
          /\ \A x \in Paths \ {p, q} : cache'[x] = cache[x]
      BY <1>0, <2>1, <3>1 DEF DirInv
    <3>3. Entry[p] # 0
      BY <1>0, <3>1, EntryValues, Constants
    <3>4. ASSUME NEW x \in Paths
          PROVE  Entry'[x] = [Entry EXCEPT ![q] = Entry[p], ![p] = 0][x]
      <4>1. CASE x = p
        BY <1>a, <3>2, <4>1
      <4>2. CASE x = q
        <5>1. cache'[q] = cache[p] /\ inode'[cache[p]] = inode[cache[p]]
          BY <3>1, <3>2
        <5> QED
          BY <1>a, <2>1, <3>1, <4>2, <5>1
      <4>3. CASE x \notin {p, q}
        <5>1. cache'[x] = cache[x] /\ (cache[x] # 0 => inode'[cache[x]] = inode[cache[x]])
          BY <3>1, <3>2, <4>3
        <5> QED
          BY <1>a, <4>3, <5>1
      <4> QED
        BY <4>1, <4>2, <4>3
    <3>5. Entry' = [Entry EXCEPT ![q] = Entry[p], ![p] = 0]
      BY <1>a, <3>4
    <3> QED
      BY <2>1, <3>3, <3>5
  <2> QED
    BY <2>4, <2>5
<1>4. ASSUME NEW p \in Paths, JobGet(p) PROVE Entry' = Entry
  <2> DEFINE i == Min(Inodes \ Used(cache, part, fds))
             r == [ver |-> server[p].ver, size |-> 0, mtime |-> 0,
                   whole |-> FALSE, mount |-> mount]
  <2>1. /\ cache' = cache
        /\ inode' = [j \in Inodes |-> IF j \in Used(cache, [part EXCEPT ![p] = i], fds)
                                        THEN [inode EXCEPT ![i] = r][j] ELSE NoInode]
    BY <1>4 DEF JobGet, SetDir
  <2>2. i \in Inodes /\ i \notin Used(cache, part, fds)
    BY <1>0, <1>4, FreeInode DEF JobGet
  <2> HIDE DEF i, r
  <2>3. ASSUME NEW x \in Paths, cache[x] # 0 PROVE inode'[cache[x]] = inode[cache[x]]
    <3>1. cache[x] \in Inodes /\ cache[x] # i
      BY <1>0, <2>2, <2>3 DEF DirInv, Used, Range
    <3>2. cache[x] \in Used(cache, [part EXCEPT ![p] = i], fds)
      BY <1>0 DEF DirInv, Used, Range
    <3> QED
      BY <1>0, <2>1, <3>1, <3>2 DEF DirInv
  <2>4. cache' = cache
    BY <2>1
  <2> QED
    BY <1>a, <2>3, <2>4
<1>5. ASSUME NEW p \in Paths, JobGot(p) \/ JobWrite(p) PROVE Entry' = Entry
  <2>1. /\ cache' = cache
        /\ inode' = inode \/ \E v : inode' = [inode EXCEPT ![part[p]] = v]
    <3>1. CASE JobWrite(p)
      BY <3>1 DEF JobWrite
    <3>2. CASE JobGot(p)
      BY <3>2 DEF JobGot
    <3> QED
      BY <1>5, <3>1, <3>2
  <2>2. \A x \in Paths : cache[x] # 0 => cache[x] \in Inodes /\ cache[x] # part[p]
    BY <1>0 DEF DirInv, Apart
  <2>3. \A x \in Paths : cache[x] # 0 => inode'[cache[x]] = inode[cache[x]]
    BY <1>0, <2>1, <2>2 DEF DirInv
  <2> QED
    BY <1>a, <2>1, <2>3
<1>6. ASSUME NEW p \in Paths, JobComplete(p)
      PROVE  \/ Entry' = Entry
             \/ \E v \in 1..Mixed : Entry[p] = 0 /\ Entry' = [Entry EXCEPT ![p] = v]
  <2>1. CASE part[p] = 0
    BY <1>6, <1>a, <2>1 DEF JobComplete, dirVars
  <2>2. CASE part[p] # 0
    <3> DEFINE i == part[p]
               c == [cache EXCEPT ![p] = i]
               pt == [part EXCEPT ![p] = 0]
               ino == [inode EXCEPT ![i] = [@ EXCEPT !.mtime = jobStat[p].ver]]
    <3>1. /\ SetDir(c, pt, fds, ino) /\ i \in Inodes /\ jobStat[p].ver \in 0..MaxVersion
          /\ job[p] = "got"
      BY <1>0, <1>6, <2>2 DEF JobComplete, Step, DirInv, ListInv, Stat
    <3>2. c \in [Paths -> Inodes \cup {0}] /\ pt \in [Paths -> Inodes \cup {0}]
      BY <1>0, <3>1 DEF DirInv
    <3>3. /\ ino \in [Inodes -> InodeType]
          /\ \A j \in Inodes : ino[j].ver = inode[j].ver
      BY <1>0, <3>1 DEF DirInv, InodeType
    <3>4. c[p] = i /\ \A x \in Paths \ {p} : c[x] = cache[x]
      BY <1>0 DEF DirInv
    <3> HIDE DEF c, pt, ino
    <3>5. cache' = c /\ \A x \in Paths : c[x] # 0 => inode'[c[x]] = ino[c[x]]
      BY <3>1, <3>2, <3>3, SetDirKeeps
    <3>6. cache[p] = 0
      BY <1>0, <3>1 DEF DirInv
    <3>7. inode[i].ver \in 1..Mixed
      BY <1>0, <2>2, <3>1, Constants DEF DirInv, InodeType
    <3>8. \A x \in Paths : cache[x] # 0 => cache[x] \in Inodes
      BY <1>0 DEF DirInv
    <3>9. ASSUME NEW x \in Paths PROVE Entry'[x] = [Entry EXCEPT ![p] = inode[i].ver][x]
      <4>1. CASE x = p
        <5>1. cache'[p] = i /\ inode'[i].ver = inode[i].ver
          BY <2>2, <3>1, <3>3, <3>4, <3>5
        <5> QED
          BY <1>a, <2>2, <4>1, <5>1
      <4>2. CASE x # p
        <5>1. cache'[x] = cache[x] /\ (cache[x] # 0 => inode'[cache[x]].ver = inode[cache[x]].ver)
          BY <3>3, <3>4, <3>5, <3>8, <4>2
        <5> QED
          BY <1>a, <4>2, <5>1
      <4> QED
        BY <4>1, <4>2
    <3>10. Entry' = [Entry EXCEPT ![p] = inode[i].ver]
      BY <1>a, <3>9
    <3>11. Entry[p] = 0
      BY <1>a, <3>6
    <3> QED
      BY <3>7, <3>10, <3>11
  <2> QED
    BY <2>1, <2>2
<1> QED
  BY <1>1, <1>2, <1>3, <1>4, <1>5, <1>6, DirCases

\* The preload cache implements WholeFileCache: a copy appears at once and only
\* where there is none, and is then only moved with its file, truncated or dropped
\* (_completeDownload, _renameCache, _truncateCache, _evictOldCache).
THEOREM PreloadRefines == Spec => ImplementsWholeFileCache
<1>1. Init => Whole!Init
  BY RefinesInit DEF Whole!Init, Entry
<1>2. PreloadInv /\ [Next]_vars => [Whole!Next]_(Entry)
  <2> SUFFICES ASSUME PreloadInv, [Next]_vars PROVE Whole!Next \/ Entry' = Entry
    BY DEF Entry
  <2>1. ASSUME NEW p \in Paths, NEW v \in 1..Mixed,
               Entry[p] = 0, Entry' = [Entry EXCEPT ![p] = v]
        PROVE  Whole!Publish(p, v)
    BY <2>1 DEF Whole!Publish, Entry
  <2>2. ASSUME NEW S \in SUBSET Paths,
               Entry' = [p \in Paths |-> IF p \in S THEN 0 ELSE Entry[p]]
        PROVE  Whole!Drop(S)
    BY <2>2 DEF Whole!Drop, Entry
  <2>3. ASSUME NEW p \in Paths, NEW q \in Paths, Entry[p] # 0,
               Entry' = [Entry EXCEPT ![q] = Entry[p], ![p] = 0]
        PROVE  Whole!Move(p, q)
    BY <2>3 DEF Whole!Move, Entry
  <2>4. ASSUME NEW p \in Paths, Entry[p] # 0, Entry' = [Entry EXCEPT ![p] = Mixed]
        PROVE  Whole!Cut(p)
    BY <2>4 DEF Whole!Cut, Entry
  <2> QED
    BY <2>1, <2>2, <2>3, <2>4, RefinesNext, Constants DEF Whole!Next
<1> QED
  BY <1>1, <1>2, PreloadInvariance, PTL DEF Spec, ImplementsWholeFileCache, Whole!Spec, Entry

===============================================================================

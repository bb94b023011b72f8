------------------------------- MODULE Preload -------------------------------
(***************************************************************************)
(* The preload cache of the FUSE client (iFuseLib.Preload, with the parts  *)
(* of the iFuseOper handlers that use it): worker threads open, read,      *)
(* write, truncate, rename and remove files; a background thread per       *)
(* download fetches a file into <cache>.part and renames it; main waits    *)
(* for the downloads at unmount; the process may be killed and the mount   *)
(* made again over the same cache directory.                               *)
(*                                                                         *)
(* Everything done inside one hold of PreloadLock is one step.  Local      *)
(* files are inodes, because a handle keeps reading an inode that was      *)
(* unlinked. The contents of a file are the number of the server version   *)
(* they were copied from, or Mixed, if the server's file changed during    *)
(* the download or the copy was truncated; version numbers also stand for  *)
(* modification times. libfuse runs unlink and rename exclusively of       *)
(* other operations on the same paths, renames an open file instead of     *)
(* unlinking it, and releases a file only when the reads through it have   *)
(* returned.                                                               *)
(***************************************************************************)
EXTENDS Integers, FiniteSets, Sequences, FiniteSetsExt, SequencesExt

CONSTANTS
  Workers,          \* FUSE worker threads
  Paths, NoPath,
  MAX_READ_CACHE_SIZE, preloadMinSize, cacheMaxSize,
  MaxSize,          \* bound: file sizes are 1..MaxSize
  MaxVersion,       \* bound: versions of files ever made
  MaxOpens,         \* bound: opens of one path at a time
  MaxOps,           \* bound: handlers called, reads and releases not counted
  MaxMounts         \* bound: times the file system is mounted

ASSUME PreloadAssumption ==
  /\ NoPath \notin Paths /\ IsFiniteSet(Paths) /\ IsFiniteSet(Workers)
  /\ MAX_READ_CACHE_SIZE \in Nat /\ preloadMinSize \in Nat /\ cacheMaxSize \in Nat
  /\ preloadMinSize >= MAX_READ_CACHE_SIZE
  /\ {MaxSize, MaxVersion, MaxOpens, MaxOps, MaxMounts} \subseteq Nat \ {0}
  /\ MaxVersion > Cardinality(Paths)

VARIABLES
  server,      \* the files in iRODS: [ver, size], ver = 0 if there is none
  lastVer,     \* the last version made
  cache, part, \* directory entries <path> and <path>.part: an inode or 0
  inode,       \* [ver, size, mtime, whole, mount] of each; ver: the contents; whole: the
               \* download ended well
  handle,      \* PreloadFileHandleTable: path -> descriptor or 0
  fds,         \* the descriptors of the process: an inode or 0
  list,        \* PreloadThreadList
  job,         \* where the thread of PreloadThreadTable's entry is, or "none"
  jobStat,     \* its stbuf
  PreloadLock, \* the path whose thread holds it between two steps, or {}
  opened,      \* opens of each path
  writable,    \* paths with an open for writing
  pc, path, st, desc,     \* of each worker
  disturbed,              \* history: workers in a read whose path was released since
  main, left, joining,    \* of main: where it is, and waitPreloadJobs' size and job
  mount, clearCache,
  ops          \* handlers called, against MaxOps

dirVars  == <<cache, part, inode>>
hdlVars  == <<handle, fds>>
jobVars  == <<list, job, jobStat, PreloadLock>>
srvVars  == <<server, lastVer>>
openVars == <<opened, writable>>
wrkVars  == <<pc, path, st, desc, disturbed>>
mainVars == <<main, left, joining, mount, clearCache>>
vars == <<srvVars, dirVars, hdlVars, jobVars, openVars, wrkVars, mainVars, ops>>

Inodes == 1..3 * Cardinality(Paths)
Fds    == 1..Cardinality(Paths)
Stat   == [ver : 0..MaxVersion, size : 0..MaxSize + 1]
Mixed  == MaxVersion + 1   \* contents that need not be those of one version
NoFile == [ver |-> 0, size |-> 0]
NoInode == [ver |-> 0, size |-> 0, mtime |-> 0, whole |-> FALSE, mount |-> 0]

\* The types of the variables; the list has no download twice, so that the table
\* and the list stay the same set of threads (preloadFile).
TypeOK ==
  /\ server \in [Paths -> Stat] /\ lastVer \in 0..MaxVersion
  /\ cache \in [Paths -> Inodes \cup {0}] /\ part \in [Paths -> Inodes \cup {0}]
  /\ inode \in [Inodes -> [ver : 0..Mixed, size : 0..MaxSize,
                           mtime : 0..MaxVersion, whole : BOOLEAN, mount : 0..MaxMounts]]
  /\ handle \in [Paths -> Fds \cup {0}] /\ fds \in [Fds -> Inodes \cup {0}]
  /\ list \in Seq(Paths) /\ IsInjective(list)
  /\ job \in [Paths -> {"none", "run", "get", "got", "end", "free"}]
  /\ jobStat \in [Paths -> Stat]
  /\ PreloadLock \subseteq Paths
  /\ opened \in [Paths -> 0..MaxOpens] /\ writable \subseteq Paths
  /\ pc \in [Workers -> {"idle", "preload", "read", "truncate", "truncCache",
                         "mknod"}]
  /\ path \in [Workers -> Paths \cup {NoPath}] /\ st \in [Workers -> Stat]
  /\ desc \in [Workers -> Fds \cup {0}] /\ disturbed \subseteq Workers
  /\ main \in {"mounted", "wait", "join", "uninit", "off"}
  /\ left \in 0..Cardinality(Paths) /\ joining \subseteq Paths
  /\ mount \in 1..MaxMounts /\ clearCache \in BOOLEAN
  /\ ops \in 0..MaxOps

Init ==
  /\ server \in [Paths -> [ver : 2..Cardinality(Paths) + 1, size : 1..MaxSize]]
  /\ IsInjective([p \in Paths |-> server[p].ver])
  /\ lastVer = Cardinality(Paths) + 1
  /\ cache = [p \in Paths |-> 0] /\ part = [p \in Paths |-> 0]
  /\ inode = [i \in Inodes |-> NoInode]
  /\ handle = [p \in Paths |-> 0] /\ fds = [f \in Fds |-> 0]
  /\ list = <<>> /\ job = [p \in Paths |-> "none"]
  /\ jobStat = [p \in Paths |-> NoFile] /\ PreloadLock = {}
  /\ opened = [p \in Paths |-> 0] /\ writable = {}
  /\ pc = [w \in Workers |-> "idle"]
  /\ path = [w \in Workers |-> NoPath]
  /\ st = [w \in Workers |-> NoFile] /\ desc = [w \in Workers |-> 0]
  /\ disturbed = {}
  /\ main = "mounted" /\ left = 0 /\ joining = {}
  /\ mount = 1 /\ clearCache \in BOOLEAN
  /\ ops = 0

-------------------------------------------------------------------------------
(* The cache directory.                                                      *)
Unlocked == PreloadLock = {}

Used(c, pt, f) == Range(c) \cup Range(pt) \cup Range(f)

\* The directory entries, the descriptors and the inodes become these; an inode
\* without an entry and without a descriptor is gone.
SetDir(c, pt, f, ino) ==
  /\ cache' = c /\ part' = pt /\ fds' = f
  /\ inode' = [i \in Inodes |-> IF i \in Used(c, pt, f) THEN ino[i] ELSE NoInode]

DiskFiles == ({"cache"} \X {p \in Paths : cache[p] # 0})
        \cup ({"part"} \X {p \in Paths : part[p] # 0})

FileInode(e) == IF e[1] = "cache" THEN inode[cache[e[2]]] ELSE inode[part[e[2]]]

\* getFileSizeRecursive of a set of files; a .part file counts what it has so far.
SizeOf(F) == FoldSet(LAMBDA e, n : n + FileInode(e).size, 0, F)

Unlinked(kind, c, F) == [p \in Paths |-> IF <<kind, p>> \in F THEN 0 ELSE c[p]]

\* The files F are unlinked.
UnlinkFiles(F) == SetDir(Unlinked("cache", cache, F), Unlinked("part", part, F), fds, inode)

FilesOf(p) == {"cache", "part"} \X {p}

\* _evictOldCache(need) may have removed the files F, the oldest first: as many as
\* give need bytes, or all there are and then it fails.  Access times depend on
\* the mount options of the local file system: any order is possible.
Evicted(files, need, F) ==
  /\ F \subseteq files
  /\ \/ need <= 0 /\ F = {}
     \/ need > 0 /\ SizeOf(F) >= need /\ \E e \in F : SizeOf(F \ {e}) < need
     \/ F = files /\ SizeOf(F) < need

hasCache(p) == cache[p] # 0

hasValidCache(p, s) ==
  /\ hasCache(p)
  /\ inode[cache[p]].size = s.size /\ inode[cache[p]].mtime = s.ver

isFilePreloading(p) == job[p] # "none"

-------------------------------------------------------------------------------
(* Handlers.                                                                 *)
At(w, l) == pc[w] = l /\ main = "mounted"

Call(w, p, l) ==
  /\ pc' = [pc EXCEPT ![w] = l]
  /\ path' = [path EXCEPT ![w] = p]

Return(w) ==
  /\ pc' = [pc EXCEPT ![w] = "idle"]
  /\ path' = [path EXCEPT ![w] = NoPath]
  /\ st' = [st EXCEPT ![w] = NoFile]
  /\ desc' = [desc EXCEPT ![w] = 0]
  /\ disturbed' = disturbed \ {w}

Count == ops < MaxOps /\ ops' = ops + 1

Exists(p) == server[p].ver # 0
InUse(p)  == \E w \in Workers : path[w] = p

NewVersion(p, z) ==
  /\ lastVer < MaxVersion
  /\ lastVer' = lastVer + 1
  /\ server' = [server EXCEPT ![p] = [ver |-> lastVer + 1, size |-> z]]

\* opens of p that are about to return count against MaxOpens
MayOpen(p) ==
  opened[p] + Cardinality({w \in Workers : path[w] = p /\ pc[w] = "preload"}) < MaxOpens

\* What the first getattr of irodsOpen may return: the path cache may still hold the
\* stat of version 1, an earlier and perhaps larger one.
Stats(p) == {server[p]} \cup [ver : {1}, size : 1..MaxSize + 1]

\* irodsOpen(O_RDONLY).  irodsOpenWithReadCache stats the file again; only a file
\* that this stat finds small enough for the read cache and the first stat did not
\* is preloaded.
OpenRead(w, p) ==
  /\ At(w, "idle") /\ Exists(p) /\ MayOpen(p)
  /\ \E s \in Stats(p) :
       IF s.size > MAX_READ_CACHE_SIZE /\ server[p].size <= MAX_READ_CACHE_SIZE
         THEN /\ Call(w, p, "preload")
              /\ st' = [st EXCEPT ![w] = s]
              /\ UNCHANGED opened
         ELSE /\ opened' = [opened EXCEPT ![p] = @ + 1]
              /\ UNCHANGED <<pc, path, st>>
  /\ Count
  /\ UNCHANGED <<srvVars, dirVars, hdlVars, jobVars, writable, desc, disturbed, mainVars>>

\* Fault: the thread table is not searched.
preloadedUnsearched(p, s) == hasValidCache(p, s)

\* preloadFile has nothing to do.  With a valid copy it unlocks twice, which a
\* recursive mutex refuses.
preloaded(p, s) == isFilePreloading(p) \/ hasValidCache(p, s)

\* Fault: the thread is entered in the table but not in the list.
startUnlisted(p, s) ==
  /\ job' = [job EXCEPT ![p] = "run"]
  /\ jobStat' = [jobStat EXCEPT ![p] = s]
  /\ UNCHANGED list

\* The download thread is made and entered in the list and the table.
startPreload(p, s) ==
  /\ list' = Append(list, p)
  /\ job' = [job EXCEPT ![p] = "run"]
  /\ jobStat' = [jobStat EXCEPT ![p] = s]

\* preloadFile, with _invalidateCache and _evictOldCache; irodsOpen then returns.
\* The file system may lack room: the second eviction.
PreloadFile(w) ==
  LET p     == path[w]
      s     == st[w]
      files == DiskFiles \ FilesOf(p)
      over  == IF cacheMaxSize = 0 THEN 0 ELSE SizeOf(files) + s.size - cacheMaxSize
      fits  == s.size >= preloadMinSize /\ (cacheMaxSize > 0 => s.size <= cacheMaxSize)
  IN
  /\ At(w, "preload") /\ Unlocked
  /\ \/ /\ preloaded(p, s)
        /\ UNCHANGED <<dirVars, fds, jobVars>>
     \/ /\ ~preloaded(p, s) /\ ~fits
        /\ UnlinkFiles(FilesOf(p))
        /\ UNCHANGED jobVars
     \/ /\ ~preloaded(p, s) /\ fits
        /\ \E F \in SUBSET files, G \in SUBSET files, lack \in {0, s.size} :
             /\ Evicted(files, over, F)
             /\ Evicted(files \ F, lack, G)
             /\ UnlinkFiles(FilesOf(p) \cup F \cup G)
             /\ IF SizeOf(F) >= over /\ SizeOf(G) >= lack
                  THEN startPreload(p, s)
                  ELSE UNCHANGED <<list, job, jobStat>>
        /\ UNCHANGED PreloadLock
  /\ opened' = [opened EXCEPT ![p] = @ + 1]
  /\ Return(w)
  /\ UNCHANGED <<srvVars, handle, writable, mainVars, ops>>

\* irodsOpen for writing: EBUSY while p is preloading, else rcDataObjOpen.  The
\* copy in the cache stays; the open of a newly created file would remove it, but
\* irodsMknod has done so already.
OpenWrite(p) ==
  /\ main = "mounted" /\ Exists(p) /\ MayOpen(p) /\ Unlocked
  /\ ~isFilePreloading(p)
  /\ opened' = [opened EXCEPT ![p] = @ + 1]
  /\ writable' = writable \cup {p}
  /\ Count
  /\ UNCHANGED <<srvVars, dirVars, hdlVars, jobVars, wrkVars, mainVars>>

\* irodsWrite to a file that is not buffered for lazy upload.
Write(p, z) ==
  /\ main = "mounted" /\ p \in writable
  /\ NewVersion(p, z)
  /\ Count
  /\ UNCHANGED <<dirVars, hdlVars, jobVars, openVars, wrkVars, mainVars>>

-------------------------------------------------------------------------------
(* irodsTruncate: the check, the server's file, the cached copy.             *)
Truncate(w, p) ==
  /\ At(w, "idle") /\ Exists(p) /\ Unlocked
  /\ ~isFilePreloading(p)
  /\ Call(w, p, "truncate")
  /\ Count
  /\ UNCHANGED <<srvVars, dirVars, hdlVars, jobVars, openVars, st, desc, disturbed,
                 mainVars>>

\* rcDataObjTruncate; if it fails the cached copy is truncated all the same.
TruncateServer(w, z) ==
  /\ At(w, "truncate")
  /\ \/ /\ NewVersion(path[w], z)
        /\ st' = [st EXCEPT ![w] = [ver |-> lastVer', size |-> z]]
     \/ /\ st' = [st EXCEPT ![w] = [ver |-> 0, size |-> z]]
        /\ UNCHANGED srvVars
  /\ pc' = [pc EXCEPT ![w] = "truncCache"]
  /\ UNCHANGED <<dirVars, hdlVars, jobVars, openVars, path, desc, disturbed, mainVars, ops>>

\* truncatePreloadedFile cuts or extends the copy in place.  Its modification time
\* is now, by chance that of the server's file.
truncatedTo(i, s, now) ==
  [inode EXCEPT ![i].ver = Mixed, ![i].size = s.size, ![i].mtime = now]

TruncateCache(w) ==
  /\ At(w, "truncCache") /\ Unlocked
  /\ IF hasCache(path[w])
       THEN \E now \in {0, st[w].ver} : inode' = truncatedTo(cache[path[w]], st[w], now)
       ELSE UNCHANGED inode
  /\ Return(w)
  /\ UNCHANGED <<srvVars, cache, part, hdlVars, jobVars, openVars, mainVars, ops>>

-------------------------------------------------------------------------------
\* irodsUnlink, exclusive of other operations on p.  The cached copy goes even if
\* the server refuses.
Unlink(p) ==
  /\ main = "mounted" /\ Exists(p) /\ opened[p] = 0 /\ ~InUse(p) /\ Unlocked
  /\ ~isFilePreloading(p)
  /\ server' \in {server, [server EXCEPT ![p] = NoFile]}
  /\ IF hasCache(p) THEN UnlinkFiles(FilesOf(p)) ELSE UNCHANGED <<dirVars, fds>>
  /\ Count
  /\ UNCHANGED <<lastVer, handle, jobVars, openVars, wrkVars, mainVars>>

\* Fault: rename while the destination is being preloaded.
renameBusyFrom(from, to) == isFilePreloading(from)

\* irodsRename returns EBUSY.
renameBusy(from, to) == isFilePreloading(from) \/ isFilePreloading(to)

\* irodsRename, exclusive of other operations on both paths; open files follow.
\* The cached copy is renamed even if the server refuses.
Rename(from, to) ==
  /\ main = "mounted" /\ from # to /\ Exists(from) /\ Unlocked
  /\ opened[to] = 0 /\ ~InUse(from) /\ ~InUse(to)
  /\ ~renameBusy(from, to)
  /\ \/ /\ server' = [server EXCEPT ![to] = server[from], ![from] = NoFile]
        /\ opened' = [opened EXCEPT ![to] = opened[from], ![from] = 0]
        /\ writable' = {p \in Paths \ {from} :
                          p \in writable \/ (p = to /\ from \in writable)}
     \/ UNCHANGED <<server, openVars>>
  /\ SetDir(IF hasCache(from) THEN [cache EXCEPT ![to] = cache[from], ![from] = 0]
                              ELSE cache, part, fds, inode)
  /\ Count
  /\ UNCHANGED <<lastVer, handle, jobVars, wrkVars, mainVars>>

\* irodsMknod: the file is created, then an old cached copy is removed.
Mknod(w, p) ==
  /\ At(w, "idle") /\ ~Exists(p) /\ ~InUse(p) /\ Unlocked
  /\ ~isFilePreloading(p)
  /\ NewVersion(p, 0)
  /\ Call(w, p, "mknod")
  /\ Count
  /\ UNCHANGED <<dirVars, hdlVars, jobVars, openVars, st, desc, disturbed, mainVars>>

MknodInvalidate(w) ==
  /\ At(w, "mknod") /\ Unlocked
  /\ IF hasCache(path[w]) THEN UnlinkFiles(FilesOf(path[w])) ELSE UNCHANGED <<dirVars, fds>>
  /\ Return(w)
  /\ UNCHANGED <<srvVars, handle, jobVars, openVars, mainVars, ops>>

-------------------------------------------------------------------------------
(* Reading through the cache.                                                *)
\* irodsRead: openPreloadedFile.  A read that goes to iRODS changes nothing here.
Read(w, p) ==
  LET f == Min({g \in Fds : fds[g] = 0}) IN
  /\ At(w, "idle") /\ opened[p] > 0 /\ Unlocked
  /\ Call(w, p, "read")
  /\ \/ /\ handle[p] # 0
        /\ desc' = [desc EXCEPT ![w] = handle[p]]
        /\ UNCHANGED hdlVars
     \/ /\ handle[p] = 0 /\ hasCache(p)
        /\ desc' = [desc EXCEPT ![w] = f]
        /\ handle' = [handle EXCEPT ![p] = f]
        /\ fds' = [fds EXCEPT ![f] = cache[p]]
  /\ UNCHANGED <<srvVars, dirVars, jobVars, openVars, st, disturbed, mainVars, ops>>

\* readPreloadedFile
ReadLocal(w) ==
  /\ At(w, "read") /\ Unlocked
  /\ Return(w)
  /\ UNCHANGED <<srvVars, dirVars, hdlVars, jobVars, openVars, mainVars, ops>>

MayRelease(p) ==
  /\ main = "mounted" /\ opened[p] > 0 /\ Unlocked
  /\ opened[p] > 1 \/ ~\E w \in Workers : path[w] = p /\ pc[w] = "read"

CloseFd(p) == SetDir(cache, part, [fds EXCEPT ![handle[p]] = 0], inode)

\* Fault: the entry of a closed handle stays in the table.
closeKeepingEntry(p) == CloseFd(p) /\ UNCHANGED handle

\* closePreloadedFile closes the shared handle and takes it out of the table.
closePreloadedFile(p) == CloseFd(p) /\ handle' = [handle EXCEPT ![p] = 0]

\* irodsRelease: closePreloadedFile, if there still is a cached copy.
Release(p) ==
  /\ MayRelease(p)
  /\ opened' = [opened EXCEPT ![p] = @ - 1]
  /\ writable' \in {writable \ {p}} \cup (IF opened[p] > 1 THEN {writable} ELSE {})
  /\ IF hasCache(p) /\ handle[p] # 0
       THEN closePreloadedFile(p)
       ELSE UNCHANGED <<dirVars, hdlVars>>
  /\ disturbed' = disturbed \cup {w \in Workers : path[w] = p /\ pc[w] = "read"}
  /\ UNCHANGED <<srvVars, jobVars, pc, path, st, desc, mainVars, ops>>

-------------------------------------------------------------------------------
(* _preloadThread.                                                           *)
Step(p, from, to) == job[p] = from /\ job' = [job EXCEPT ![p] = to]

\* connected and logged in, getUtil has created the .part file
JobGet(p) ==
  LET i == Min(Inodes \ Used(cache, part, fds)) IN
  /\ Step(p, "run", "get")
  /\ Exists(p) /\ part[p] = 0
  /\ SetDir(cache, [part EXCEPT ![p] = i], fds,
            [inode EXCEPT ![i] = [ver |-> server[p].ver, size |-> 0, mtime |-> 0,
                                  whole |-> FALSE, mount |-> mount]])
  /\ UNCHANGED <<srvVars, handle, list, jobStat, PreloadLock, openVars, wrkVars, mainVars,
                 ops>>

\* Fault: the status of getUtil is not looked at.
JobFailIgnored(p) ==
  /\ job[p] \in {"run", "get"}
  /\ job' = [job EXCEPT ![p] = "got"]
  /\ UNCHANGED <<srvVars, dirVars, hdlVars, list, jobStat, PreloadLock, openVars, wrkVars,
                 mainVars, ops>>

\* The connection, the login or getUtil fails; a .part file stays behind.
JobFail(p) ==
  /\ job[p] \in {"run", "get"}
  /\ job' = [job EXCEPT ![p] = "end"]
  /\ UNCHANGED <<srvVars, dirVars, hdlVars, list, jobStat, PreloadLock, openVars, wrkVars,
                 mainVars, ops>>

\* The server's file has changed since the download began.
Changed(p) == inode[part[p]].ver # server[p].ver

\* getUtil has written some more to the .part file.
JobWrite(p) ==
  /\ job[p] = "get" /\ part[p] # 0
  /\ inode[part[p]].size < server[p].size
  /\ inode' = [inode EXCEPT ![part[p]].size = @ + 1]
  /\ UNCHANGED <<srvVars, cache, part, hdlVars, jobVars, openVars, wrkVars, mainVars, ops>>

\* getUtil has returned with the whole file, or with parts of several versions of
\* it; an unlinked .part was written to no avail
JobGot(p) ==
  /\ Step(p, "get", "got")
  /\ \/ part[p] = 0 /\ UNCHANGED inode
     \/ /\ part[p] # 0
        /\ Changed(p) \/ inode[part[p]].size = server[p].size
        /\ inode' = [inode EXCEPT ![part[p]].whole = TRUE,
                                  ![part[p]].ver = IF Changed(p) THEN Mixed ELSE @]
  /\ UNCHANGED <<srvVars, cache, part, hdlVars, list, jobStat, PreloadLock, openVars,
                 wrkVars, mainVars, ops>>

\* _completeDownload: utime fails if the .part file is gone
JobComplete(p) ==
  /\ Step(p, "got", "end") /\ Unlocked
  /\ IF part[p] = 0
       THEN UNCHANGED <<dirVars, fds>>
       ELSE SetDir([cache EXCEPT ![p] = part[p]], [part EXCEPT ![p] = 0], fds,
                   [inode EXCEPT ![part[p]].mtime = jobStat[p].ver])
  /\ UNCHANGED <<srvVars, handle, list, jobStat, PreloadLock, openVars, wrkVars, mainVars,
                 ops>>

\* the thread leaves the list and the table, which it frees, in one hold of the lock
JobUnlist(p) ==
  /\ Step(p, "end", "free") /\ Unlocked
  /\ PreloadLock' = {p}
  /\ list' = RemoveFirst(list, p)
  /\ UNCHANGED <<srvVars, dirVars, hdlVars, jobStat, openVars, wrkVars, mainVars, ops>>

JobFree(p) ==
  /\ Step(p, "free", "none")
  /\ PreloadLock' = {}
  /\ jobStat' = [jobStat EXCEPT ![p] = NoFile]
  /\ UNCHANGED <<srvVars, dirVars, hdlVars, list, openVars, wrkVars, mainVars, ops>>

-------------------------------------------------------------------------------
(* main: fuse_main returns, waitPreloadJobs, uninitPreload; a new execution. *)
\* waitPreloadJobs takes the size of the list first.
Unmount ==
  /\ main = "mounted"
  /\ \A w \in Workers : pc[w] = "idle"
  /\ \A p \in Paths : opened[p] = 0
  /\ main' = "wait" /\ left' = Len(list)
  /\ UNCHANGED <<srvVars, dirVars, hdlVars, jobVars, openVars, wrkVars, joining, mount,
                 clearCache, ops>>

WaitTake ==
  /\ main = "wait" /\ left > 0 /\ Unlocked
  /\ left' = left - 1
  /\ IF list = <<>>
       THEN UNCHANGED <<list, joining, main>>
       ELSE list' = Tail(list) /\ joining' = {Head(list)} /\ main' = "join"
  /\ UNCHANGED <<srvVars, dirVars, hdlVars, job, jobStat, PreloadLock, openVars, wrkVars,
                 mount, clearCache, ops>>

\* pthread_join.  The thread has freed threadInfo; main frees it again, and what
\* does not abort the process (a Crash) goes on.
WaitJoin ==
  /\ main = "join"
  /\ \A p \in joining : job[p] = "none"
  /\ main' = "wait" /\ joining' = {}
  /\ UNCHANGED <<srvVars, dirVars, hdlVars, jobVars, openVars, wrkVars, left, mount,
                 clearCache, ops>>

WaitDone ==
  /\ main = "wait" /\ left = 0
  /\ main' = "uninit"
  /\ UNCHANGED <<srvVars, dirVars, hdlVars, jobVars, openVars, wrkVars, left, joining, mount,
                 clearCache, ops>>

\* _removeAllCaches or _removeAllIncompleteCaches
Cleaned(clear) == IF clear THEN DiskFiles ELSE {e \in DiskFiles : e[1] = "part"}

NoProcess(F) ==
  /\ SetDir(Unlinked("cache", cache, F), Unlinked("part", part, F),
            [f \in Fds |-> 0], inode)
  /\ handle' = [p \in Paths |-> 0]
  /\ list' = <<>> /\ job' = [p \in Paths |-> "none"]
  /\ jobStat' = [p \in Paths |-> NoFile] /\ PreloadLock' = {}
  /\ opened' = [p \in Paths |-> 0] /\ writable' = {}
  /\ pc' = [w \in Workers |-> "idle"] /\ path' = [w \in Workers |-> NoPath]
  /\ st' = [w \in Workers |-> NoFile] /\ desc' = [w \in Workers |-> 0]
  /\ disturbed' = {}
  /\ main' = "off" /\ left' = 0 /\ joining' = {}

\* uninitPreload, and the process exits
Uninit ==
  /\ main = "uninit"
  /\ NoProcess(Cleaned(clearCache))
  /\ UNCHANGED <<srvVars, mount, clearCache, ops>>

\* The process is killed, or aborts.
Crash ==
  /\ main # "off"
  /\ NoProcess({})
  /\ UNCHANGED <<srvVars, mount, clearCache, ops>>

\* Fault: what an earlier execution left is not removed.
MountKeepsParts ==
  /\ main = "off" /\ mount < MaxMounts
  /\ mount' = mount + 1 /\ clearCache' \in BOOLEAN /\ main' = "mounted"
  /\ UNCHANGED <<srvVars, dirVars, hdlVars, jobVars, openVars, wrkVars, left, joining, ops>>

\* initPreload at the next execution
Mount ==
  /\ main = "off" /\ mount < MaxMounts
  /\ mount' = mount + 1 /\ clearCache' \in BOOLEAN /\ main' = "mounted"
  /\ UnlinkFiles(Cleaned(clearCache'))
  /\ UNCHANGED <<srvVars, handle, jobVars, openVars, wrkVars, left, joining, ops>>

-------------------------------------------------------------------------------
WorkerStep(w) ==
  \/ \E p \in Paths : \/ OpenRead(w, p) \/ Truncate(w, p)
                      \/ Mknod(w, p) \/ Read(w, p)
  \/ PreloadFile(w) \/ TruncateCache(w)
  \/ MknodInvalidate(w) \/ ReadLocal(w)
  \/ \E z \in 1..MaxSize : TruncateServer(w, z)

FileStep(p) ==
  \/ \E z \in 1..MaxSize : Write(p, z)
  \/ OpenWrite(p) \/ Unlink(p) \/ Release(p)
  \/ \E q \in Paths : Rename(p, q)

JobStep(p) ==
  \/ JobGet(p) \/ JobFail(p) \/ JobWrite(p) \/ JobGot(p) \/ JobComplete(p)
  \/ JobUnlist(p) \/ JobFree(p)

MainStep == Unmount \/ WaitTake \/ WaitJoin \/ WaitDone \/ Uninit

Next ==
  \/ \E w \in Workers : WorkerStep(w)
  \/ \E p \in Paths : FileStep(p)
  \/ \E p \in Paths : JobStep(p)
  \/ MainStep \/ Mount \/ Crash

Spec == Init /\ [][Next]_vars

-------------------------------------------------------------------------------
(* Properties.                                                               *)

\* A file under its final name in the cache directory comes from a download that
\* ended well, of one version unless the file was written meanwhile: a failed or
\* killed download, an eviction or invalidation during a download, and the next
\* execution never turn a .part file into a cached copy before it is complete
\* (_download, _completeDownload).
CacheWhole == \A p \in Paths : hasCache(p) => inode[cache[p]].whole

\* While the file system is mounted every .part file was made by this execution:
\* those of a killed one were removed (initPreload, _removeIncompleteCaches).
OwnParts ==
  main = "mounted" => \A p \in Paths : part[p] # 0 => inode[part[p]].mount = mount

\* The descriptor that irodsRead got from openPreloadedFile is still open, and still
\* the one of its path, when readPreloadedFile uses it in a later critical section,
\* unless another open of the same path was released in between: all opens share
\* the handle, but nothing else (eviction, invalidation, the release of another
\* path, a new download) closes it under a read.
ReadsOpenHandle ==
  \A w \in Workers :
    pc[w] = "read" /\ w \notin disturbed =>
      fds[desc[w]] # 0 /\ handle[path[w]] = desc[w]

\* When waitPreloadJobs has returned no download is under way that could still write
\* to the cache directory that uninitPreload cleans (README, unmounting).
UnmountWaits ==
  main = "uninit" => \A p \in Paths : job[p] \notin {"run", "get", "got"}

\* Downloads, evictions, invalidations, truncations, renames and crashes together
\* implement a cache whose entries appear at once and only where there is none, and
\* whose contents only a truncation changes.
Whole == INSTANCE WholeFileCache WITH
  Versions <- 1..MaxVersion, None <- 0, Mixed <- Mixed,
  entry <- [p \in Paths |-> IF hasCache(p) THEN inode[cache[p]].ver ELSE 0]
ImplementsWholeFileCache == Whole!Spec

=============================================================================

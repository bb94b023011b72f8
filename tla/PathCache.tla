------------------------------ MODULE PathCache ------------------------------
(***************************************************************************)
(* The path cache of the FUSE client (iFuseLib.c and the handlers of       *)
(* iFuseOper.c): two queues of entries, PathArray for paths known to exist *)
(* and NonExistPathArray for paths known not to, each searched, extended   *)
(* and expired under PathCacheLock.  A handler takes the lock several      *)
(* times, with its request to the server in between, and keeps the pointer *)
(* a match returned after the lock is given up.                            *)
(*                                                                         *)
(* The paths are those of one hash slot: slots do not share entries.       *)
(* Entries are kept by their age instead of their cachedTime: Tick ages    *)
(* all, and an age of CACHE_EXPIRE_TIME stands for every larger one.  The  *)
(* stat of a file is a version, a value that differs after each change.    *)
(* Unlinked entries go back to malloc, which may hand them out again while *)
(* a thread still has the pointer.                                         *)
(***************************************************************************)
EXTENDS Integers, FiniteSets, Sequences, SequencesExt

CONSTANTS
  Threads,
  Paths, NoPath,
  Entries, NoEntry,     \* bound: the pathCache_t that malloc can hand out
  Versions,             \* bound: stats a file may have; 0 is no file
  CACHE_EXPIRE_TIME,
  MaxOps                \* bound: handlers called, and changes by other clients

ASSUME PathCacheAssumption ==
  /\ NoPath \notin Paths /\ NoEntry \notin Entries
  /\ Versions \subseteq Nat \ {0} /\ Cardinality(Versions) > 1
  /\ {CACHE_EXPIRE_TIME, MaxOps} \subseteq Nat \ {0}

VARIABLES
  server,              \* path -> version, or 0
  creating,            \* paths made by irodsMknod and not yet put to the server
  PathArray, NonExistPathArray,     \* queues of entries, top first
  entry,               \* [path, age, ver, loc] of each entry; loc: with a local copy
  pc, path, dest, ptr, \* of each thread: ptr is tmpPathCache
  caller,              \* of each thread in _irodsGetattr: its handler
  stbuf,               \* of each thread: path -> the version it was told
  todo,                \* of each thread: what irodsReaddir still has to enter
  ptrAge,              \* history: the age of what ptr was set to
  suspect,             \* history: threads whose steps may leave the cache wrong
  calm,                \* history: time since an event after which the cache of the
                       \* path may be wrong, up to CACHE_EXPIRE_TIME
  ops                  \* handlers called, against MaxOps

cacheVars == <<PathArray, NonExistPathArray, entry>>
srvVars   == <<server, creating>>
ptrVars   == <<ptr, ptrAge>>
locals    == <<path, dest, ptrVars, caller, stbuf, todo>>
vars == <<srvVars, cacheVars, pc, locals, suspect, calm, ops>>

NoStat == [p \in Paths |-> 0]
Free   == [path |-> NoPath, age |-> 0, ver |-> 0, loc |-> FALSE]

PCs == {"idle", "matchNon", "match", "use", "stat", "add", "readdir", "readdirAdd",
        "mkdir", "mkdirAdd", "rmNon", "mknodRm", "mknodAdd", "mknodSet", "unlink", "rm",
        "rename", "renameUnlink", "renameAgain", "renameRmTo", "renameMatch", "renameAdd",
        "renameRmFrom", "truncMatch", "truncUse", "change", "changeMatch", "changeUse",
        "open", "openRmNon", "write", "closeMatch", "closePut"}

\* The types of the variables; an entry is linked in one queue at most, and once
\* (addToCacheSlot, rmPathFromCache).
TypeOK ==
  /\ server \in [Paths -> Versions \cup {0}] /\ creating \subseteq Paths
  /\ PathArray \in Seq(Entries) /\ NonExistPathArray \in Seq(Entries)
  /\ IsInjective(PathArray \o NonExistPathArray)
  /\ entry \in [Entries -> [path : Paths \cup {NoPath}, age : 0..CACHE_EXPIRE_TIME,
                            ver : Versions \cup {0}, loc : BOOLEAN]]
  /\ pc \in [Threads -> PCs]
  /\ path \in [Threads -> Paths \cup {NoPath}] /\ dest \in [Threads -> Paths \cup {NoPath}]
  /\ ptr \in [Threads -> Entries \cup {NoEntry}]
  /\ caller \in [Threads -> {"none", "getattr", "mknod", "open"}]
  /\ stbuf \in [Threads -> [Paths -> Versions \cup {0}]]
  /\ todo \in [Threads -> SUBSET Paths]
  /\ ptrAge \in [Threads -> 0..CACHE_EXPIRE_TIME]
  /\ suspect \subseteq Threads /\ calm \in [Paths -> 0..CACHE_EXPIRE_TIME]
  /\ ops \in 0..MaxOps

Init ==
  /\ server \in [Paths -> Versions \cup {0}] /\ creating = {}
  /\ PathArray = <<>> /\ NonExistPathArray = <<>>
  /\ entry = [e \in Entries |-> Free]
  /\ pc = [t \in Threads |-> "idle"]
  /\ path = [t \in Threads |-> NoPath] /\ dest = [t \in Threads |-> NoPath]
  /\ ptr = [t \in Threads |-> NoEntry] /\ caller = [t \in Threads |-> "none"]
  /\ stbuf = [t \in Threads |-> NoStat] /\ todo = [t \in Threads |-> {}]
  /\ ptrAge = [t \in Threads |-> 0]
  /\ suspect = {} /\ calm = [p \in Paths |-> CACHE_EXPIRE_TIME]
  /\ ops = 0

-------------------------------------------------------------------------------
(* The queues.                                                               *)
Expired(e) == entry[e].age >= CACHE_EXPIRE_TIME
Has(q, p)  == \E i \in 1..Len(q) : entry[q[i]].path = p
First(q, p) == q[SelectInSeq(q, LAMBDA e : entry[e].path = p)]

\* chkCacheExpire removes from the top, up to the first entry that has not expired.
chkCacheExpire(q) ==
  LET n == CHOOSE k \in 0..Len(q) :
             /\ \A i \in 1..k : Expired(q[i])
             /\ k < Len(q) => ~Expired(q[k + 1])
  IN SubSeq(q, n + 1, Len(q))

\* Fault: the top of the queue is removed instead of the entry of the path.
rmTop(q, p) == IF Has(q, p) THEN Tail(q) ELSE q

\* _rmPathFromCache removes the first entry of the path; without expiring any.
rmPathFromCache(q, p) == RemoveFirstMatch(q, LAMBDA e : entry[e].path = p)

\* Fault: a new entry goes to the top.
queueTop(q, e) == <<e>> \o q

\* Fault: the old bottom is not replaced, the new entry is linked in twice.
queueTwice(q, e) == <<e>> \o Append(q, e)

\* addToCacheSlot queues the new entry at the bottom.
queueBottom(q, e) == Append(q, e)

\* The queues and the entries become these; what is in no queue is free.
SetCache(q, r, ent) ==
  /\ PathArray' = q /\ NonExistPathArray' = r
  /\ entry' = [e \in Entries |-> IF e \in Range(q) \cup Range(r) THEN ent[e] ELSE Free]

Live(e) == e \in Range(PathArray) \cup Range(NonExistPathArray)

NewEntry(p, v, l) == [path |-> p, age |-> 0, ver |-> v, loc |-> l]

\* addPathToCache: malloc returns any entry that is free.
AddEntry(e, p, v, l) ==
  /\ ~Live(e)
  /\ SetCache(queueBottom(PathArray, e), NonExistPathArray,
              [entry EXCEPT ![e] = NewEntry(p, v, l)])

AddPath(p, v, l) == \E e \in Entries : AddEntry(e, p, v, l)

AddNonExist(p) ==
  \E e \in Entries :
    /\ ~Live(e)
    /\ SetCache(PathArray, queueBottom(NonExistPathArray, e),
                [entry EXCEPT ![e] = NewEntry(p, 0, FALSE)])

RmPath(p)     == SetCache(rmPathFromCache(PathArray, p), NonExistPathArray, entry)
RmNonExist(p) == SetCache(PathArray, rmPathFromCache(NonExistPathArray, p), entry)

\* matchPathInPathCache on PathArray: the entry, or NoEntry
Match(p) == LET q == chkCacheExpire(PathArray)
            IN IF Has(q, p) THEN First(q, p) ELSE NoEntry

ExpirePath     == SetCache(chkCacheExpire(PathArray), NonExistPathArray, entry)
ExpireNonExist == SetCache(PathArray, chkCacheExpire(NonExistPathArray), entry)

-------------------------------------------------------------------------------
(* Threads.  From the moment a handler meets another one on its path every   *)
(* step of both may leave the cache wrong.                                   *)
PathsOf(t)  == ({path[t], dest[t]} \ {NoPath}) \cup todo[t]
ActiveOn(p) == {t \in Threads : pc[t] # "idle" /\ p \in PathsOf(t)}
Meet(t, S)  == LET met == UNION {ActiveOn(p) : p \in S}
               IN IF met = {} THEN suspect ELSE suspect \cup met \cup {t}

\* The cache of the paths S may be wrong from here on.
Doubt(S) == calm' = [p \in Paths |-> IF p \in S THEN 0 ELSE calm[p]]

Doubted(t, S) == Doubt(S \cup (IF t \in suspect THEN PathsOf(t) ELSE {}))

At(t, l) == pc[t] = l

Goto(t, from, to) ==
  /\ At(t, from)
  /\ pc' = [pc EXCEPT ![t] = to]

\* A second entry is queued for p: rmPathFromCache, which does not look at ages, will
\* remove the first one although that has expired.
Second(p) == IF Has(PathArray, p) THEN {p} ELSE {}

\* A step of t that does not end its handler; the cache of S may be wrong, or
\* what the threads M do later.
StepWith(t, from, to, S, M) ==
  /\ Goto(t, from, to)
  /\ Doubted(t, S)
  /\ suspect' = suspect \cup M
  /\ UNCHANGED ops

Step(t, from, to) == StepWith(t, from, to, {}, {})

SetPtr(t, e) ==
  /\ ptr' = [ptr EXCEPT ![t] = e]
  /\ ptrAge' = [ptrAge EXCEPT ![t] = IF e = NoEntry THEN 0 ELSE entry[e].age]

\* The handler returns; the cache of S may be wrong.
Return(t, from, S) ==
  /\ Goto(t, from, "idle")
  /\ Doubted(t, S)
  /\ suspect' = suspect \ {t}
  /\ path' = [path EXCEPT ![t] = NoPath] /\ dest' = [dest EXCEPT ![t] = NoPath]
  /\ SetPtr(t, NoEntry) /\ caller' = [caller EXCEPT ![t] = "none"]
  /\ stbuf' = [stbuf EXCEPT ![t] = NoStat] /\ todo' = [todo EXCEPT ![t] = {}]
  /\ UNCHANGED ops

Count == ops < MaxOps /\ ops' = ops + 1

\* A handler is called with the paths p and q.
Call(t, label, p, q) ==
  /\ Goto(t, "idle", label) /\ Count
  /\ suspect' = Meet(t, {p, q} \ {NoPath})
  /\ path' = [path EXCEPT ![t] = p] /\ dest' = [dest EXCEPT ![t] = q]
  /\ UNCHANGED <<srvVars, cacheVars, ptrVars, stbuf, todo, calm>>

SetStat(t, v) == stbuf' = [stbuf EXCEPT ![t][path[t]] = v]

ServerSet(p, v) == server' = [server EXCEPT ![p] = v] /\ UNCHANGED creating
SomeVersion == CHOOSE v \in Versions : TRUE

-------------------------------------------------------------------------------
(* _irodsGetattr, called by irodsGetattr, irodsMknod and irodsOpen.          *)
Getattr(t, p, c) ==
  /\ Call(t, "matchNon", p, NoPath)
  /\ caller' = [caller EXCEPT ![t] = c]

Goes(t, from, to) ==
  /\ Step(t, from, to)
  /\ SetPtr(t, NoEntry) /\ stbuf' = [stbuf EXCEPT ![t] = NoStat]
  /\ UNCHANGED <<path, dest, caller, todo>>

NotFound(t, from) == IF caller[t] = "mknod" THEN Goes(t, from, "mknodRm")
                                            ELSE Return(t, from, {})
Found(t, from)    == IF caller[t] = "open" THEN Goes(t, from, "open")
                                           ELSE Return(t, from, {})

MatchNonExist(t) ==
  /\ At(t, "matchNon")
  /\ ExpireNonExist
  /\ IF Has(chkCacheExpire(NonExistPathArray), path[t])
       THEN NotFound(t, "matchNon")
       ELSE Step(t, "matchNon", "match") /\ UNCHANGED locals
  /\ UNCHANGED srvVars

MatchPath(t) ==
  /\ At(t, "match")
  /\ ExpirePath
  /\ SetPtr(t, Match(path[t]))
  /\ Step(t, "match", IF Match(path[t]) = NoEntry THEN "stat" ELSE "use")
  /\ UNCHANGED <<srvVars, path, dest, caller, stbuf, todo>>

\* updatePathCacheStat and the copy of stbuf, through the pointer and without the
\* lock; a freed entry gives some answer.
UseEntry(t) ==
  /\ Found(t, "use")
  /\ UNCHANGED <<srvVars, cacheVars>>

\* The local copy of the entry cannot be statted: the first entry of the path is
\* removed.  If there is another, what the handler adds is a second one.
UseEntryFails(t) ==
  /\ At(t, "use")
  /\ ~Live(ptr[t]) \/ entry[ptr[t]].loc
  /\ RmPath(path[t])
  /\ SetPtr(t, NoEntry)
  /\ StepWith(t, "use", "stat", {},
              IF Has(rmPathFromCache(PathArray, path[t]), path[t]) THEN {t} ELSE {})
  /\ UNCHANGED <<srvVars, path, dest, caller, stbuf, todo>>

\* rcObjStat
Stat(t) ==
  /\ Step(t, "stat", "add")
  /\ SetStat(t, server[path[t]])
  /\ UNCHANGED <<srvVars, cacheVars, path, dest, ptrVars, caller, todo>>

\* rcObjStat fails, and again after ifuseReconnect: as if there were no file
StatFails(t) ==
  /\ StepWith(t, "stat", "add", {}, {t})
  /\ UNCHANGED <<srvVars, cacheVars, locals>>

Add(t) ==
  LET v == stbuf[t][path[t]] IN
  /\ At(t, "add")
  /\ IF v = 0 THEN AddNonExist(path[t]) /\ NotFound(t, "add")
              ELSE AddPath(path[t], v, FALSE) /\ Found(t, "add")
  /\ UNCHANGED srvVars

-------------------------------------------------------------------------------
(* irodsReaddir.  The server's answer is taken at once.                      *)
Readdir(t) ==
  LET S == {p \in Paths : server[p] # 0} IN
  /\ Goto(t, "idle", "readdir") /\ Count
  /\ suspect' = Meet(t, S)
  /\ todo' = [todo EXCEPT ![t] = S] /\ stbuf' = [stbuf EXCEPT ![t] = server]
  /\ UNCHANGED <<srvVars, cacheVars, path, dest, ptrVars, caller, calm>>

\* Fault: the path cache is not searched.
ReaddirNoMatch(t) ==
  /\ \E p \in todo[t] :
       /\ todo' = [todo EXCEPT ![t] = @ \ {p}]
       /\ Step(t, "readdir", "readdirAdd") /\ path' = [path EXCEPT ![t] = p]
  /\ UNCHANGED <<srvVars, cacheVars, dest, ptrVars, caller, stbuf>>

ReaddirMatch(t) ==
  /\ At(t, "readdir")
  /\ ExpirePath
  /\ \E p \in todo[t] :
       /\ todo' = [todo EXCEPT ![t] = @ \ {p}]
       /\ IF Match(p) = NoEntry
            THEN Step(t, "readdir", "readdirAdd") /\ path' = [path EXCEPT ![t] = p]
            ELSE Step(t, "readdir", "readdir") /\ UNCHANGED path
  /\ UNCHANGED <<srvVars, dest, ptrVars, caller, stbuf>>

ReaddirAdd(t) ==
  /\ Step(t, "readdirAdd", "readdir")
  /\ AddPath(path[t], stbuf[t][path[t]], FALSE)
  /\ path' = [path EXCEPT ![t] = NoPath]
  /\ UNCHANGED <<srvVars, dest, ptrVars, caller, stbuf, todo>>

ReaddirDone(t) ==
  /\ At(t, "readdir")
  /\ todo[t] = {}
  /\ Return(t, "readdir", {})
  /\ UNCHANGED <<srvVars, cacheVars>>

-------------------------------------------------------------------------------
(* Requests that change the server.  When one succeeds only after            *)
(* ifuseReconnect, or has been done but its answer was lost, the handler     *)
(* returns without touching the path cache.                                  *)
\* The server refuses.
Refused(t, from, ok) ==
  /\ ~ok
  /\ Return(t, from, {})
  /\ UNCHANGED <<srvVars, cacheVars>>

Handler(t, label, p) == Call(t, label, p, NoPath) /\ UNCHANGED caller

\* irodsMkdir
MkdirServer(t) ==
  /\ At(t, "mkdir")
  /\ \/ \E v \in Versions :
          /\ server[path[t]] = 0 /\ ServerSet(path[t], v)
          /\ \/ Step(t, "mkdir", "mkdirAdd") /\ SetStat(t, v)
                /\ UNCHANGED <<path, dest, ptrVars, caller, todo>>
             \/ Return(t, "mkdir", {path[t]})
          /\ UNCHANGED cacheVars
     \/ Refused(t, "mkdir", server[path[t]] = 0)

MkdirAdd(t) ==
  /\ StepWith(t, "mkdirAdd", "rmNon", Second(path[t]), {})
  /\ AddPath(path[t], stbuf[t][path[t]], FALSE)
  /\ UNCHANGED <<srvVars, locals>>

\* the last step of irodsMkdir and of irodsRename
RmNon(t) ==
  /\ At(t, "rmNon")
  /\ RmNonExist(IF dest[t] = NoPath THEN path[t] ELSE dest[t])
  /\ Return(t, "rmNon", {})
  /\ UNCHANGED srvVars

\* irodsMknod after its getattr: a local file is made, which ifuseClose puts later
MknodRm(t) ==
  /\ Step(t, "mknodRm", "mknodAdd")
  /\ creating' = creating \cup {path[t]}
  /\ RmNonExist(path[t])
  /\ UNCHANGED <<server, locals>>

\* addNewlyCreatedToCache returns the new entry ...
MknodAdd(t) ==
  /\ \E e \in Entries : AddEntry(e, path[t], SomeVersion, FALSE) /\ SetPtr(t, e)
  /\ StepWith(t, "mknodAdd", "mknodSet", Second(path[t]), {})
  /\ UNCHANGED <<srvVars, path, dest, caller, stbuf, todo>>

\* ... to which the local copy is added through the pointer, without the lock.
MknodSet(t) ==
  LET e == ptr[t] IN
  /\ At(t, "mknodSet")
  /\ IF Live(e) THEN entry' = [entry EXCEPT ![e].loc = TRUE] ELSE UNCHANGED entry
  /\ Return(t, "mknodSet", IF Live(e) THEN {entry[e].path} \ {path[t]} ELSE {})
  /\ UNCHANGED <<srvVars, PathArray, NonExistPathArray>>

\* irodsUnlink, irodsRmdir
UnlinkServer(t) ==
  /\ At(t, "unlink")
  /\ \/ /\ server[path[t]] # 0 /\ ServerSet(path[t], 0)
        /\ \/ Step(t, "unlink", "rm") /\ UNCHANGED locals
           \/ Return(t, "unlink", {path[t]})
        /\ UNCHANGED cacheVars
     \/ Refused(t, "unlink", server[path[t]] # 0)

\* Fault: irodsUnlink leaves the cache alone.
RmNothing(t) ==
  /\ Return(t, "rm", {})
  /\ UNCHANGED <<srvVars, cacheVars>>

\* the last step of irodsUnlink and of ifuseClose
Rm(t) ==
  /\ At(t, "rm")
  /\ RmPath(path[t])
  /\ Return(t, "rm", {})
  /\ UNCHANGED srvVars

-------------------------------------------------------------------------------
(* irodsRename of a file that is not being created.                          *)
\* rcDataObjRename is done, which the server refuses if there is a destination.
Renamed(t, from) ==
  /\ server[path[t]] # 0 /\ server[dest[t]] = 0
  /\ server' = [server EXCEPT ![dest[t]] = server[path[t]], ![path[t]] = 0]
  /\ \/ Step(t, from, "renameRmTo") /\ UNCHANGED locals
     \/ Return(t, from, PathsOf(t))
  /\ UNCHANGED <<creating, cacheVars>>

\* With a destination it is unlinked and the request repeated; the request that
\* follows ifuseReconnect is not.
RenameServer(t) ==
  /\ At(t, "rename")
  /\ \/ Renamed(t, "rename")
     \/ /\ server[path[t]] # 0 /\ server[dest[t]] # 0
        /\ Step(t, "rename", "renameUnlink")
        /\ UNCHANGED <<srvVars, cacheVars, locals>>
     \/ Refused(t, "rename", server[path[t]] # 0 /\ server[dest[t]] = 0)

\* The status of rcDataObjUnlink is not looked at.
RenameUnlink(t) ==
  /\ Step(t, "renameUnlink", "renameAgain")
  /\ server' \in {server, [server EXCEPT ![dest[t]] = 0]}
  /\ UNCHANGED <<creating, cacheVars, locals>>

\* When the second rcDataObjRename fails the destination may be gone, but its entry
\* stays.
RenameAgain(t) ==
  /\ At(t, "renameAgain")
  /\ \/ Renamed(t, "renameAgain")
     \/ /\ Return(t, "renameAgain", IF server[dest[t]] = 0 THEN {dest[t]} ELSE {})
        /\ UNCHANGED <<srvVars, cacheVars>>

RenameRmTo(t) ==
  /\ Step(t, "renameRmTo", "renameMatch")
  /\ RmPath(dest[t])
  /\ UNCHANGED <<srvVars, locals>>

RenameMatch(t) ==
  /\ Step(t, "renameMatch", IF Match(path[t]) = NoEntry THEN "rmNon" ELSE "renameAdd")
  /\ ExpirePath
  /\ SetPtr(t, Match(path[t]))
  /\ UNCHANGED <<srvVars, path, dest, caller, stbuf, todo>>

\* The entry that t has is of its path, and of after the last event that may have left
\* the cache of the path wrong.
Trusted(t) ==
  /\ Live(ptr[t]) /\ entry[ptr[t]].path = path[t]
  /\ entry[ptr[t]].age < calm[path[t]]

\* The stat is read through the pointer.  What may be wrong about the source may be
\* wrong about the destination for another CACHE_EXPIRE_TIME.
RenameAdd(t) ==
  /\ StepWith(t, "renameAdd", "renameRmFrom",
              Second(dest[t]) \cup (IF Trusted(t) THEN {} ELSE {dest[t]}), {})
  /\ \E v \in IF Live(ptr[t]) THEN {entry[ptr[t]].ver} ELSE Versions :
       AddPath(dest[t], v, FALSE)
  /\ SetPtr(t, NoEntry)
  /\ UNCHANGED <<srvVars, path, dest, caller, stbuf, todo>>

RenameRmFrom(t) ==
  /\ Step(t, "renameRmFrom", "rmNon")
  /\ RmPath(path[t])
  /\ UNCHANGED <<srvVars, locals>>

-------------------------------------------------------------------------------
(* irodsTruncate and irodsChmod.  An entry with a local copy, which stays    *)
(* after the file was put to the server, is truncated in place of the file.  *)
TruncMatch(t) ==
  LET e == Match(path[t])
      l == e # NoEntry /\ entry[e].loc
  IN
  /\ Step(t, "truncMatch", IF l THEN "truncUse" ELSE "change")
  /\ SetPtr(t, IF l THEN e ELSE NoEntry)
  /\ ExpirePath
  /\ UNCHANGED <<srvVars, path, dest, caller, stbuf, todo>>

TruncUse(t) ==
  /\ At(t, "truncUse")
  /\ IF Live(ptr[t]) /\ entry[ptr[t]].loc
       THEN /\ \E v \in Versions : entry' = [entry EXCEPT ![ptr[t]].ver = v]
            /\ Return(t, "truncUse", {entry[ptr[t]].path})
            /\ UNCHANGED <<srvVars, PathArray, NonExistPathArray>>
       ELSE Goes(t, "truncUse", "change") /\ UNCHANGED <<srvVars, cacheVars>>

ChangeServer(t) ==
  LET ok == server[path[t]] # 0 IN
  /\ At(t, "change")
  /\ \/ \E v \in Versions :
          /\ ok /\ ServerSet(path[t], v)
          /\ \/ Step(t, "change", "changeMatch") /\ SetStat(t, v)
                /\ UNCHANGED <<path, dest, ptrVars, caller, todo>>
             \/ Return(t, "change", {path[t]})
          /\ UNCHANGED cacheVars
     \/ Refused(t, "change", ok)

ChangeMatch(t) ==
  LET e == Match(path[t]) IN
  /\ At(t, "changeMatch")
  /\ ExpirePath
  /\ IF e = NoEntry
       THEN Return(t, "changeMatch", {})
       ELSE /\ Step(t, "changeMatch", "changeUse") /\ SetPtr(t, e)
            /\ UNCHANGED <<path, dest, caller, stbuf, todo>>
  /\ UNCHANGED srvVars

\* The new mode or size is stored through the pointer, into whatever is there.
ChangeUse(t) ==
  LET e == ptr[t] IN
  /\ At(t, "changeUse")
  /\ IF Live(e)
       THEN entry' = [entry EXCEPT ![e].ver = stbuf[t][path[t]]]
       ELSE UNCHANGED entry
  /\ Return(t, "changeUse", IF Live(e) THEN {entry[e].path} \ {path[t]} ELSE {})
  /\ UNCHANGED <<srvVars, PathArray, NonExistPathArray>>

-------------------------------------------------------------------------------
(* irodsOpen for writing after its getattr, a write, and the close of        *)
(* ifuseClose.                                                               *)
Open(t) ==
  /\ At(t, "open")
  /\ \/ /\ server[path[t]] # 0
        /\ Step(t, "open", "openRmNon")
        /\ UNCHANGED <<srvVars, cacheVars, locals>>
     \/ Refused(t, "open", server[path[t]] # 0)

OpenRmNon(t) ==
  /\ Step(t, "openRmNon", "write")
  /\ RmNonExist(path[t])
  /\ UNCHANGED <<srvVars, locals>>

\* Without bytes written ifuseClose leaves the cache alone.
Write(t) ==
  /\ At(t, "write")
  /\ \/ /\ server[path[t]] # 0
        /\ \E v \in Versions : ServerSet(path[t], v)
        /\ Step(t, "write", "rm")
        /\ UNCHANGED <<cacheVars, locals>>
     \/ Return(t, "write", {}) /\ UNCHANGED <<srvVars, cacheVars>>

\* ifuseClose of a newly created file
Close(t, p) ==
  /\ p \in creating
  /\ ~\E u \in Threads : path[u] = p /\ pc[u] \in {"mknodAdd", "mknodSet", "closeMatch", "closePut"}
  /\ Handler(t, "closeMatch", p)

\* Without its entry the file is not put; if it was written to the path is removed.
CloseMatch(t) ==
  LET e == Match(path[t]) IN
  /\ At(t, "closeMatch")
  /\ ExpirePath
  /\ IF e # NoEntry /\ entry[e].loc
       THEN /\ Step(t, "closeMatch", "closePut") /\ SetPtr(t, e)
            /\ UNCHANGED <<srvVars, path, dest, caller, stbuf, todo>>
       ELSE /\ creating' = creating \ {path[t]} /\ UNCHANGED server
            /\ \/ Step(t, "closeMatch", "rm") /\ UNCHANGED locals
               \/ Return(t, "closeMatch", {})

\* ifusePut; a large file keeps no local copy
ClosePut(t) ==
  LET e == ptr[t] IN
  /\ At(t, "closePut")
  /\ creating' = creating \ {path[t]}
  /\ UNCHANGED <<PathArray, NonExistPathArray>>
  /\ \/ \E v \in Versions, l \in BOOLEAN :
          /\ server' = [server EXCEPT ![path[t]] = v]
          /\ IF Live(e) THEN entry' = [entry EXCEPT ![e].ver = v, ![e].loc = l]
                        ELSE UNCHANGED entry
          /\ Return(t, "closePut", IF Live(e) /\ entry[e].path = path[t] THEN {} ELSE Paths)
     \/ /\ Return(t, "closePut", {path[t]})
        /\ UNCHANGED <<server, entry>>

-------------------------------------------------------------------------------
\* Another client of iRODS changes the file, or this one renames a collection above
\* it: irodsRename leaves the entries of what is in the collection alone.
OtherClient(p) ==
  /\ \E v \in (Versions \cup {0}) \ {server[p]} : ServerSet(p, v)
  /\ Count /\ Doubt({p})
  /\ suspect' = suspect \cup ActiveOn(p)
  /\ UNCHANGED <<cacheVars, pc, locals>>

Older(n) == IF n < CACHE_EXPIRE_TIME THEN n + 1 ELSE n

Tick ==
  /\ entry' = [e \in Entries |-> IF Live(e) THEN [entry[e] EXCEPT !.age = Older(@)]
                                            ELSE entry[e]]
  /\ calm' = [p \in Paths |-> Older(calm[p])]
  /\ ptrAge' = [t \in Threads |-> IF ptr[t] = NoEntry THEN 0 ELSE Older(ptrAge[t])]
  /\ UNCHANGED <<srvVars, PathArray, NonExistPathArray, pc, path, dest, ptr, caller, stbuf,
                 todo, suspect, ops>>

CallStep(t) ==
  \/ \E p \in Paths :
       \/ \E c \in {"getattr", "mknod", "open"} : Getattr(t, p, c)
       \/ \E l \in {"unlink", "change", "truncMatch"} : Handler(t, l, p)
       \/ p \notin creating /\ Handler(t, "mkdir", p)
       \/ Close(t, p)
       \/ \E q \in Paths \ {p} : /\ {p, q} \cap creating = {}
                                 /\ Call(t, "rename", p, q) /\ UNCHANGED caller
  \/ Readdir(t)

ThreadStep(t) ==
  \/ CallStep(t)
  \/ MatchNonExist(t) \/ MatchPath(t) \/ UseEntry(t) \/ UseEntryFails(t)
  \/ Stat(t) \/ StatFails(t) \/ Add(t)
  \/ ReaddirMatch(t) \/ ReaddirAdd(t) \/ ReaddirDone(t)
  \/ MkdirServer(t) \/ MkdirAdd(t) \/ RmNon(t)
  \/ MknodRm(t) \/ MknodAdd(t) \/ MknodSet(t)
  \/ UnlinkServer(t) \/ Rm(t)
  \/ RenameServer(t) \/ RenameUnlink(t) \/ RenameAgain(t)
  \/ RenameRmTo(t) \/ RenameMatch(t) \/ RenameAdd(t) \/ RenameRmFrom(t)
  \/ TruncMatch(t) \/ TruncUse(t) \/ ChangeServer(t) \/ ChangeMatch(t) \/ ChangeUse(t)
  \/ Open(t) \/ OpenRmNon(t) \/ Write(t) \/ CloseMatch(t) \/ ClosePut(t)

Next == Tick \/ (\E p \in Paths : OtherClient(p)) \/ (\E t \in Threads : ThreadStep(t))

Spec == Init /\ [][Next]_vars

-------------------------------------------------------------------------------
(* Properties.                                                               *)

\* chkCacheExpire stops at the first entry that has not expired: it relies on every
\* queue being ordered by cachedTime, whatever is removed in between.
QueuesSorted ==
  \A q \in {PathArray, NonExistPathArray} :
    \A i, j \in 1..Len(q) : i < j => entry[q[i]].age >= entry[q[j]].age

\* No handler uses p, and CACHE_EXPIRE_TIME has passed since the last event that may
\* have left its cache wrong: handlers overlapping on p, a request that succeeded only
\* after a reconnect, a failed rcObjStat, another client, a rename of a collection
\* above p, a rename to p that failed after it had unlinked p, the truncation of a
\* local copy only, a second entry beside an expired one, a rename of what may be
\* wrong, a store through a pointer to an entry that was freed and is p's now.
Settled(p) == ActiveOn(p) = {} /\ p \notin creating /\ calm[p] = CACHE_EXPIRE_TIME

\* What a lookup of a settled path would be told is what the server has: staleness
\* of either queue does not outlive CACHE_EXPIRE_TIME.
StaleEnds ==
  \A p \in Paths : Settled(p) =>
    /\ Match(p) # NoEntry => entry[Match(p)].ver = server[p]
    /\ Has(chkCacheExpire(NonExistPathArray), p) => server[p] = 0

\* The pointer that matchPathInPathCache returned, which a handler uses after the lock
\* is given up, still is the entry of its path: only handlers that overlap on the path
\* and the entry's own expiry, due since the match, can have freed it.
PointersValid ==
  \A t \in Threads :
    ptr[t] # NoEntry /\ t \notin suspect /\ ptrAge[t] < CACHE_EXPIRE_TIME =>
      Live(ptr[t]) /\ entry[ptr[t]].path = path[t]

\* A settled path has one entry at most, so that rmPathFromCache, which removes only
\* the first, removes what is known about it.
OneEntry ==
  \A p \in Paths : Settled(p) =>
    \A q \in {PathArray, NonExistPathArray} :
      Cardinality({i \in 1..Len(q) : entry[q[i]].path = p /\ ~Expired(q[i])}) <= 1

===============================================================================

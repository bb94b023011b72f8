------------------------------ MODULE LazyUpload ------------------------------
(***************************************************************************)
(* Lazy upload (clients/fuse/src/iFuseLib.LazyUpload.c) with the handlers  *)
(* of iFuseOper.c that drive it: a file created and opened for writing is  *)
(* written to a buffer file on the local disk; a flush, or a full disk,    *)
(* commits the buffer to iRODS.  The first commit puts the whole buffer    *)
(* file and opens the data object again with O_APPEND; the later ones      *)
(* append what has been buffered since.                                    *)
(*                                                                         *)
(* Every operation on the buffers runs under LazyUploadLock and is one     *)
(* step.  irodsOpen tests isFileLazyUploading long before it opens the     *)
(* buffer, so it is two steps.  File contents are sequences of blocks; a   *)
(* block carries the number of the write that produced it, 0 in a hole.    *)
(* Connections are the business of ConnPool and left out; so are reads,    *)
(* O_RDWR opens of new files, unlink, and errors of the local disk other   *)
(* than a full one.                                                        *)
(***************************************************************************)
EXTENDS Integers, FiniteSets, Sequences, FiniteSetsExt, SequencesExt

CONSTANTS
  Files,      \* paths
  Handles,    \* struct fuse_file_info objects
  Descs,      \* the slots of IFuseDesc
  Workers,    \* FUSE worker threads
  None,       \* no file, no descriptor, no owner
  NewSlots,   \* NUM_NEWLY_CREATED_SLOT
  Chunk,      \* FUSE_LAZY_UPLOAD_MEM_BUFFER_SIZE, in blocks
  Space,      \* room on the local disk, in blocks
  Patterns,   \* where the application writes, see Allowed
  Shared,     \* TRUE: a file may be opened while it is being opened
  RpcErrors,  \* TRUE: requests to the server may fail
  Expiry,     \* TRUE: CACHE_EXPIRE_TIME may pass
  SlotTimeouts,  \* TRUE: MAX_NEWLY_CREATED_TIME may pass
  MaxSize,    \* bound: blocks in a write
  MaxOps      \* bound: writes in all

ASSUME LazyAssumption ==
  /\ IsFiniteSet(Files) /\ IsFiniteSet(Descs)
  /\ None \notin Files \cup Descs \cup Workers
  /\ {NewSlots, Chunk, MaxSize} \subseteq Nat \ {0}
  /\ {Space, MaxOps} \subseteq Nat
  /\ {Shared, RpcErrors, Expiry, SlotTimeouts} \subseteq BOOLEAN
  /\ Patterns \subseteq {"append", "fresh", "straddle", "rewrite", "overwrite"}

VARIABLES
  created,   \* LazyUploadBufferedFileTable_Created
  opened,    \* LazyUploadBufferedFileTable_Opened
  info,      \* the lazyUploadFileInfo_t of a path
  buf,       \* the buffer file of a path
  slots,     \* NewlyCreatedFile: the descriptors kept for new files
  cached,    \* paths whose entry in PathArray names a new-file cache
  newCache,  \* that cache file
  desc,      \* IFuseDesc
  stored, server,  \* the data objects of iRODS, and their contents
  fh,        \* the open files of the application
  lock,      \* owner of LazyUploadLock between operations
  hung,      \* workers that never return
  written,   \* what the application has written, as far as it was told
  ops        \* writes made, against MaxOps

lazyVars == <<info, buf, cached, newCache, desc, stored, server, lock, hung>>
vars == <<created, opened, slots, fh, written, ops, lazyVars>>

\* handle: localHandle is a file; start: curLocalOffsetStart; cur: curOffset.
NoInfo == [handle |-> FALSE, commits |-> 0, start |-> 0, cur |-> 0]

\* How the descriptor writes: to the local cache of a new file, to iRODS at
\* an offset, or to an object opened with O_APPEND.
Kinds == {"free", "cache", "plain", "append"}
FreeDesc == [file |-> None, kind |-> "free"]
FreeSlot == [file |-> None, desc |-> None, used |-> FALSE]
Idle == [at |-> "idle", file |-> None, desc |-> None, synced |-> FALSE]

\* The types of the variables; the offsets of a buffer never become negative
\* (_commitLocalBuffer).
TypeOK ==
  /\ created \subseteq Files /\ opened \subseteq Files
  /\ cached \subseteq Files /\ stored \subseteq Files
  /\ info \in [Files -> [handle : BOOLEAN, commits : Nat, start : Nat, cur : Nat]]
  /\ slots \in [1..NewSlots -> [file : Files \cup {None}, desc : Descs \cup {None},
                                used : BOOLEAN]]
  /\ desc \in [Descs -> [file : Files \cup {None}, kind : Kinds]]
  /\ fh \in [Handles -> [at : {"idle", "checked", "open"}, file : Files \cup {None},
                         desc : Descs \cup {None}, synced : BOOLEAN]]
  /\ \A s \in {buf, newCache, server, written} : s \in [Files -> Seq(0..MaxOps)]
  /\ lock \in Workers \cup {None}
  /\ hung \subseteq Workers
  /\ ops \in 0..MaxOps

Init ==
  /\ created = {} /\ opened = {} /\ cached = {} /\ stored = {}
  /\ info = [f \in Files |-> NoInfo]
  /\ slots = [i \in 1..NewSlots |-> FreeSlot]
  /\ desc = [d \in Descs |-> FreeDesc]
  /\ fh = [h \in Handles |-> Idle]
  /\ buf = [f \in Files |-> <<>>]
  /\ newCache = [f \in Files |-> <<>>]
  /\ server = [f \in Files |-> <<>>]
  /\ written = [f \in Files |-> <<>>]
  /\ lock = None
  /\ hung = {}
  /\ ops = 0

-------------------------------------------------------------------------------
(***************************************************************************)
(* An operation is worked out on a record of the state it may change; its  *)
(* field d is the descriptor of the handle, ok is FALSE when the operation *)
(* has failed, and got counts the blocks accepted from the application.    *)
(***************************************************************************)
Now(d) ==
  [ok |-> TRUE, got |-> 0, d |-> d, info |-> info, buf |-> buf, cached |-> cached,
   newCache |-> newCache, desc |-> desc, stored |-> stored, server |-> server,
   lock |-> lock, hung |-> hung]

Become(s) ==
  /\ info' = s.info /\ buf' = s.buf /\ cached' = s.cached
  /\ newCache' = s.newCache /\ desc' = s.desc
  /\ stored' = s.stored /\ server' = s.server
  /\ lock' = s.lock /\ hung' = s.hung

Fail(s) == [s EXCEPT !.ok = FALSE]

\* What a request to the server may lead to besides what it should.
OrError(s) == IF RpcErrors THEN {Fail(s)} ELSE {}

\* Data written at an offset of a file; a gap reads as zeros.
Splice(text, off, data) ==
  [i \in 1..Max({Len(text), off + Len(data)}) |->
     IF i \in off + 1..off + Len(data) THEN data[i - off]
     ELSE IF i <= Len(text) THEN text[i] ELSE 0]

\* checkFuseDesc
InUse(s, d) == d # None /\ s.desc[d].kind # "free"

Unused(s) == {d \in Descs : ~InUse(s, d)}

\* Where a descriptor writes to: the cache file of a new file, or the object.
Text(s, d) ==
  LET g == s.desc[d].file IN
    IF s.desc[d].kind = "cache" THEN s.newCache[g] ELSE s.server[g]

WithText(s, d, text) ==
  LET g == s.desc[d].file IN
    IF s.desc[d].kind = "cache" THEN [s EXCEPT !.newCache[g] = text]
                                ELSE [s EXCEPT !.server[g] = text]

\* ifuseLseek and ifuseWrite that succeed.  The server hands the flags of
\* the open to open(2): with O_APPEND every write goes to the end.
Placed(kind, text, off, data) ==
  IF kind = "append" THEN text \o data ELSE Splice(text, off, data)

Through(s, d, off, data) ==
  WithText(s, d, Placed(s.desc[d].kind, Text(s, d), off, data))

\* ifuseClose of path f and descriptor d.  The cache of a new file is put to
\* iRODS; it is found through the path cache, or not at all.
Close(s, f, d) ==
  IF s.desc[d].kind = "cache"
    THEN IF f \in s.cached
           THEN {[s EXCEPT !.server[f] = s.newCache[f], !.stored = @ \cup {f}]}
                \cup OrError(s)
           ELSE {Fail(s)}
    ELSE {s} \cup OrError(s)

\* Fault: freeIFuseDesc only after a close that succeeded.
CloseAndFreeOnSuccess(s, f, d) ==
  {IF t.ok THEN [t EXCEPT !.desc[d] = FreeDesc] ELSE t : t \in Close(s, f, d)}

\* ... and freeIFuseDesc.
CloseAndFree(s, f, d) ==
  {[t EXCEPT !.desc[d] = FreeDesc] : t \in Close(s, f, d)}

-------------------------------------------------------------------------------
(***************************************************************************)
(* _commitLocalBuffer                                                      *)
(***************************************************************************)
\* An early return after localHandle was closed and set to -1.
Dead(s, f) == [s EXCEPT !.ok = FALSE, !.info[f].handle = FALSE]

\* Fault: curLocalOffsetStart stays where it was.
ResetKeepsStart(s, f) ==
  [s EXCEPT !.buf[f] = <<>>,
            !.info[f] = [handle |-> TRUE, commits |-> @.commits + 1,
                         start |-> @.start, cur |-> 0]]

\* Fault: curLocalOffsetStart moves the wrong way.
ResetRewinds(s, f) ==
  [s EXCEPT !.buf[f] = <<>>,
            !.info[f] = [handle |-> TRUE, commits |-> @.commits + 1,
                         start |-> @.start - @.cur, cur |-> 0]]

\* Fault: curOffset stays where it was.
ResetKeepsCur(s, f) ==
  [s EXCEPT !.buf[f] = <<>>,
            !.info[f] = [handle |-> TRUE, commits |-> @.commits + 1,
                         start |-> @.start + @.cur, cur |-> @.cur]]

\* "reset local buffer file"
Reset(s, f) ==
  [s EXCEPT !.buf[f] = <<>>,
            !.info[f] = [handle |-> TRUE, commits |-> @.commits + 1,
                         start |-> @.start + @.cur, cur |-> 0]]

\* _upload puts the buffer file over the object; _clearCache.
Uploaded(s, f) ==
  [s EXCEPT !.server[f] = s.buf[f], !.stored = @ \cup {f}, !.cached = @ \ {f}]

\* Fault: fi keeps the descriptor that was freed.
ReopenKeepsFi(s, f) ==
  {Dead(t, f) : t \in OrError(s)} \cup
  (IF Unused(s) = {} THEN {Dead(s, f)}
   ELSE {Reset([s EXCEPT !.desc[e] = [file |-> f, kind |-> "append"]], f)
           : e \in Unused(s)})

\* "reopen file": O_RDWR | O_APPEND, and a descriptor for it.
Reopen(s, f) ==
  {Dead(t, f) : t \in OrError(s)} \cup
  (IF Unused(s) = {} THEN {Dead(s, f)}
   ELSE {Reset([s EXCEPT !.desc[e] = [file |-> f, kind |-> "append"], !.d = e], f)
           : e \in Unused(s)})

\* "put and reopen iRODS file"
PutBuffer(s, f) ==
  UNION {IF t.ok
           THEN {Dead(u, f) : u \in OrError(t)} \cup Reopen(Uploaded(t, f), f)
           ELSE {Dead(t, f)}
         : t \in CloseAndFree(s, f, s.d)}

Part(data, i) == SubSeq(data, (i - 1) * Chunk + 1, Min({i * Chunk, Len(data)}))

\* Fault: the loop reads one buffer and is done.
ChunksOne(s, f) == Min({1, Len(s.buf[f]), s.info[f].cur})

\* The turns of the loop, which runs until curOffset blocks have been read.
Chunks(s, f) == (Min({Len(s.buf[f]), s.info[f].cur}) + Chunk - 1) \div Chunk

\* The first n turns.  Each writes at curLocalOffsetStart; those of bad fail
\* to write, which the loop forgets.
Sent(s, f, n, bad) ==
  LET text[i \in 0..n] ==
        IF i = 0 THEN Text(s, s.d)
        ELSE IF i \in bad THEN text[i - 1]
        ELSE Placed(s.desc[s.d].kind, text[i - 1], s.info[f].start, Part(s.buf[f], i))
  IN WithText(s, s.d, text[n])

\* "append": with more written than the buffer file is long, the loop reads
\* 0 bytes for ever, under LazyUploadLock.
AppendBuffer(s, f, w) ==
  LET n == Chunks(s, f)
      Done(t) == IF Len(s.buf[f]) < s.info[f].cur
                   THEN [Dead(t, f) EXCEPT !.lock = w, !.hung = @ \cup {w}]
                   ELSE Reset(t, f)
  IN {Done(Sent(s, f, n, bad)) : bad \in IF RpcErrors THEN SUBSET (1..n) ELSE {{}}}
     \cup {Dead(Sent(s, f, i - 1, {}), f) : i \in IF RpcErrors THEN 1..n ELSE {}}

Commit(s, f, w) ==
  CASE ~s.info[f].handle      -> {Fail(s)}
    [] s.info[f].handle /\ s.info[f].cur = 0 -> {s}
    [] s.info[f].handle /\ s.info[f].cur > 0 ->
         CASE ~InUse(s, s.d) -> {Dead(s, f)}
           [] InUse(s, s.d) /\ s.info[f].commits = 0 -> PutBuffer(s, f)
           [] InUse(s, s.d) /\ s.info[f].commits > 0 -> AppendBuffer(s, f, w)

-------------------------------------------------------------------------------
(***************************************************************************)
(* writeLazyUploadBufferedFile                                             *)
(***************************************************************************)
Room(s) == Space - MapThenSumSet(LAMBDA f : Len(s.buf[f]), Files)

\* The blocks of a write(2) that the disk has room for.
Fits(s, f, off, size) ==
  Max({k \in 0..size : k = 0 \/ off - s.info[f].start + k - Len(s.buf[f]) <= Room(s)})

\* lseek and write to the buffer file.
Store(s, f, off, data) ==
  LET k == Fits(s, f, off, Len(data)) IN
    IF off < s.info[f].start \/ k = 0
      THEN Fail(s)
      ELSE [s EXCEPT !.buf[f] = Splice(@, off - s.info[f].start, SubSeq(data, 1, k)),
                     !.info[f].cur = @ + k, !.got = k]

\* "rewrite directly to iRODS".  When the seek fails the lock is kept.
WriteDirect(s, off, data, w) ==
  IF InUse(s, s.d)
    THEN {[Through(s, s.d, off, data) EXCEPT !.got = Len(data)]} \cup OrError(s)
         \cup {[t EXCEPT !.lock = w] : t \in OrError(s)}
    ELSE {Fail(s)}

\* "try to write to local buffer"; when the disk is full, commit and "write
\* to local buffer again".
WriteBuffered(s, f, off, data, w) ==
  IF Fits(s, f, off, Len(data)) > 0
    THEN {Store(s, f, off, data)}
    ELSE {IF c.ok THEN Store(c, f, off, data) ELSE c : c \in Commit(s, f, w)}

\* Fault: -EBADF is returned without unlocking.
LazyWriteKeepsLock(s, f, off, data, w) ==
  CASE ~s.info[f].handle -> {[Fail(s) EXCEPT !.lock = w]}
    [] s.info[f].handle -> WriteBuffered(s, f, off, data, w)

\* writeLazyUploadBufferedFile of an opened file.
LazyWrite(s, f, off, data, w) ==
  CASE ~s.info[f].handle -> {Fail(s)}
    [] s.info[f].handle /\ off < s.info[f].start ->
         UNION {IF c.ok THEN WriteDirect(c, off, data, w) ELSE {c}
                : c \in Commit(s, f, w)}
    [] s.info[f].handle /\ off >= s.info[f].start ->
         WriteBuffered(s, f, off, data, w)

-------------------------------------------------------------------------------
(***************************************************************************)
(* The handlers of iFuseOper.c.                                            *)
(***************************************************************************)
\* A worker can enter LazyUploadLock, which is recursive.
Ready(w) == w \notin hung /\ lock \in {None, w}

\* The slot addNewlyCreatedToCache takes when those of T have timed out:
\* the first that is free or timed out, or else the last but one.
NewSlot(T) ==
  Min({i \in 1..NewSlots : ~slots[i].used \/ i \in T} \cup {NewSlots + 1})

Closing(T) ==
  IF NewSlot(T) <= NewSlots THEN T ELSE {Max({1, NewSlots - 1})}

\* irodsMknod of a path that does not exist: a local cache file and a
\* descriptor for it, a slot in NewlyCreatedFile and an entry in the table
\* of created files.  Slots that are closed have their cache files put to
\* iRODS, which may go wrong for those of bad, and are cleared: the new
\* file is left with inuseFlag 0 in a slot that timed out.  A slot with
\* inuseFlag 0 is taken as it is.  Without a free descriptor irodsMknod
\* keeps nothing.
Mknod(f, w) ==
  /\ Ready(w)
  /\ f \notin created \cup opened \cup stored
  /\ \E d \in Unused(Now(None)), T \in SUBSET {i \in 1..NewSlots : slots[i].used},
        bad \in IF RpcErrors THEN SUBSET (1..NewSlots) ELSE {{}} :
       LET new   == IF NewSlot(T) <= NewSlots THEN NewSlot(T) ELSE Max({1, NewSlots - 1})
           valid == {i \in Closing(T) : InUse(Now(None), slots[i].desc)}
           put   == {slots[i].file : i \in valid \ bad} \cap cached
       IN /\ T = {} \/ SlotTimeouts
          /\ server' = [g \in Files |-> IF g \in put THEN newCache[g] ELSE server[g]]
          /\ stored' = stored \cup put
          /\ desc' = [e \in Descs |->
                        IF e = d THEN [file |-> f, kind |-> "cache"]
                        ELSE IF \E i \in valid : slots[i].desc = e THEN FreeDesc
                        ELSE desc[e]]
          /\ slots' = [i \in 1..NewSlots |->
                        IF i = new
                          THEN [file |-> f, desc |-> d, used |-> i \notin T \cap valid]
                        ELSE IF i \in valid THEN FreeSlot
                        ELSE [slots[i] EXCEPT !.used = @ /\ i \notin T]]
  /\ cached' = cached \cup {f}
  /\ created' = created \cup {f}
  /\ UNCHANGED <<opened, info, buf, newCache, fh, lock, hung, written, ops>>

\* getDescInxInNewlyCreatedCache: the descriptor kept for a file, whose slot
\* is cleared.
Kept(f) == {slots[i].desc : i \in {j \in 1..NewSlots : slots[j].file = f}}
Cleared(f) == [i \in 1..NewSlots |-> IF slots[i].file = f THEN FreeSlot ELSE slots[i]]

\* irodsOpen for writing: "is uploading" is answered with -EBUSY.
OpenCheck(h, f, w) ==
  /\ Ready(w)
  /\ fh[h].at = "idle" /\ f \notin opened
  /\ Shared \/ \A k \in Handles : fh[k].file # f
  /\ fh' = [fh EXCEPT ![h] = [Idle EXCEPT !.at = "checked", !.file = f]]
  /\ UNCHANGED <<created, opened, slots, written, ops, lazyVars>>

\* The rest of irodsOpen: the file was created a moment ago and its
\* descriptor is still kept; openLazyUploadBufferedFile, whose failure is
\* ignored.
OpenNew(h, w) ==
  LET f == fh[h].file IN
  /\ fh[h].at = "checked" /\ Ready(w)
  /\ f \in cached \cup stored
  /\ \E d \in Kept(f) : /\ InUse(Now(None), d)
                        /\ fh' = [fh EXCEPT ![h].at = "open", ![h].desc = d]
  /\ slots' = Cleared(f)
  /\ IF f \in created \ opened
       THEN /\ opened' = opened \cup {f}
            /\ created' = created \ {f}
            /\ info' = [info EXCEPT ![f] = [NoInfo EXCEPT !.handle = TRUE]]
            /\ buf' = [buf EXCEPT ![f] = <<>>]
       ELSE UNCHANGED <<created, opened, info, buf>>
  /\ UNCHANGED <<cached, newCache, desc, stored, server, lock, hung, written, ops>>

\* ... or it is an object of iRODS, or it does not exist.
OpenStored(h, w) ==
  LET f == fh[h].file IN
  /\ fh[h].at = "checked" /\ Ready(w)
  /\ ~(f \in cached \cup stored /\ \E d \in Kept(f) : InUse(Now(None), d))
  /\ slots' = IF f \in cached \cup stored THEN Cleared(f) ELSE slots
  /\ \/ /\ f \in stored
        /\ \E d \in Unused(Now(None)) :
             /\ desc' = [desc EXCEPT ![d] = [file |-> f, kind |-> "plain"]]
             /\ fh' = [fh EXCEPT ![h].at = "open", ![h].desc = d]
     \/ /\ f \notin stored \/ RpcErrors \/ Unused(Now(None)) = {}
        /\ fh' = [fh EXCEPT ![h] = Idle]
        /\ UNCHANGED desc
  /\ UNCHANGED <<created, opened, info, buf, cached, newCache, stored, server, lock,
                 hung, written, ops>>

\* The writes an application makes: at the end, over what it wrote before
\* the first commit, over the end of what was committed, over what was
\* committed, and over what is buffered after a commit.
Allowed(f, off, size) ==
  LET n == Len(written[f])
      start == info[f].start
  IN \/ /\ "append" \in Patterns /\ off = n
        /\ off < start => off + size <= start
     \/ "fresh" \in Patterns /\ f \in opened /\ info[f].commits = 0 /\ off <= n
     \/ "straddle" \in Patterns /\ off = n
     \/ "rewrite" \in Patterns /\ off + size <= Min({start, n})
     \/ "overwrite" \in Patterns /\ f \in opened /\ start <= off /\ off < n

\* irodsWrite
Write(h, w) ==
  LET f == fh[h].file IN
  /\ fh[h].at = "open" /\ Ready(w) /\ ops < MaxOps
  /\ \E size \in 1..MaxSize, off \in 0..Len(written[f]) :
       LET data == [i \in 1..size |-> ops + 1]
           s    == Now(fh[h].desc)
       IN /\ Allowed(f, off, size)
          /\ \E r \in IF f \in opened THEN LazyWrite(s, f, off, data, w)
                      ELSE WriteDirect(s, off, data, lock) :
               /\ Become(r)
               /\ written' = IF r.got = 0 THEN written
                             ELSE [written EXCEPT ![f] =
                                     Splice(@, off, SubSeq(data, 1, r.got))]
               /\ fh' = [k \in Handles |->
                           [fh[k] EXCEPT !.synced = @ /\ fh[k].file # f,
                                         !.desc = IF k = h THEN r.d ELSE @]]
  /\ ops' = ops + 1
  /\ UNCHANGED <<created, opened, slots>>

\* irodsFlush and irodsFsync ignore what syncLazyUploadBufferedFile returns.
Flush(h, w) ==
  LET f == fh[h].file IN
  /\ fh[h].at = "open" /\ Ready(w)
  /\ \E r \in IF f \in opened THEN Commit(Now(fh[h].desc), f, w)
              ELSE {Now(fh[h].desc)} :
       /\ Become(r)
       /\ fh' = [fh EXCEPT ![h].synced = w \notin r.hung, ![h].desc = r.d]
  /\ UNCHANGED <<created, opened, slots, written, ops>>

\* irodsRelease: closeLazyUploadBufferedFile commits nothing; FUSE flushes
\* a file on every close, before it releases it.
Release(h, w) ==
  LET f == fh[h].file
      d == fh[h].desc
      s == IF f \in opened
             THEN [Now(d) EXCEPT !.info[f] = NoInfo, !.buf[f] = <<>>]
             ELSE Now(d)
  IN /\ fh[h].at = "open" /\ fh[h].synced /\ Ready(w)
     /\ opened' = opened \ {f}
     /\ \E r \in IF InUse(s, d) THEN CloseAndFree(s, f, d) ELSE {s} : Become(r)
     /\ fh' = [fh EXCEPT ![h] = Idle]
     /\ UNCHANGED <<created, slots, written, ops>>

\* chkCacheExpire: an entry of the path cache is dropped after ten minutes.
ExpirePath(f) ==
  /\ Expiry /\ f \in cached
  /\ cached' = cached \ {f}
  /\ UNCHANGED <<created, opened, slots, fh, written, ops, info, buf, newCache, desc,
                 stored, server, lock, hung>>

Next ==
  \/ \E w \in Workers :
       \/ \E f \in Files : Mknod(f, w)
       \/ \E h \in Handles :
            \/ \E f \in Files : OpenCheck(h, f, w)
            \/ OpenNew(h, w) \/ OpenStored(h, w)
            \/ Write(h, w) \/ Flush(h, w) \/ Release(h, w)
  \/ \E f \in Files : ExpirePath(f)

Spec == Init /\ [][Next]_vars

-------------------------------------------------------------------------------
(***************************************************************************)
(* Properties.                                                             *)
(***************************************************************************)
\* "... temporarily store the file content to the local disk and upload when
\* the file is flushed": after irodsFlush has returned 0 the object in iRODS
\* is what irodsWrite has accepted.
FlushUploads ==
  \A h \in Handles : fh[h].at = "open" /\ fh[h].synced
                       => server[fh[h].file] = written[fh[h].file]

\* At every moment the object in iRODS and the buffer file together hold
\* what irodsWrite has accepted, however commits, full disks and other files
\* interleave; once the file is released the object alone does.
NothingLost ==
  \A f \in Files :
    written[f] = CASE f \notin opened -> server[f]
                   [] f \in opened /\ info[f].commits = 0 -> buf[f]
                   [] f \in opened /\ info[f].commits > 0 -> server[f] \o buf[f]

\* The descriptor index in a struct fuse_file_info names a descriptor of the
\* same file, although a commit frees it and takes another one: no request
\* reaches the file of somebody else, and no two handles share one.
OwnDescriptor ==
  \A h \in Handles :
    fh[h].at = "open" => /\ desc[fh[h].desc].file = fh[h].file
                         /\ \A k \in Handles \ {h} : fh[k].desc # fh[h].desc

\* No descriptor is lost: one that is in use is kept for a new file or can
\* be released by an open one, also after failed commits.
NoDescLeak ==
  \A d \in Descs : desc[d].kind # "free" =>
    \/ \E i \in 1..NewSlots : slots[i].desc = d
    \/ \E h \in Handles : fh[h].at = "open" /\ fh[h].desc = d

\* LazyUploadLock is free when no operation runs, although requests fail: the
\* return paths that files written in order can take give it back.  The write
\* behind the committed part does not when its ifuseLseek fails (WriteDirect).
LockReturned == lock = None

\* Every operation comes to an end: the loop that commits a buffer finds all
\* the blocks that curOffset promises, so it does not read at the end of the
\* buffer file for ever.
NoneHung == hung = {}

===============================================================================

----------------------------- MODULE XfsVolume -----------------------------
(* An xFS volume under an application with several open files, devices     *)
(* that fail or lose power in the middle of a call, and unmounts.  xFS has *)
(* no lock: a call is one step.  Nothing in the code stops an application  *)
(* from deleting, renaming or opening a second time a file it has open;    *)
(* the model leaves that out.                                              *)
EXTENDS XfsFile

-----------------------------------------------------------------------------
(* Formatting a medium and mounting it: the layout that xFS_Format_FAT32   *)
(* derives from its configuration, the sectors it writes, and what         *)
(* xFS_Mount reads back from the boot sector.                              *)

MaxPasses == 8      \* FORMAT_MAX_FAT_SIZE_PASSES

Rejected == [fatSize |-> 0, heap |-> 0, total |-> 0]

Needed(total) == (total + ClusterMin + PerFat - 1) \div PerFat

(* Grows the FAT until it has an entry for every cluster that is left.     *)
RECURSIVE Resolve(_, _, _)
Resolve(cfg, fatSize, pass) ==
    LET heap == cfg.reserved + cfg.fats * fatSize
        total == (cfg.sectors - heap) \div cfg.spc
    IN IF pass = MaxPasses \/ cfg.sectors <= heap \/ total = 0 THEN Rejected
       ELSE IF cfg.fatSize # 0 /\ Needed(total) > fatSize THEN Rejected
       ELSE IF cfg.fatSize # 0 \/ Needed(total) = fatSize
       THEN IF cfg.root >= ClusterMin + total THEN Rejected
            ELSE [fatSize |-> fatSize, heap |-> heap, total |-> total]
       ELSE Resolve(cfg, Needed(total), pass + 1)

Layout(cfg) == Resolve(cfg, IF cfg.fatSize = 0 THEN 1 ELSE cfg.fatSize, 0)

ValidConfig(cfg) ==
    cfg.sectors > 0 /\ cfg.spc > 0 /\ cfg.reserved > 0 /\ cfg.fats > 0 /\ cfg.root >= ClusterMin

(* One sector of a new FAT: the two reserved entries and the root.         *)
FatImage(cfg, n) ==
    [i \in 0 .. PerFat - 1 |-> IF n * PerFat + i \in {0, 1, cfg.root} THEN EOC ELSE Free]

(* The sectors in the order they are written: boot sector, every copy of   *)
(* the FAT, the cluster of the root directory.                             *)
Images(cfg, l) ==
    LET boot == [cfg EXCEPT !.fatSize = l.fatSize]
        fats == [k \in 1 .. cfg.fats * l.fatSize |->
                    <<cfg.reserved + k - 1, FatImage(cfg, (k - 1) % l.fatSize)>>]
        root == [k \in 1 .. cfg.spc |->
                    <<l.heap + (cfg.root - ClusterMin) * cfg.spc + k - 1, ZeroSector>>]
    IN <<<<0, boot>>>> \o fats \o root

RECURSIVE WriteAll(_, _)
WriteAll(v, images) ==
    IF images = <<>> THEN v
    ELSE Then(WriteSector(v, Head(images)[1], Head(images)[2]), LAMBDA w : WriteAll(w, Tail(images)))

Format(v, cfg) ==
    LET l == Layout(cfg)
    IN IF ~ValidConfig(cfg) \/ l = Rejected THEN Failed(v, "INVALID") ELSE WriteAll(v, Images(cfg, l))

-----------------------------------------------------------------------------
Unmounted == [mounted |-> FALSE, spc |-> 0, fat |-> 0, heap |-> 0, total |-> 0, root |-> 0]

(* The fields of the boot sector, validated.                               *)
Parsed(boot) ==
    LET heap == boot.reserved + boot.fats * boot.fatSize
        total == (boot.sectors - heap) \div boot.spc
    IN IF \/ boot.spc = 0 \/ boot.fats = 0 \/ boot.fatSize = 0 \/ boot.sectors <= heap
          \/ total = 0 \/ boot.root < ClusterMin \/ boot.root - ClusterMin >= total
       THEN Unmounted
       ELSE [mounted |-> TRUE, spc |-> boot.spc, fat |-> boot.reserved, heap |-> heap,
             total |-> total, root |-> boot.root]

(* A new medium: no boot sector, any data.                                 *)
NoBoot == [sectors |-> 0, spc |-> 0, reserved |-> 0, fats |-> 0, fatSize |-> 0, root |-> 0]
Blank(n) == [lba \in 0 .. n - 1 |-> IF lba = 0 THEN NoBoot ELSE [i \in 0 .. Slots - 1 |-> Data("junk")]]

-----------------------------------------------------------------------------
(* The volume and its application.                                         *)

CONSTANTS
    Handle,         \* file handles of the application
    Configs,        \* configurations a new medium is formatted with
    Positions,      \* where files are sought to and truncated
    Contents,       \* what a call writes: sequences of data
    MaxSize,        \* largest file, in slots
    Paths,          \* paths files and directories are created at
    Prepared,       \* the volumes in use a run starts from
    MaxCalls,       \* calls after which a run stops
    MaxFaults,      \* calls in which the device fails
    MaxAccess       \* accesses before the failing one

VARIABLES
    file,           \* xFS_File_t by handle
    cache,          \* the cache inside each of them
    saved,          \* history: what each file, by place, held when last flushed
    health,         \* history: what the calls so far may have done to the volume
    alone,          \* history: no call has changed the volume beside an open file
    calls, faults   \* counters for the bounds

vars == <<disk, vol, file, cache, saved, health, alone, calls, faults>>

(* sound   every call was completed or refused                             *)
(* leaky   a call failed, clusters may be allocated that nothing refers to *)
(* wrecked a call failed, or a file was lost, after clusters had been      *)
(*         given up that a directory entry still counts on; also an entry  *)
(*         made twice                                                      *)
(* stale   a call relied on a sector that another cache had rewritten      *)
(* corrupt a call found the volume corrupt that should not be              *)
(* raw     not formatted yet                                               *)
Usable == {"sound", "leaky"}

-----------------------------------------------------------------------------
NoFailure == [io |-> NoFault, power |-> FALSE, torn |-> FALSE]

Failures ==
    {NoFailure} \cup
    IF faults = MaxFaults THEN {}
    ELSE [io : 0 .. MaxAccess, power : {FALSE}, torn : BOOLEAN] \cup
         [io : 0 .. MaxAccess, power : {TRUE}, torn : {FALSE}]

Begin(f, c, why) ==
    [d |-> disk, c |-> c, f |-> f, st |-> "OK", x |-> 0,
     io |-> why.io, power |-> why.power, torn |-> why.torn]

(* The failure took place: the access failed, or the power went after the  *)
(* last access of the call.                                                *)
Happened(v, why) == IF why.power THEN v.io = 0 ELSE v.io = NoFault
Failing(why) == why # NoFailure

(* What a call did to the volume; harm says that, if it failed, it failed  *)
(* where the code gives no way back.                                       *)
Verdict(v, why, harm) ==
    CASE v.st = "STALE"             -> "stale"
      [] v.st = "CORRUPT"           -> "corrupt"
      [] v.st = "OK" /\ Failing(why) /\ ~why.power -> "wrecked"
      [] v.st # "OK" /\ harm        -> "wrecked"
      [] why.power /\ v.st = "OK"   -> health
      [] v.st = "IO"                -> "leaky"
      [] OTHER                      -> health

(* What is left when the handles are lost with the power.                  *)
Lost(handles, verdict) ==
    CASE verdict \notin Usable               -> verdict
      [] \E k \in Handle : handles[k].cut    -> "wrecked"
      [] \E k \in Handle : handles[k].open   -> "leaky"
      [] OTHER                               -> verdict

Ready == health \in Usable /\ calls < MaxCalls

(* The end of a call: on a handle h, or with a cache of its own (h none of *)
(* the handles).  When the power goes every handle and the mount are lost, *)
(* and with them what only an open file knew.                              *)
End(h, v, why, harm) ==
    /\ Happened(v, why)
    /\ disk' = v.d
    /\ calls' = calls + 1
    /\ faults' = IF Failing(why) THEN faults + 1 ELSE faults
    /\ alone' = (alone /\ ~why.torn /\ (\/ \A k \in Handle \ {h} : ~file[k].open
                                        \/ v.d = disk))
    /\ IF why.power
       THEN /\ file' = [k \in Handle |-> Closed]
            /\ cache' = [k \in Handle |-> Fresh]
            /\ vol' = Unmounted
            /\ health' = Lost([k \in Handle |-> IF k = h THEN v.f ELSE file[k]],
                              Verdict(v, why, harm))
       ELSE /\ file' = [k \in Handle |-> IF k = h THEN v.f ELSE file[k]]
            /\ cache' = [k \in Handle |-> IF k = h THEN v.c ELSE cache[k]]
            /\ vol' = vol
            /\ health' = Verdict(v, why, harm)

-----------------------------------------------------------------------------
(* What the medium d holds, read by the code itself.                       *)
Peek(d, f, c) == [Begin(f, c, NoFailure) EXCEPT !.d = d]

At(d, place) == d[EntrySector(place[1], place[2])][place[2] % Slots]

Stored(d, place) ==
    LET entry == At(d, place)
    IN FileRead(Peek(d, Opened(entry.first, entry.size, place), Fresh), entry.size)

(* The flushed contents that still count: of the entries that are there,   *)
(* but for the place that is being rewritten.                              *)
Kept(d, gone) ==
    [p \in {q \in DOMAIN saved \ gone : At(d, q).name # "free"} |-> saved[p]]

NoteSaved(f, place, contents) ==
    [p \in DOMAIN f \cup {place} |-> IF p = place THEN contents ELSE f[p]]

PlaceOf(path) ==
    LET w == PathWalk(Peek(disk, Closed, Fresh), path)
    IN IF w.st = "OK" THEN w.x.place ELSE <<0, 0>>

InUse(path) == \E h \in Handle : file[h].open /\ file[h].place = PlaceOf(path)

-----------------------------------------------------------------------------
Open(h, path, why) ==
    LET v == FileOpen(Begin(Closed, Fresh, why), path)
        seen == Stored(v.d, v.f.place)
        w == IF v.f.open THEN [v EXCEPT !.f.view = seen.x, !.st = seen.st] ELSE v
    IN /\ Ready /\ vol.mounted /\ ~file[h].open /\ ~InUse(path)
       /\ End(h, w, why, FALSE)
       /\ saved' = saved

Create(h, path, why) ==
    LET v == FileCreate(Begin(Closed, Fresh, why), path)
    IN /\ Ready /\ vol.mounted /\ ~file[h].open
       /\ End(h, v, why, FALSE)
       /\ saved' = IF v.st = "OK" THEN NoteSaved(saved, v.f.place, <<>>) ELSE saved

(* A handle whose last walk failed half way is not used again: see Drift.  *)
Usual(h) == Ready /\ file[h].open /\ ~file[h].drift

Rewritten(h) ==
    IF file[h].place \in DOMAIN saved /\ file[h].pos < Len(saved[file[h].place])
    THEN {file[h].place} ELSE {}

Write(h, bytes, why) ==
    LET v == FileWrite(Begin(file[h], cache[h], why), bytes)
    IN /\ Usual(h) /\ file[h].pos + Len(bytes) <= MaxSize
       /\ End(h, v, why, FALSE)
       /\ saved' = Kept(v.d, Rewritten(h))

Read(h, why) ==
    LET v == FileRead(Begin(file[h], cache[h], why), MaxSize)
    IN /\ Usual(h)
       /\ End(h, v, why, FALSE)
       /\ saved' = saved

Seek(h, pos, why) ==
    LET v == FileSeek(Begin(file[h], cache[h], why), pos)
    IN /\ Usual(h) /\ pos <= file[h].size
       /\ End(h, v, why, FALSE)
       /\ saved' = saved

(* Cut clusters are lost when the call fails after it began to give them   *)
(* up.                                                                     *)
Truncate(h, size, why) ==
    LET v == FileTruncate(Begin(file[h], cache[h], why), size)
    IN /\ Usual(h) /\ size <= MaxSize
       /\ End(h, v, why, v.f.cut /\ (v.d # disk \/ v.c.dirty))
       /\ saved' = Kept(v.d, IF size < file[h].size THEN {file[h].place} ELSE {})

(* A flush that fails may leave the new entry behind in the cache; when    *)
(* the power goes first, the old one stands.                               *)
Flushed(h, v, why) ==
    IF v.st = "OK" THEN NoteSaved(saved, file[h].place, file[h].view)
    ELSE Kept(v.d, IF why.power THEN {} ELSE {file[h].place})

Flush(h, why) ==
    LET v == FileFlush(Begin(file[h], cache[h], why))
    IN /\ Usual(h)
       /\ End(h, v, why, FALSE)
       /\ saved' = Flushed(h, v, why)

Close(h, why) ==
    LET v == FileClose(Begin(file[h], cache[h], why))
    IN /\ Ready /\ file[h].open
       /\ End(h, v, why, FALSE)
       /\ saved' = IF file[h].drift THEN Kept(v.d, {file[h].place}) ELSE Flushed(h, v, why)

Local(why) == Begin(Closed, Fresh, why)
Nobody == {}            \* in place of a handle: none of them

Delete(path, why) ==
    LET v == FileDelete(Local(why), path)
    IN /\ Ready /\ vol.mounted /\ ~InUse(path)
       /\ End(Nobody, v, why, FALSE)
       /\ saved' = Kept(v.d, {})

CreateDir(path, why) ==
    LET v == DirectoryCreate(Local(why), path)
    IN /\ Ready /\ vol.mounted
       /\ End(Nobody, v, why, FALSE)
       /\ saved' = saved

DeleteDir(path, why) ==
    LET v == DirectoryDelete(Local(why), path)
    IN /\ Ready /\ vol.mounted
       /\ End(Nobody, v, why, v.d # disk)
       /\ saved' = Kept(v.d, {})

Rename(old, new, why) ==
    LET v == PathRename(Local(why), old, new)
        place == LET w == PathWalk(Peek(v.d, Closed, Fresh), new) IN w.x.place
    IN /\ Ready /\ vol.mounted /\ ~InUse(old)
       /\ End(Nobody, v, why, v.d # disk)
       /\ saved' = IF v.st = "OK" /\ PlaceOf(old) \in DOMAIN saved
                   THEN NoteSaved(Kept(v.d, {}), place, saved[PlaceOf(old)])
                   ELSE Kept(v.d, {})

(* A new medium is formatted and, whatever came of it, mounted next: that  *)
(* is all that is done with it.                                            *)
FormatMedium(cfg, why) ==
    LET v == Format(Local(why), cfg)
    IN /\ cfg.sectors = Cardinality(DOMAIN disk)
       /\ Happened(v, why)
       /\ disk' = v.d
       /\ health' = CASE v.st = "OK"      -> "sound"
                      [] v.st = "INVALID" -> "raw"
                      [] OTHER            -> "wrecked"
       /\ calls' = MaxCalls - 1
       /\ UNCHANGED <<vol, file, cache, saved, alone, faults>>

(* xFS_Mount *)
Mount(why) ==
    LET v == LoadSector(Local(why), 0)
    IN /\ health \in Usable \cup {"wrecked"} /\ calls < MaxCalls /\ ~vol.mounted
       /\ Happened(v, why)
       /\ vol' = IF v.st = "OK" THEN Parsed(disk[0]) ELSE Unmounted
       /\ calls' = calls + 1
       /\ faults' = IF Failing(why) THEN faults + 1 ELSE faults
       /\ UNCHANGED <<disk, file, cache, saved, health, alone>>

(* xFS_Unmount closes nothing and writes nothing.                          *)
Unmount ==
    /\ Ready /\ vol.mounted
    /\ \A h \in Handle : ~file[h].open
    /\ vol' = [vol EXCEPT !.mounted = FALSE]
    /\ calls' = calls + 1
    /\ UNCHANGED <<disk, file, cache, saved, health, alone, faults>>

(* The power goes between two calls.                                       *)
PowerLoss ==
    /\ Ready /\ faults < MaxFaults
    /\ file' = [k \in Handle |-> Closed]
    /\ cache' = [k \in Handle |-> Fresh]
    /\ vol' = Unmounted
    /\ health' = Lost(file, health)
    /\ faults' = faults + 1
    /\ calls' = calls + 1
    /\ UNCHANGED <<disk, saved, alone>>

-----------------------------------------------------------------------------
(* A volume with the files and directories of a recipe, the last of which, *)
(* a file, is still open.                                                  *)
Made(v, it) ==
    IF it.dir THEN DirectoryCreate(v, it.path)
    ELSE FileFlush(FileWrite(FileCreate(v, it.path), it.contents))

RECURSIVE Built(_, _)
Built(v, recipe) ==
    LET fresh == [v EXCEPT !.c = Fresh]
    IN IF Len(recipe) = 1 THEN Made(fresh, recipe[1])
       ELSE Built(Made(fresh, recipe[1]), Tail(recipe))

Prepare(h, cfg, recipe) ==
    LET blank == [d |-> Blank(cfg.sectors), c |-> Fresh, f |-> Closed, st |-> "OK", x |-> 0,
                  io |-> NoFault, power |-> FALSE, torn |-> FALSE]
        files == {k \in DOMAIN recipe : ~recipe[k].dir}
    IN /\ vol = Parsed([cfg EXCEPT !.fatSize = Layout(cfg).fatSize])
       /\ \E v \in {Built(Format(blank, cfg), recipe)} :
            /\ disk = v.d
            /\ file = [k \in Handle |-> IF k = h THEN v.f ELSE Closed]
            /\ cache = [k \in Handle |-> IF k = h THEN v.c ELSE Fresh]
       /\ saved = [p \in {PlaceOf(recipe[k].path) : k \in files} |->
                    recipe[CHOOSE k \in files : PlaceOf(recipe[k].path) = p].contents]
       /\ health = "sound"

NewMedium(cfg) ==
    /\ vol = Unmounted
    /\ disk = Blank(cfg.sectors)
    /\ file = [h \in Handle |-> Closed]
    /\ cache = [h \in Handle |-> Fresh]
    /\ saved = <<>>
    /\ health = "raw"

Init ==
    /\ \/ \E h \in Handle, it \in Prepared : Prepare(h, it.cfg, it.recipe)
       \/ \E cfg \in Configs : NewMedium(cfg)
    /\ alone = TRUE
    /\ calls = 0 /\ faults = 0

FileCalls(h, why) ==
    \/ \E path \in Paths : Open(h, path, why) \/ Create(h, path, why)
    \/ \E bytes \in Contents : Write(h, bytes, why)
    \/ \E n \in Positions : Seek(h, n, why) \/ Truncate(h, n, why)
    \/ Read(h, why) \/ Flush(h, why) \/ Close(h, why)

PathCalls(why) ==
    \/ \E path \in Paths : Delete(path, why) \/ CreateDir(path, why) \/ DeleteDir(path, why)
    \/ \E old, new \in Paths : Rename(old, new, why)

Next ==
    \/ \E why \in Failures : PathCalls(why) \/ \E h \in Handle : FileCalls(h, why)
    \/ health = "raw" /\ \E why \in Failures, cfg \in Configs : FormatMedium(cfg, why)
    \/ \E why \in Failures : Mount(why)
    \/ Unmount \/ PowerLoss

Spec == Init /\ [][Next]_vars

-----------------------------------------------------------------------------
(* The medium, read as a set of chains.                                    *)
Fat(c) == disk[FatSector(c)][c % PerFat]

Bad == {0}
RECURSIVE ChainFrom(_, _)
ChainFrom(c, got) ==
    IF c >= EOC THEN got
    ELSE IF ~InRange(c) \/ c \in got THEN Bad
    ELSE ChainFrom(Fat(c), got \cup {c})

Chain(c) == ChainFrom(c, {})

Live(c) ==
    {p \in Chain(c) \X (0 .. PerCluster - 1) : At(disk, p).name \notin {"end", "free", ".", ".."}}

Subdirs == {p \in Live(vol.root) : At(disk, p).dir}
AllLive == Live(vol.root) \cup UNION {Live(At(disk, p).first) : p \in Subdirs}

(* Start and size of a file: the handle knows better than the entry.       *)
Extent(p) ==
    LET hs == {h \in Handle : file[h].open /\ file[h].place = p}
        f == file[CHOOSE h \in hs : TRUE]
    IN IF hs = {} THEN <<At(disk, p).first, At(disk, p).size>> ELSE <<f.start, f.size>>

Clusters(p) == IF Extent(p)[1] = 0 THEN {} ELSE Chain(Extent(p)[1])

Trusted == health \in Usable /\ vol.total > 0

(* Every file and directory has a chain of its own, long enough for its    *)
(* size, and no directory has a name twice.                                *)
ChainsSound ==
    /\ Bad # Chain(vol.root)
    /\ \A p \in AllLive :
        /\ Clusters(p) # Bad
        /\ Extent(p)[2] <= Cardinality(Clusters(p)) * PerCluster
        /\ Clusters(p) \cap Chain(vol.root) = {}
        /\ \A q \in AllLive \ {p} : Clusters(p) \cap Clusters(q) = {}
    /\ \A c \in {vol.root} \cup {At(disk, p).first : p \in Subdirs} :
        \A p, q \in Live(c) : At(disk, p).name = At(disk, q).name => p = q

Used == Chain(vol.root) \cup UNION {Clusters(p) : p \in AllLive}

(* What xFS_Volume_Get_Info counts as free is what nothing refers to.      *)
NothingLeaked ==
    CountFree(Peek(disk, Closed, Fresh), ClusterMin, 0).x = vol.total - Cardinality(Used)

RECURSIVE Listing(_)
Listing(v) ==
    IF v.st # "OK" \/ v.x = Zero THEN {} ELSE {v.x.name} \cup Listing(DirectoryRead(v))

(* Reading the root directory from its start reports every entry in it.    *)
ListingComplete ==
    Listing(DirectoryRead(DirectoryOpen(Peek(disk, ClosedDir, Fresh), <<>>)))
        = {At(disk, p).name : p \in Live(vol.root)}

(* What was formatted fits: the FAT has an entry for every cluster and     *)
(* every cluster is on the medium.                                         *)
LayoutFits ==
    LET last == ClusterMin + vol.total - 1
    IN FatSector(last) < vol.heap /\ ClusterSector(last) + vol.spc - 1 \in DOMAIN disk

(* As long as calls are completed, refused (disk full, exists, not empty), *)
(* or fail where nothing had been given up, the allocation table and the   *)
(* directories agree: chains are disjoint, end properly and cover the      *)
(* sizes, no cluster is lost unless a call failed, no call finds the       *)
(* volume corrupt, and reading a directory misses nothing.                 *)
VolumeSound ==
    /\ health = "sound" /\ vol.mounted => LayoutFits
    /\ health # "corrupt"
    /\ Trusted => ChainsSound
    /\ Trusted /\ health = "sound" => NothingLeaked
    /\ Trusted /\ vol.mounted => ListingComplete

(* Whatever was written through a handle, in whatever order it was moved,  *)
(* cut and grown, and whichever access failed on the way, is what the      *)
(* handle reads back: position, current cluster, its index and the cached  *)
(* sector never come apart, except in a handle whose walk along the chain  *)
(* failed half-way (drift).  Only another handle's change to a sector it   *)
(* has cached comes between.                                               *)
ReadsBack(h) ==
    LET r == FileRead(FileSeek(Peek(disk, file[h], cache[h]), 0), file[h].size)
    IN \/ r.st = "OK" /\ r.x = file[h].view
       \/ r.st = "STALE" /\ ~alone

HandleTruth == Trusted => \A h \in Handle : file[h].open /\ ~file[h].drift => ReadsBack(h)

(* What xFS_File_Flush or xFS_File_Close reported as written is on the     *)
(* medium, also after the power has gone in a later call, until that file  *)
(* is overwritten, shortened or deleted.                                   *)
FlushedSurvives ==
    Trusted => \A p \in DOMAIN saved :
        /\ At(disk, p).first # 0 => Chain(At(disk, p).first) # Bad
        /\ Stored(disk, p).st = "OK"
        /\ Stored(disk, p).x = saved[p]

(* The private cache of a handle holds an out-of-date sector only when     *)
(* another handle or a path call has changed the volume beside it, or a    *)
(* failed read has left part of a sector in it.                            *)
StaleNeedsSharing == health = "stale" => ~alone
=============================================================================

------------------------------ MODULE XfsDisk ------------------------------
(* The block device, the one-sector cache and the FAT of xFS.  A call is a *)
(* function of a record v that carries what the call has done so far:      *)
(*   v.d   the sectors of the medium       v.c   the cache the call uses   *)
(*   v.f   the file handle of the call     v.st  its status                *)
(*   v.x   the value it is about to return                                 *)
(*   v.io  how many device accesses still succeed, NoFault if all of them  *)
(*   v.power, v.torn   what the failing access does: cut the power for     *)
(*         good, or leave part of the new sector in the buffer             *)
(* The cache remembers in base what the medium held when the sector was    *)
(* loaded; the status STALE ends a call that relies on a sector another    *)
(* cache has rewritten since (or on a torn buffer).                        *)
EXTENDS Integers, Sequences, FiniteSets

CONSTANTS
    PerFat,     \* FAT entries in a sector (512 / 4 in the code)
    Slots       \* 32-byte slots in a sector (512 / 32): directory entries
                \* or pieces of file data

ASSUME DiskAssumption == PerFat \in Nat \ {0} /\ Slots \in Nat \ {0}

VARIABLES
    disk,       \* the sectors of the medium, by LBA
    vol         \* xFS_Context_t: mounted, fat, heap, spc, total, root

NoFault == -1
Free == 0
EOC == 1000     \* FAT32_EOC_MIN, above every cluster number
ClusterMin == 2

(* A slot is a directory entry; file data is a slot whose "name" is data.  *)
Zero == [name |-> "end", dir |-> FALSE, first |-> 0, size |-> 0]
Data(b) == [Zero EXCEPT !.name = b]
ZeroSector == [i \in 0 .. Slots - 1 |-> Zero]

Fresh == [valid |-> FALSE, dirty |-> FALSE, sec |-> 0, buf |-> ZeroSector, base |-> ZeroSector]

(* The next step of a call, taken only while everything went well.  The    *)
(* set makes TLC evaluate v once.                                          *)
Then(v, Next(_)) ==
    CHOOSE r \in {IF w.st = "OK" THEN Next(w) ELSE w : w \in {v}} : TRUE

With(v, x) == IF v.st = "OK" THEN [v EXCEPT !.x = x] ELSE v
Failed(v, st) == [v EXCEPT !.st = st]

Spend(v) == IF v.io = NoFault THEN v ELSE [v EXCEPT !.io = @ - 1]
Denied(v) == [v EXCEPT !.st = "IO", !.io = IF v.power THEN 0 ELSE NoFault]

(* Only a read leaves a torn buffer: the write after which torn is still   *)
(* due is not a failure that takes place.                                  *)
WriteSector(v, lba, buf) ==
    IF v.io = 0 THEN IF v.torn THEN Failed(v, "IO") ELSE Denied(v)
    ELSE [Spend(v) EXCEPT !.d[lba] = buf]

(* xFS_Cache_Write: the sector goes back if it was changed.                *)
CacheWrite(v) ==
    IF ~v.c.valid \/ ~v.c.dirty THEN v
    ELSE IF v.io # 0 /\ v.d[v.c.sec] # v.c.base THEN Failed(v, "STALE")
    ELSE Then(WriteSector(v, v.c.sec, v.c.buf),
              LAMBDA w : [w EXCEPT !.c.dirty = FALSE, !.c.base = w.c.buf])

OutOfDate(v) == v.d[v.c.sec] # v.c.base \/ (~v.c.dirty /\ v.c.buf # v.c.base)

(* Mutant: the sector number is set before the read.                       *)
LoadSectorNamed(v, lba) ==
    IF v.io = 0 THEN [Denied(v) EXCEPT !.c.sec = lba]
    ELSE [Spend(v) EXCEPT
            !.c = [valid |-> TRUE, dirty |-> FALSE, sec |-> lba, buf |-> v.d[lba], base |-> v.d[lba]]]

(* A failed read leaves the old sector marked valid over a buffer the      *)
(* driver may have begun to fill.                                          *)
LoadSector(v, lba) ==
    IF v.io = 0
    THEN [Denied(v) EXCEPT !.c.buf = IF v.torn THEN v.d[lba] ELSE @]
    ELSE [Spend(v) EXCEPT
            !.c = [valid |-> TRUE, dirty |-> FALSE, sec |-> lba, buf |-> v.d[lba], base |-> v.d[lba]]]

CacheRead(v, lba) ==
    IF v.c.valid /\ v.c.sec = lba
    THEN IF OutOfDate(v) THEN Failed(v, "STALE") ELSE v
    ELSE Then(CacheWrite(v), LAMBDA w : LoadSector(w, lba))

CacheInvalidate(v) == [v EXCEPT !.c = Fresh]

-----------------------------------------------------------------------------
InRange(c) == c >= ClusterMin /\ c < ClusterMin + vol.total
FatSector(c) == vol.fat + c \div PerFat
ClusterSector(c) == vol.heap + (c - ClusterMin) * vol.spc
PerCluster == Slots * vol.spc

ReadEntry(v, c) ==
    IF ~InRange(c) THEN Failed(v, "INVALID")
    ELSE Then(CacheRead(v, FatSector(c)), LAMBDA w : [w EXCEPT !.x = w.c.buf[c % PerFat]])

WriteEntry(v, c, value) ==
    IF ~InRange(c) THEN Failed(v, "INVALID")
    ELSE Then(CacheRead(v, FatSector(c)),
              LAMBDA w : [w EXCEPT !.c.buf[c % PerFat] = value, !.c.dirty = TRUE])

RECURSIVE FindFreeFrom(_, _)
FindFreeFrom(v, c) ==
    IF c >= ClusterMin + vol.total THEN Failed(v, "FULL")
    ELSE Then(ReadEntry(v, c),
              LAMBDA w : IF w.x = Free THEN [w EXCEPT !.x = c] ELSE FindFreeFrom(w, c + 1))

AllocateCluster(v) ==
    Then(FindFreeFrom(v, ClusterMin),
         LAMBDA w : With(Then(WriteEntry(w, w.x, EOC), CacheWrite), w.x))

(* Frees the chain from c on, every FAT sector written when the next one   *)
(* is loaded, the last one at the end.                                     *)
RECURSIVE ReleaseChain(_, _)
ReleaseChain(v, c) ==
    Then(ReadEntry(v, c), LAMBDA w :
    Then(WriteEntry(w, c, Free), LAMBDA u :
        IF w.x >= EOC THEN CacheWrite(u)
        ELSE IF InRange(w.x) THEN ReleaseChain(u, w.x)
        ELSE Failed(u, "CORRUPT")))

(* Mutant: the cluster is kept after an error.                             *)
RollbackNone(v, c) == v

(* The callers' (void)xFS_FAT32_Release_Chain(...) after an error.         *)
Rollback(v, c) ==
    IF v.st \in {"OK", "STALE"} THEN v
    ELSE LET r == ReleaseChain([v EXCEPT !.st = "OK"], c)
         IN IF r.st = "STALE" THEN r ELSE [r EXCEPT !.st = v.st]
=============================================================================

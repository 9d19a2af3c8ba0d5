------------------------------- MODULE XfsDir -------------------------------
(* Directories and paths of xFS.  A path is the sequence of the names of   *)
(* its components; the conversion of a component to its 8.3 form is the    *)
(* choice of the name.  A place is the pair of the cluster and the index   *)
(* of an entry.                                                            *)
EXTENDS XfsDisk

EntrySector(c, i) == ClusterSector(c) + i \div Slots

DirRead(v, c, i) ==
    IF ~InRange(c) THEN Failed(v, "INVALID")
    ELSE Then(CacheRead(v, EntrySector(c, i)), LAMBDA w : [w EXCEPT !.x = w.c.buf[i % Slots]])

DirWrite(v, c, i, entry) ==
    IF ~InRange(c) THEN Failed(v, "INVALID")
    ELSE Then(CacheRead(v, EntrySector(c, i)), LAMBDA w :
              CacheWrite([w EXCEPT !.c.buf[i % Slots] = entry, !.c.dirty = TRUE]))

IsEnd(entry) == entry.name = "end"
IsFree(entry) == entry.name = "free"

RECURSIVE ZeroSectors(_, _, _)
ZeroSectors(v, c, i) ==
    IF i = vol.spc THEN v
    ELSE LET sec == ClusterSector(c) + i
         IN Then(CacheWrite([v EXCEPT !.c = [valid |-> TRUE, dirty |-> TRUE, sec |-> sec,
                                             buf |-> ZeroSector, base |-> v.d[sec]]]),
                 LAMBDA w : ZeroSectors(w, c, i + 1))

ZeroCluster(v, c) == ZeroSectors(v, c, 0)

(* The entry called name of the directory that starts at cluster c: its    *)
(* contents and its place.                                                 *)
RECURSIVE Scan(_, _, _, _)
Scan(v, c, i, name) ==
    IF i = PerCluster
    THEN Then(ReadEntry(v, c), LAMBDA w :
              IF w.x >= EOC THEN Failed(w, "NOT_FOUND")
              ELSE IF InRange(w.x) THEN Scan(w, w.x, 0, name)
              ELSE Failed(w, "CORRUPT"))
    ELSE Then(DirRead(v, c, i), LAMBDA w :
              IF IsEnd(w.x) THEN Failed(w, "NOT_FOUND")
              ELSE IF w.x.name = name THEN [w EXCEPT !.x = [entry |-> w.x, place |-> <<c, i>>]]
              ELSE Scan(w, c, i + 1, name))

FindEntry(v, c, name) == IF InRange(c) THEN Scan(v, c, 0, name) ELSE Failed(v, "INVALID")

ExtendChain(v, tail) ==
    Then(AllocateCluster(v), LAMBDA w :
        LET new == w.x
        IN Rollback(With(Then(Then(ZeroCluster(w, new),
                                   LAMBDA u : WriteEntry(u, tail, new)),
                              CacheWrite),
                         <<new, 0>>),
                    new))

RECURSIVE FreeSlotFrom(_, _, _)
FreeSlotFrom(v, c, i) ==
    IF i = PerCluster
    THEN Then(ReadEntry(v, c), LAMBDA w :
              IF w.x >= EOC THEN ExtendChain(w, c)
              ELSE IF InRange(w.x) THEN FreeSlotFrom(w, w.x, 0)
              ELSE Failed(w, "CORRUPT"))
    ELSE Then(DirRead(v, c, i), LAMBDA w :
              IF IsEnd(w.x) \/ IsFree(w.x) THEN [w EXCEPT !.x = <<c, i>>]
              ELSE FreeSlotFrom(w, c, i + 1))

FindFreeEntry(v, c) == IF InRange(c) THEN FreeSlotFrom(v, c, 0) ELSE Failed(v, "INVALID")

(* Every answer of Find_Entry but OK counts as "not there": an I/O error   *)
(* too.                                                                    *)
NotThere(v) == [v EXCEPT !.st = IF @ = "STALE" THEN @ ELSE "OK"]

CreateFileEntry(v, parent, name) ==
    LET found == FindEntry(v, parent, name)
    IN IF found.st = "OK" THEN Failed(found, "EXISTS")
       ELSE Then(Then(NotThere(found), LAMBDA w : FindFreeEntry(w, parent)), LAMBDA w :
            With(DirWrite(w, w.x[1], w.x[2], [Zero EXCEPT !.name = name]), w.x))

-----------------------------------------------------------------------------
(* path_enter_directory *)
Enter(v) ==
    IF ~v.x.entry.dir THEN Failed(v, "NOT_DIRECTORY")
    ELSE IF v.x.entry.first < ClusterMin THEN Failed(v, "CORRUPT")
    ELSE v

RECURSIVE WalkFrom(_, _, _)
WalkFrom(v, c, path) ==
    Then(FindEntry(v, c, Head(path)), LAMBDA w :
        IF Len(path) = 1 THEN w
        ELSE Then(Enter(w), LAMBDA u : WalkFrom(u, u.x.entry.first, Tail(path))))

PathWalk(v, path) ==
    IF ~vol.mounted THEN Failed(v, "NOT_MOUNTED") ELSE WalkFrom(v, vol.root, path)

RECURSIVE ParentFrom(_, _, _)
ParentFrom(v, c, path) ==
    IF Len(path) = 1 THEN [v EXCEPT !.x = c]
    ELSE Then(Then(FindEntry(v, c, Head(path)), Enter),
              LAMBDA w : ParentFrom(w, w.x.entry.first, Tail(path)))

ResolveParent(v, path) ==
    IF ~vol.mounted THEN Failed(v, "NOT_MOUNTED") ELSE ParentFrom(v, vol.root, path)

Last(path) == path[Len(path)]

-----------------------------------------------------------------------------
WriteDots(v, new, parent) ==
    LET dot == [Zero EXCEPT !.name = ".", !.dir = TRUE, !.first = new]
    IN Then(DirWrite(v, new, 0, dot),
            LAMBDA w : DirWrite(w, new, 1, [dot EXCEPT !.name = "..", !.first = parent]))

(* The last write is not rolled back: if it fails the cluster stays        *)
(* allocated.                                                              *)
DirectoryCreate(v, path) ==
    Then(ResolveParent(v, path), LAMBDA p :
        LET parent == p.x
            found == FindEntry(p, parent, Last(path))
        IN IF found.st = "OK" THEN Failed(found, "EXISTS")
           ELSE IF found.st # "NOT_FOUND" THEN found
           ELSE Then(AllocateCluster([found EXCEPT !.st = "OK"]), LAMBDA w :
                LET new == w.x
                    filled == Then(Then(ZeroCluster(w, new), LAMBDA u : WriteDots(u, new, parent)),
                                   LAMBDA u : FindFreeEntry(u, parent))
                IN Then(Rollback(filled, new), LAMBDA u :
                        DirWrite(u, u.x[1], u.x[2],
                                 [Zero EXCEPT !.name = Last(path), !.dir = TRUE, !.first = new]))))

RECURSIVE EmptyFrom(_, _, _)
EmptyFrom(v, c, i) ==
    IF i = PerCluster
    THEN Then(ReadEntry(v, c), LAMBDA w :
              IF w.x >= EOC THEN w
              ELSE IF InRange(w.x) THEN EmptyFrom(w, w.x, 0)
              ELSE Failed(w, "CORRUPT"))
    ELSE Then(DirRead(v, c, i), LAMBDA w :
              IF IsEnd(w.x) THEN w
              ELSE IF w.x.name \in {"free", ".", ".."} THEN EmptyFrom(w, c, i + 1)
              ELSE Failed(w, "NOT_EMPTY"))

(* The chain is freed before the entry that names it.                      *)
DirectoryDelete(v, path) ==
    Then(PathWalk(v, path), LAMBDA w :
        LET it == w.x
        IN IF ~it.entry.dir THEN Failed(w, "NOT_DIRECTORY")
           ELSE Then(Then(EmptyFrom(w, it.entry.first, 0),
                          LAMBDA u : ReleaseChain(u, it.entry.first)),
                     LAMBDA u : DirWrite(u, it.place[1], it.place[2], [it.entry EXCEPT !.name = "free"])))

CrossDirectory(v, it, parent, name) ==
    IF it.entry.dir THEN Failed(v, "INVALID")
    ELSE Then(FindFreeEntry(v, parent), LAMBDA w :
         Then(DirWrite(w, w.x[1], w.x[2], [it.entry EXCEPT !.name = name]), LAMBDA u :
              DirWrite(u, it.place[1], it.place[2], [it.entry EXCEPT !.name = "free"])))

PathRename(v, old, new) ==
    Then(ResolveParent(v, old), LAMBDA p :
    Then(ResolveParent(p, new), LAMBDA q :
        IF p.x = q.x /\ Last(old) = Last(new) THEN q
        ELSE Then(FindEntry(q, p.x, Last(old)), LAMBDA w :
             LET it == w.x
                 check == FindEntry(w, q.x, Last(new))
             IN IF check.st = "OK" THEN Failed(check, "EXISTS")
                ELSE IF check.st # "NOT_FOUND" THEN check
                ELSE IF p.x = q.x
                     THEN DirWrite([check EXCEPT !.st = "OK"], it.place[1], it.place[2],
                                   [it.entry EXCEPT !.name = Last(new)])
                     ELSE CrossDirectory([check EXCEPT !.st = "OK"], it, q.x, Last(new)))))

(* Mutant: the chain goes before the entry that names it.                  *)
FileDeleteChainFirst(v, path) ==
    Then(PathWalk(v, path), LAMBDA w :
        LET it == w.x
        IN IF it.entry.dir THEN Failed(w, "NOT_FILE")
           ELSE Then(IF it.entry.first >= ClusterMin THEN ReleaseChain(w, it.entry.first) ELSE w,
                     LAMBDA u : DirWrite(u, it.place[1], it.place[2], [it.entry EXCEPT !.name = "free"])))

FileDelete(v, path) ==
    Then(PathWalk(v, path), LAMBDA w :
        LET it == w.x
        IN IF it.entry.dir THEN Failed(w, "NOT_FILE")
           ELSE Then(DirWrite(w, it.place[1], it.place[2], [it.entry EXCEPT !.name = "free"]),
                     LAMBDA u : IF it.entry.first >= ClusterMin
                                THEN ReleaseChain(u, it.entry.first) ELSE u))

(* xFS_Volume_Get_Info: the free clusters, counted in the FAT.             *)
RECURSIVE CountFree(_, _, _)
CountFree(v, c, n) ==
    IF c >= ClusterMin + vol.total THEN With(v, n)
    ELSE Then(ReadEntry(v, c), LAMBDA w : CountFree(w, c + 1, IF w.x = Free THEN n + 1 ELSE n))

-----------------------------------------------------------------------------
(* A directory handle: the next entry is at <<cur, idx>>.                  *)
ClosedDir == [open |-> FALSE, start |-> 0, cur |-> 0, idx |-> 0, end |-> TRUE]

DirectoryOpen(v, path) ==
    LET found == IF path = <<>> THEN With(v, [entry |-> [Zero EXCEPT !.dir = TRUE, !.first = vol.root]])
                 ELSE PathWalk(v, path)
    IN Then(IF vol.mounted THEN found ELSE Failed(v, "NOT_MOUNTED"), LAMBDA w :
            IF ~w.x.entry.dir THEN Failed(w, "NOT_DIRECTORY")
            ELSE IF ~InRange(w.x.entry.first) THEN Failed(w, "CORRUPT")
            ELSE [w EXCEPT !.f = [open |-> TRUE, start |-> w.x.entry.first,
                                  cur |-> w.x.entry.first, idx |-> 0, end |-> FALSE]])

(* The result is the entry read, or Zero when there are no more.           *)
RECURSIVE DirectoryRead(_)
DirectoryRead(v) ==
    IF v.f.end THEN With(v, Zero)
    ELSE IF v.f.idx >= PerCluster
    THEN Then(ReadEntry(v, v.f.cur), LAMBDA w :
              IF w.x >= EOC THEN DirectoryRead([w EXCEPT !.f.end = TRUE])
              ELSE IF ~InRange(w.x) THEN Failed(w, "CORRUPT")
              ELSE DirectoryRead([w EXCEPT !.f.cur = w.x, !.f.idx = 0]))
    ELSE Then(DirRead(v, v.f.cur, v.f.idx), LAMBDA w :
              LET u == [w EXCEPT !.f.idx = @ + 1]
              IN IF IsEnd(w.x) THEN [u EXCEPT !.f.end = TRUE]
                 ELSE IF IsFree(w.x) THEN DirectoryRead(u)
                 ELSE u)

DirectoryRewind(v) ==
    [CacheInvalidate(v) EXCEPT !.f.cur = v.f.start, !.f.idx = 0, !.f.end = FALSE]
=============================================================================

------------------------------ MODULE XfsFile ------------------------------
(* The file handles of xFS.  Sizes and positions are counted in slots; the *)
(* loops of the code over the bytes of a sector run slot by slot.          *)
(* Three fields of a handle are history, not code: view is what a reader   *)
(* of the handle should see, drift says that a walk along the chain failed *)
(* half way (the cluster has moved on, its index has not), and cut that    *)
(* clusters the directory entry still counts on were given up.             *)
EXTENDS XfsDir

Closed == [open |-> FALSE, start |-> 0, cur |-> 0, idx |-> 0, size |-> 0, pos |-> 0,
           place |-> <<0, 0>>, dirty |-> FALSE,
           view |-> <<>>, drift |-> FALSE, cut |-> FALSE]

Opened(start, size, place) ==
    [Closed EXCEPT !.open = TRUE, !.start = start, !.cur = start, !.size = size, !.place = place]

FileOpen(v, path) ==
    Then(PathWalk(v, path), LAMBDA w :
        LET it == w.x
        IN IF it.entry.dir THEN Failed(w, "NOT_FILE")
           ELSE IF it.entry.size > 0 /\ it.entry.first < ClusterMin THEN Failed(w, "CORRUPT")
           ELSE [w EXCEPT !.f = Opened(it.entry.first, it.entry.size, it.place)])

FileCreate(v, path) ==
    Then(ResolveParent(v, path), LAMBDA p :
    Then(CreateFileEntry(p, p.x, Last(path)), LAMBDA w :
        [w EXCEPT !.f = Opened(0, 0, w.x)]))

Required(size) == (size + PerCluster - 1) \div PerCluster

-----------------------------------------------------------------------------
(* The cluster to look for lies before the current one: start over.        *)
Restarted(v, target) ==
    IF target < v.f.idx
    THEN [v EXCEPT !.f.cur = v.f.start, !.f.idx = 0, !.f.drift = FALSE] ELSE v

StepTo(v, next) == [v EXCEPT !.f.cur = next, !.f.drift = TRUE]

Arrived(v, target, drift) == [v EXCEPT !.f.idx = target, !.f.drift = drift]

RECURSIVE Advance(_, _)
Advance(v, n) ==
    IF n = 0 THEN v
    ELSE Then(ReadEntry(v, v.f.cur), LAMBDA w :
         IF w.x >= EOC THEN Failed(w, "CORRUPT") ELSE Advance(StepTo(w, w.x), n - 1))

MoveTo(v, target) ==
    LET r == Restarted(v, target)
    IN Then(Advance(r, target - r.f.idx), LAMBDA w : Arrived(w, target, r.f.drift))

(* The cluster after the current one, a new one at the end of the chain.   *)
NextForWrite(v) ==
    Then(ReadEntry(v, v.f.cur), LAMBDA w :
        IF w.x < EOC THEN w
        ELSE Then(AllocateCluster(w), LAMBDA u :
             With(Then(WriteEntry(u, u.f.cur, u.x), CacheWrite), u.x)))

RECURSIVE AdvanceForWrite(_, _)
AdvanceForWrite(v, n) ==
    IF n = 0 THEN v
    ELSE Then(NextForWrite(v), LAMBDA w : AdvanceForWrite(StepTo(w, w.x), n - 1))

FirstCluster(v) ==
    IF v.f.start >= ClusterMin THEN v
    ELSE Then(AllocateCluster(v), LAMBDA w :
         [w EXCEPT !.f.start = w.x, !.f.cur = w.x, !.f.idx = 0, !.f.dirty = TRUE, !.f.drift = FALSE])

MoveForWrite(v, target) ==
    Then(FirstCluster(v), LAMBDA u :
        LET r == Restarted(u, target)
        IN Then(AdvanceForWrite(r, target - r.f.idx), LAMBDA w : Arrived(w, target, r.f.drift)))

-----------------------------------------------------------------------------
FileSector(f) == ClusterSector(f.cur) + (f.pos % PerCluster) \div Slots

(* Reads up to length slots; the result is the sequence read.              *)
RECURSIVE ReadOn(_, _, _)
ReadOn(v, length, got) ==
    IF Len(got) = length \/ v.f.pos >= v.f.size THEN With(v, got)
    ELSE Then(Then(MoveTo(v, v.f.pos \div PerCluster), LAMBDA w : CacheRead(w, FileSector(w.f))),
              LAMBDA w : ReadOn([w EXCEPT !.f.pos = @ + 1], length,
                                Append(got, w.c.buf[w.f.pos % Slots].name)))

FileRead(v, length) == ReadOn(v, length, <<>>)

(* One slot into the cached sector; the file grows when it is written at   *)
(* its end.                                                                *)
Overwrite(s, i, b) == IF i < Len(s) THEN [s EXCEPT ![i + 1] = b] ELSE Append(s, b)

Put(v, b) ==
    LET f == v.f
    IN [v EXCEPT !.c.buf[f.pos % Slots] = IF b = "end" THEN Zero ELSE Data(b),
                 !.c.dirty = TRUE,
                 !.f.pos = @ + 1,
                 !.f.size = IF f.pos + 1 > @ THEN f.pos + 1 ELSE @,
                 !.f.dirty = @ \/ f.pos + 1 > f.size,
                 !.f.view = Overwrite(@, f.pos, b)]

RECURSIVE FileWrite(_, _)
FileWrite(v, bytes) ==
    IF bytes = <<>> THEN v
    ELSE Then(Then(MoveForWrite(v, v.f.pos \div PerCluster), LAMBDA w : CacheRead(w, FileSector(w.f))),
              LAMBDA w : FileWrite(Put(w, Head(bytes)), Tail(bytes)))

(* Mutant: at the end of the file the cache is dropped, not written.       *)
FileSeekDropping(v, pos) ==
    IF pos > v.f.size THEN Failed(v, "OUT_OF_RANGE")
    ELSE IF pos = v.f.size THEN [CacheInvalidate(v) EXCEPT !.f.pos = pos]
    ELSE Then(CacheWrite(v), LAMBDA w :
         Then(MoveTo(CacheInvalidate(w), pos \div PerCluster), LAMBDA u : [u EXCEPT !.f.pos = pos]))

FileSeek(v, pos) ==
    IF pos > v.f.size THEN Failed(v, "OUT_OF_RANGE")
    ELSE Then(CacheWrite(v), LAMBDA w :
         IF pos = v.f.size THEN [CacheInvalidate(w) EXCEPT !.f.pos = pos]
         ELSE Then(MoveTo(CacheInvalidate(w), pos \div PerCluster),
                   LAMBDA u : [u EXCEPT !.f.pos = pos]))

-----------------------------------------------------------------------------
Cut(v) == [v EXCEPT !.f.cut = TRUE]

(* All clusters go when none is required; otherwise the chain ends at the  *)
(* last one required and the rest is released.                             *)
ReleaseAll(v) ==
    Then(IF v.f.start >= ClusterMin THEN ReleaseChain(Cut(v), v.f.start) ELSE v,
         LAMBDA w : [w EXCEPT !.f.start = 0, !.f.cur = 0, !.f.idx = 0, !.f.drift = FALSE])

ReleaseRest(v, kept) ==
    Then(ReadEntry(v, v.f.cur), LAMBDA w :
        IF w.x >= EOC THEN w
        ELSE Then(Then(WriteEntry(w, w.f.cur, EOC), LAMBDA u : CacheWrite(Cut(u))),
                  LAMBDA u : ReleaseChain(u, w.x)))

Shrink(v, size) ==
    LET required == Required(size)
    IN Then(IF required = 0 THEN ReleaseAll(v)
            ELSE Then(MoveTo(v, required - 1), LAMBDA w : ReleaseRest(w, required)), LAMBDA w :
       [w EXCEPT !.f.size = size,
                 !.f.pos = IF @ > size THEN size ELSE @,
                 !.f.dirty = TRUE,
                 !.f.view = SubSeq(@, 1, size)])

RECURSIVE Grow(_, _)
Grow(v, size) ==
    IF v.f.size >= size THEN v
    ELSE Then(FileWrite(v, <<"end">>), LAMBDA w : Grow(w, size))

FileTruncate(v, size) ==
    IF size = v.f.size THEN v
    ELSE IF size < v.f.size THEN Shrink(v, size)
    ELSE Then(Grow([v EXCEPT !.f.pos = v.f.size], size), LAMBDA w : FileSeek(w, v.f.pos))

-----------------------------------------------------------------------------
FileFlush(v) ==
    Then(CacheWrite(v), LAMBDA w :
        LET f == w.f
            Entry(old) == [old EXCEPT !.first = f.start, !.size = f.size]
        IN IF ~f.dirty THEN w
           ELSE Then(Then(DirRead(w, f.place[1], f.place[2]), LAMBDA u :
                          DirWrite(u, f.place[1], f.place[2], Entry(u.x))),
                     LAMBDA u : [u EXCEPT !.f.dirty = FALSE, !.f.cut = FALSE]))

FileClose(v) ==
    Then(IF v.f.open THEN FileFlush(v) ELSE v, LAMBDA w : [CacheInvalidate(w) EXCEPT !.f = Closed])
=============================================================================

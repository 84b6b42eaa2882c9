------------------------------- MODULE FatFs -------------------------------
(***************************************************************************)
(* The calls of FatFs (src/src/drivers/fatfs/ff.c) on files and            *)
(* directories, as operators on a volume and a file object; FileSystem     *)
(* makes steps of them.  The calls that return INT_ERR give up where the   *)
(* code sets the file's error flag; FileSystem shows that none ever does.  *)
(***************************************************************************)
EXTENDS FatVolume

\* A file object that is not open.
Closed == [open |-> FALSE]

-----------------------------------------------------------------------------
(***************************************************************************)
(* Slips that the properties must notice.                                  *)
(***************************************************************************)
Overlay_Missing(fp, data, sect, n) == data
EndCluster_First(v, clst, ofs) == clst
Flushed_Dropped(v, fp) == v
MovedDots_Kept(v, djo, djn, e) == v
-----------------------------------------------------------------------------
(***************************************************************************)
(* Files.  A call returns the volume, the file object and its result.      *)
(***************************************************************************)

ClusterBytes(v) == v.csize * SS

\* disk_read and disk_write of one sector of a file's cache.
Load(v, fp, sect) == [fp EXCEPT !.buf = v.disk[sect], !.sect = sect]
Flushed(v, fp) ==
    IF fp.dirty THEN [v EXCEPT !.disk = [@ EXCEPT ![fp.sect] = fp.buf]] ELSE v

\* After the chain of an overwritten file is freed the window returns to its
\* entry, and the search starts at the hole.
Reopen(r, sc, cl) ==
    IF r.res = "OK" THEN [r EXCEPT !.v = [move_window(@, sc) EXCEPT !.last_clst = cl - 1]]
    ELSE r

\* Truncates the object a file is created over.
Overwritten(v, dj) ==
    LET cl == EntryAt(v, dj).cl
        w == SetEntry(v, dj, Entry(EntryAt(v, dj).n, {"ARC"}, 0, 0))
    IN  IF cl = 0 THEN [v |-> w, res |-> "OK"]
        ELSE Reopen(remove_chain(w, cl, 0), w.winsect, cl)

\* The cluster that has byte ofs - 1 of the chain that starts at clst.
RECURSIVE EndCluster(_, _, _)
EndCluster(v, clst, ofs) ==
    IF ofs <= ClusterBytes(v) THEN clst
    ELSE EndCluster(AtFat(v, clst), get_fat(v, clst), ofs - ClusterBytes(v))

\* The volume after the walk to that cluster: the window has moved.
RECURSIVE Walked(_, _, _)
Walked(v, clst, ofs) ==
    IF ofs <= ClusterBytes(v) THEN v
    ELSE Walked(AtFat(v, clst), get_fat(v, clst), ofs - ClusterBytes(v))

\* The file object moved to the end of its file, with the sector that is in.
AtEnd(v, fp) ==
    LET ofs == ((fp.objsize - 1) % ClusterBytes(v)) + 1
        at(clst) == [fp EXCEPT !.fptr = fp.objsize, !.clust = clst]
        loaded(f) == IF ofs % SS = 0 THEN f
                     ELSE Load(v, f, clst2sect(v, f.clust) + ofs \div SS)
    IN  IF fp.objsize = 0 THEN fp
        ELSE loaded(at(EndCluster(v, fp.sclust, fp.objsize)))

\* The chain of a file opened at its end is too short for it.
Broken(v, fp) ==
    LET clst == EndCluster(v, fp.sclust, fp.objsize)
    IN  \/ fp.objsize > ClusterBytes(v) /\ clst < 2
        \/ fp.objsize % SS # 0 /\ clst \notin Clusters(v)

\* Why f_open refuses the object it found.
Refused(attr, mode) ==
    IF mode.how = "existing"
    THEN IF "DIR" \in attr THEN "NO_FILE"
         ELSE IF mode.w /\ "RDO" \in attr THEN "DENIED" ELSE "OK"
    ELSE IF attr \cap {"RDO", "DIR"} # {} THEN "DENIED"
    ELSE IF mode.how = "new" THEN "EXIST" ELSE "OK"

\* What f_open finds or makes at a path: follow_path, then the checks of the mode.
Checked(p, mode) ==
    IF mode.how # "existing" /\ p.res = "NO_FILE"
    THEN [made |-> TRUE, at |-> dir_register(p.v, p.dj)]
    ELSE [made |-> FALSE,
          at |-> [p EXCEPT !.res = IF @ # "OK" THEN @
                                   ELSE IF p.dj.noname THEN "INVALID_NAME"
                                   ELSE Refused(p.dj.attr, mode)]]
Located(v, path, mode) == Checked(OnDrive(v, path), mode)

f_open(v, path, mode) ==
    LET object(w, dj, reset) ==
            LET e == EntryAt(w, dj)
            IN  [open |-> TRUE, id |-> v.id, r |-> mode.r, w |-> mode.w,
                 modified |-> reset, dirty |-> FALSE,
                 sclust |-> e.cl, objsize |-> e.sz, fptr |-> 0, clust |-> 0,
                 sect |-> 0, buf |-> Blank,
                 dir_sect |-> w.winsect, dir_ptr |-> dj.dptr % SS]
        failed(w, res) == [v |-> w, fp |-> Closed, res |-> res]
        at_end(w, fp) == IF Broken(w, fp) THEN failed(w, "INT_ERR")
                         ELSE [v |-> w, fp |-> AtEnd(w, fp), res |-> "OK"]
        opened(w, fp) ==
            IF mode.how = "append" THEN at_end(Walked(w, fp.sclust, fp.objsize), fp)
            ELSE [v |-> w, fp |-> fp, res |-> "OK"]
        reopened(r, dj, reset) == IF r.res # "OK" THEN failed(r.v, r.res)
                                  ELSE opened(r.v, object(r.v, dj, reset))
        at(l, reset) ==
            IF reset /\ l.at.res = "OK"
            THEN reopened(Overwritten(l.at.v, l.at.dj), l.at.dj, TRUE)
            ELSE reopened(l.at, l.at.dj, FALSE)
        located(l) == at(l, mode.how = "always" \/ l.made)
    IN  located(Located(v, path, mode))

\* validate, and the access the call needs.
Usable(v, fp, access) ==
    IF ~fp.open THEN "INVALID_OBJECT"
    ELSE IF fp.id # v.id THEN "INVALID_OBJECT"
    ELSE IF ~access THEN "DENIED" ELSE "OK"

\* Bytes from..from+n-1 of a file's sectors read straight from the disk.
Direct(v, sect, n) == [i \in 1 .. n |-> v.disk[sect + (i - 1) \div SS][(i - 1) % SS]]

\* A sector among them that the file's cache has changes for is taken from there.
Overlay(fp, data, sect, n) ==
    IF fp.dirty /\ fp.sect \in sect .. sect + n \div SS - 1
    THEN [i \in 1 .. n |->
             IF sect + (i - 1) \div SS = fp.sect THEN fp.buf[(i - 1) % SS] ELSE data[i]]
    ELSE data

\* How many whole sectors a transfer of n bytes moves at once from offset fptr.
Whole(v, fptr, n) ==
    LET left == v.csize - ((fptr \div SS) % v.csize)
    IN  IF n \div SS < left THEN n \div SS ELSE left

\* One round of the loop of f_read per level: whole sectors or a part of one.
RECURSIVE ReadOn(_, _, _, _)
ReadOn(v, fp, btr, got) ==
    LET bound == fp.fptr % SS = 0
        csect == (fp.fptr \div SS) % v.csize
        next == bound /\ csect = 0
        clst == IF ~next THEN fp.clust
                ELSE IF fp.fptr = 0 THEN fp.sclust ELSE get_fat(v, fp.clust)
        v1 == IF next /\ fp.fptr # 0 THEN AtFat(v, fp.clust) ELSE v
        sect == clst2sect(v, clst) + csect
        cc == IF bound THEN Whole(v, fp.fptr, btr) ELSE 0
        miss == bound /\ cc = 0 /\ fp.sect # sect
        v2 == IF miss THEN Flushed(v1, fp) ELSE v1
        f1 == [fp EXCEPT !.clust = clst]
        f2 == IF miss THEN [Load(v2, f1, sect) EXCEPT !.dirty = FALSE] ELSE f1
        part == SS - (fp.fptr % SS)
        rcnt == IF cc > 0 THEN cc * SS ELSE IF part < btr THEN part ELSE btr
        data == IF cc > 0 THEN Overlay(fp, Direct(v1, sect, rcnt), sect, rcnt)
                ELSE [i \in 1 .. rcnt |-> f2.buf[(fp.fptr % SS) + i - 1]]
    IN  IF btr = 0 THEN [v |-> v, fp |-> fp, data |-> got, res |-> "OK"]
        ELSE IF clst \notin Clusters(v)
             THEN [v |-> v1, fp |-> fp, data |-> got, res |-> "INT_ERR"]
        ELSE ReadOn(v2, [f2 EXCEPT !.fptr = @ + rcnt], btr - rcnt, got \o data)

f_read(v, fp, btr) ==
    LET remain == fp.objsize - fp.fptr
        u == Usable(v, fp, fp.r)
    IN  IF u # "OK" THEN [v |-> v, fp |-> fp, data |-> <<>>, res |-> u]
        ELSE ReadOn(v, fp, IF btr < remain THEN btr ELSE remain, <<>>)

\* Sectors sect.. of the disk replaced by the bytes of data.
Stored(v, sect, data) ==
    [v EXCEPT !.disk = [s \in DOMAIN @ |->
        IF s \in sect .. sect + Len(data) \div SS - 1
        THEN [i \in 0 .. SS - 1 |-> data[(s - sect) * SS + i + 1]] ELSE @[s]]]

\* One round of the loop of f_write in cluster fp.clust: whole sectors at once or
\* a part of one through the cache.  A direct write over the cached sector
\* refreshes the cache.
Transfer(v, fp, data) ==
    LET at == fp.fptr % SS
        sect == clst2sect(v, fp.clust) + ((fp.fptr \div SS) % v.csize)
        cc == IF at = 0 THEN Whole(v, fp.fptr, Len(data)) ELSE 0
        n == IF cc > 0 THEN cc * SS ELSE Min({SS - at, Len(data)})
        flushed == IF at = 0 THEN Flushed(v, fp) ELSE v
        clean == IF at = 0 THEN [fp EXCEPT !.dirty = FALSE] ELSE fp
        cached(w) ==
            IF cc > 0
            THEN IF fp.sect \in sect .. sect + cc - 1 THEN Load(w, clean, fp.sect) ELSE clean
            ELSE IF at # 0 THEN clean
            ELSE IF fp.sect # sect /\ fp.fptr < fp.objsize THEN Load(w, clean, sect)
            ELSE [clean EXCEPT !.sect = sect]
        patched(f) ==
            IF cc > 0 THEN f
            ELSE [f EXCEPT !.dirty = TRUE,
                           !.buf = [i \in 0 .. SS - 1 |->
                                       IF i \in at .. at + n - 1 THEN data[i - at + 1] ELSE @[i]]]
        done(w) == [v |-> w, n |-> n,
                    fp |-> [patched(cached(w)) EXCEPT
                               !.fptr = @ + n,
                               !.objsize = IF @ < fp.fptr + n THEN fp.fptr + n ELSE @]]
    IN  done(IF cc > 0 THEN Stored(flushed, sect, SubSeq(data, 1, cc * SS)) ELSE flushed)

\* f_write: a round of the loop per level.  WriteIn has the cluster for the round,
\* which was taken now if next; none is a full disk.
RECURSIVE WriteOn(_, _, _)
WriteIn(v, clst, fp, data, next) ==
    LET on(r) == WriteOn(r.v, r.fp, Skip(data, r.n))
    IN  IF next /\ clst = 0
        THEN [v |-> v, fp |-> [fp EXCEPT !.modified = TRUE], left |-> Len(data), res |-> "OK"]
        ELSE IF clst \notin Clusters(v)
        THEN [v |-> v, fp |-> fp, left |-> Len(data), res |-> "INT_ERR"]
        ELSE on(Transfer(v, [fp EXCEPT !.clust = clst, !.sclust = IF @ = 0 THEN clst ELSE @], data))
WriteOn(v, fp, data) ==
    LET next == fp.fptr % SS = 0 /\ (fp.fptr \div SS) % v.csize = 0
        in(chain) == WriteIn(chain.v, chain.cl, fp, data, next)
    IN  IF data = <<>>
        THEN [v |-> v, fp |-> [fp EXCEPT !.modified = TRUE], left |-> 0, res |-> "OK"]
        ELSE in(IF ~next THEN [v |-> v, cl |-> fp.clust]
                ELSE IF fp.fptr = 0 /\ fp.sclust # 0 THEN [v |-> v, cl |-> fp.sclust]
                ELSE create_chain(v, IF fp.fptr = 0 THEN 0 ELSE fp.clust))

\* The clip of a write that would take the pointer past 2^32 is left out: no file
\* here comes near that size.
f_write(v, fp, data) ==
    LET u == Usable(v, fp, fp.w)
    IN  IF u # "OK" THEN [v |-> v, fp |-> fp, left |-> Len(data), res |-> u]
        ELSE WriteOn(v, fp, data)

\* The directory entry gets the file's cluster and size.
Saved(v, fp) ==
    LET w == move_window(v, fp.dir_sect)
        e == w.win[fp.dir_ptr]
    IN  sync_fs([w EXCEPT !.wflag = TRUE,
                    !.win = [@ EXCEPT ![fp.dir_ptr] =
                                Entry(e.n, e.attr \cup {"ARC"}, fp.sclust, fp.objsize)]])

f_sync(v, fp) ==
    LET u == Usable(v, fp, TRUE)
    IN  IF u # "OK" \/ ~fp.modified THEN [v |-> v, fp |-> fp, res |-> u]
        ELSE [v |-> Saved(Flushed(v, fp), fp), res |-> "OK",
              fp |-> [fp EXCEPT !.dirty = FALSE, !.modified = FALSE]]

f_close(v, fp) ==
    LET done(s) == IF s.res = "OK" THEN [s EXCEPT !.fp = Closed] ELSE s
    IN  done(f_sync(v, fp))

\* The cluster loop of f_lseek: ofs bytes to go from cluster clst.  A writable
\* file is stretched; when the disk is full the seek ends at the last byte.
RECURSIVE SeekOn(_, _, _, _)
SeekOn(v, fp, clst, ofs) ==
    LET bcs == ClusterBytes(v)
        past == [fp EXCEPT !.fptr = @ + bcs]
        on(r) ==
            IF fp.w /\ r.cl = 0 THEN [v |-> r.v, fp |-> past, nsect |-> 0, res |-> "OK"]
            ELSE IF r.cl \notin Clusters(v)
            THEN [v |-> r.v, fp |-> past, nsect |-> 0, res |-> "INT_ERR"]
            ELSE SeekOn(r.v, [past EXCEPT !.clust = r.cl], r.cl, ofs - bcs)
    IN  IF ofs <= bcs
        THEN [v |-> v, fp |-> [fp EXCEPT !.fptr = @ + ofs], res |-> "OK",
              nsect |-> IF ofs % SS # 0 THEN clst2sect(v, clst) + ofs \div SS ELSE 0]
        ELSE on(IF fp.w THEN create_chain(v, clst)
                ELSE [v |-> AtFat(v, clst), cl |-> get_fat(v, clst)])

\* The seek from the start of the file, with its first cluster.
SeekAll(first, fp, ofs) ==
    LET f == [fp EXCEPT !.fptr = 0, !.sclust = first.cl, !.clust = first.cl]
    IN  IF first.cl = 0 THEN [v |-> first.v, fp |-> f, nsect |-> 0, res |-> "OK"]
        ELSE SeekOn(first.v, f, first.cl, ofs)

f_lseek(v, fp, to) ==
    LET u == Usable(v, fp, TRUE)
        bcs == ClusterBytes(v)
        ofs == IF to > fp.objsize /\ ~fp.w THEN fp.objsize ELSE to
        onward == fp.fptr > 0 /\ (ofs - 1) \div bcs >= (fp.fptr - 1) \div bcs
        base == ((fp.fptr - 1) \div bcs) * bcs
        grown(f) == IF f.fptr > f.objsize
                    THEN [f EXCEPT !.objsize = f.fptr, !.modified = TRUE] ELSE f
        cached(w, f, nsect) ==
            LET miss == f.fptr % SS # 0 /\ nsect # f.sect
                w1 == IF miss THEN Flushed(w, f) ELSE w
            IN  [v |-> w1, res |-> "OK",
                 fp |-> IF miss THEN [Load(w1, f, nsect) EXCEPT !.dirty = FALSE] ELSE f]
        there(s) == IF s.res # "OK" THEN s ELSE cached(s.v, grown(s.fp), s.nsect)
    IN  IF u # "OK" THEN [v |-> v, fp |-> fp, res |-> u]
        ELSE there(IF ofs = 0
                   THEN [v |-> v, fp |-> [fp EXCEPT !.fptr = 0], nsect |-> 0, res |-> "OK"]
                   ELSE IF onward THEN SeekOn(v, [fp EXCEPT !.fptr = base], fp.clust, ofs - base)
                   ELSE SeekAll(IF fp.sclust = 0 THEN create_chain(v, 0)
                                ELSE [v |-> v, cl |-> fp.sclust], fp, ofs))

\* Cuts the file at its pointer; the cache is written even where its sector goes.
f_truncate(v, fp) ==
    LET u == Usable(v, fp, fp.w)
        ncl == get_fat(v, fp.clust)
        cut == IF fp.fptr = 0 THEN remove_chain(v, fp.sclust, 0)
               ELSE IF ncl < v.n_fatent THEN remove_chain(AtFat(v, fp.clust), ncl, fp.clust)
               ELSE [v |-> AtFat(v, fp.clust), res |-> "OK"]
        f1 == [fp EXCEPT !.sclust = IF fp.fptr = 0 THEN 0 ELSE @,
                         !.objsize = fp.fptr, !.modified = TRUE]
    IN  IF u # "OK" THEN [v |-> v, fp |-> fp, res |-> u]
        ELSE IF fp.fptr >= fp.objsize THEN [v |-> v, fp |-> fp, res |-> "OK"]
        ELSE IF cut.res # "OK" THEN [v |-> cut.v, fp |-> f1, res |-> cut.res]
        ELSE [v |-> Flushed(cut.v, f1), fp |-> [f1 EXCEPT !.dirty = FALSE], res |-> "OK"]

-----------------------------------------------------------------------------
(***************************************************************************)
(* Directories.                                                            *)
(***************************************************************************)

\* The object at a path as f_stat, f_unlink and f_rename see it: the root
\* itself has no name.
Named(v, path) ==
    LET root(p) == IF p.res = "OK" /\ p.dj.noname THEN [p EXCEPT !.res = "INVALID_NAME"] ELSE p
    IN  root(OnDrive(v, path))

\* get_fileinfo of the entry in the window.
get_fileinfo(v, dj) ==
    LET e == EntryAt(v, dj)
    IN  [fname |-> e.n, dir |-> "DIR" \in e.attr, fsize |-> e.sz]

f_stat(v, path) ==
    LET told(p) == [v |-> p.v, res |-> p.res,
                    info |-> IF p.res = "OK" THEN get_fileinfo(p.v, p.dj) ELSE [fname |-> <<>>]]
    IN  told(Named(v, path))

f_opendir(v, path) ==
    LET opened(p) ==
            IF p.res = "NO_FILE" THEN [p EXCEPT !.res = "NO_PATH"]
            ELSE IF p.res # "OK" \/ p.dj.noname THEN p
            ELSE IF "DIR" \notin p.dj.attr THEN [p EXCEPT !.res = "NO_PATH"]
            ELSE [p EXCEPT !.dj = dir_sdi(p.v, p.dj, EntryAt(p.v, p.dj).cl)]
    IN  opened(OnDrive(v, path))

\* The next object of a directory; an empty name is the end.
f_readdir(v, dj) ==
    LET on(nxt, info) == [v |-> nxt.v, dj |-> nxt.dj, info |-> info]
        read(r) == IF r.res = "OK" THEN on(dir_next(r.v, r.dj, FALSE), get_fileinfo(r.v, r.dj))
                   ELSE [v |-> r.v, dj |-> r.dj, info |-> [fname |-> <<>>]]
    IN  read(dir_read(v, dj))

\* The count of free clusters, by a scan of the table when it is not known.
f_getfree(v) ==
    LET scan == FoldLeft(AtFat, v, [i \in 1 .. v.n_fatent |-> i - 1])
        nfree == Cardinality({c \in 0 .. v.n_fatent - 1 : AtFat(v, c).win[c % FPS] = 0})
    IN  IF v.free_clst <= v.n_fatent - 2 THEN [v |-> v, nclst |-> v.free_clst]
        ELSE [v |-> [scan EXCEPT !.free_clst = nfree,
                                 !.fsi_flag = IF @ = 0 THEN 1 ELSE @],
              nclst |-> nfree]

\* f_unlink once the object is found, and once it may be removed.
Unlinked(v, dj, dclst) ==
    LET freed(w) == IF dclst # 0 THEN remove_chain(w, dclst, 0) ELSE [v |-> w, res |-> "OK"]
        synced(r) == IF r.res = "OK" THEN [r EXCEPT !.v = sync_fs(@)] ELSE r
    IN  synced(freed(dir_remove(v, dj)))
UnlinkAt(p) ==
    LET dclst == EntryAt(p.v, p.dj).cl
        inside(r) == [v |-> r.v, res |-> IF r.res = "OK" THEN "DENIED" ELSE r.res]
        emptied(r) == IF r.res = "NO_FILE" THEN Unlinked(r.v, p.dj, dclst) ELSE inside(r)
    IN  IF p.res # "OK" THEN [v |-> p.v, res |-> p.res]
        ELSE IF "RDO" \in p.dj.attr THEN [v |-> p.v, res |-> "DENIED"]
        ELSE emptied(IF "DIR" \in p.dj.attr THEN dir_read(p.v, dir_sdi(p.v, NewDir, dclst))
                     ELSE [v |-> p.v, res |-> "NO_FILE"])
f_unlink(v, path) == UnlinkAt(Named(v, path))

\* The window, on the new table, gets its two dot entries.
Dotted(v, dcl, pcl) ==
    [v EXCEPT !.wflag = TRUE,
              !.win = [@ EXCEPT ![0] = Entry(Dot, {"DIR"}, dcl, 0),
                                ![1] = Entry(DotDot, {"DIR"}, pcl, 0)]]

\* f_mkdir with the place for the directory, its table and its entry.  What the
\* removal of the table returns is not looked at.
MkdirEntry(reg, fn, dcl) ==
    IF reg.res # "OK" THEN [v |-> remove_chain(reg.v, dcl, 0).v, res |-> reg.res]
    ELSE [v |-> sync_fs(SetEntry(reg.v, reg.dj, Entry(fn, {"DIR"}, dcl, 0))), res |-> "OK"]
MkdirTable(new, dj) ==
    IF new.cl = 0 THEN [v |-> remove_chain(new.v, 0, 0).v, res |-> "DENIED"]
    ELSE MkdirEntry(dir_register(Dotted(dir_clear(new.v, new.cl), new.cl, dj.sclust), dj),
                    dj.fn, new.cl)
MkdirAt(p) ==
    IF p.res = "NO_FILE" THEN MkdirTable(create_chain(p.v, 0), p.dj)
    ELSE [v |-> p.v, res |-> IF p.res = "OK" THEN "EXIST" ELSE p.res]
f_mkdir(v, path) == MkdirAt(OnDrive(v, path))

\* A directory that moved gets its new parent in its ".." entry.
MovedDots(v, djo, djn, e) ==
    LET w == move_window(v, clst2sect(v, e.cl))
    IN  IF "DIR" \in e.attr /\ djo.sclust # djn.sclust
        THEN IF w.win[1].n = DotDot
             THEN [w EXCEPT !.win = [@ EXCEPT ![1] = [@ EXCEPT !.cl = djn.sclust]],
                            !.wflag = TRUE]
             ELSE w
        ELSE v

\* f_rename with the old place and what follow_path says of the new one, and with
\* the new entry.
RenameEntry(reg, o, e) ==
    IF reg.res # "OK" THEN [v |-> reg.v, res |-> reg.res]
    ELSE [v |-> sync_fs(dir_remove(MovedDots(SetEntry(reg.v, reg.dj, e), o, reg.dj, e), o)),
          res |-> "OK"]
RenameTo(n, o, e) ==
    LET fn == IF n.dj.noname THEN o.fn ELSE n.dj.fn
    IN  IF n.res = "OK" /\ ~(n.dj.sclust = o.sclust /\ n.dj.dptr = o.dptr)
        THEN [v |-> n.v, res |-> "EXIST"]
        ELSE IF n.res \notin {"OK", "NO_FILE"} THEN [v |-> n.v, res |-> n.res]
        ELSE RenameEntry(dir_register(n.v, [n.dj EXCEPT !.fn = fn]), o,
                         [e EXCEPT !.n = fn, !.attr = IF "DIR" \in @ THEN @ ELSE @ \cup {"ARC"}])
RenameAt(o, path_new) ==
    IF o.res # "OK" THEN [v |-> o.v, res |-> o.res]
    ELSE RenameTo(follow_path(o.v, get_ldnumber(path_new).path), o.dj, EntryAt(o.v, o.dj))
f_rename(v, path_old, path_new) == RenameAt(Named(v, path_old), path_new)
=============================================================================

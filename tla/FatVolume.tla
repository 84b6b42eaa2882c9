----------------------------- MODULE FatVolume -----------------------------
(***************************************************************************)
(* The lower half of FatFs (src/src/drivers/fatfs/ff.c) as the kernel      *)
(* configures it: one volume, no long names, no exFAT, no locks.  Here are *)
(* the one-sector window, the allocation table, cluster chains, directory  *)
(* tables and paths; FatFs has the calls built on them.  A C function that *)
(* changes the volume is an operator from a volume to a volume; what the   *)
(* function does after a call is an operator on what the call returns.     *)
(*                                                                         *)
(* A volume is the FATFS object with its disk: disk maps sectors to their  *)
(* contents, win is the copy of sector winsect and wflag says it differs   *)
(* from the disk.  A sector of the table holds FPS entries; a sector of    *)
(* data holds SS units, a unit being a byte of a file or an entry of a     *)
(* directory.  disk_read and disk_write of diskio.c never report an error, *)
(* so the error paths for them are left out, as is the FAT12 encoding.     *)
(***************************************************************************)
EXTENDS Integers, Sequences, FiniteSets, SequencesExt

CONSTANTS
    SS,             \* units per sector
    FPS,            \* table entries per sector
    MAX_FAT16,      \* the largest number of clusters of a FAT16 volume
    MAX_DIR,        \* the largest number of entries of a directory
    BODY, EXT,      \* the widths of a name and of its extension: 8 and 3
    Sep, Illegal,   \* separators, and characters no name may have
    Upper           \* the characters with a capital, and which it is

ASSUME FatConstants ==
    /\ SS \in Nat \ {0} /\ FPS \in Nat \ {0} /\ MAX_FAT16 \in Nat
    /\ MAX_DIR \in Nat /\ BODY \in Nat /\ EXT \in Nat

EOC == 1000         \* an end-of-chain mark, above every cluster number
Unknown == 2000     \* 0xFFFFFFFF in free_clst and last_clst: not known
NoSector == -1

\* A zero byte; as a directory entry, the end of the table.
Zero == [b |-> 0]
Blank == [i \in 0 .. SS - 1 |-> Zero]

\* A directory entry: name, attributes, first cluster and size.
Entry(n, attr, cl, sz) == [n |-> n, attr |-> attr, cl |-> cl, sz |-> sz]
DDEM == <<"DDEM">>
Dot == <<".">>
DotDot == <<".", ".">>

-----------------------------------------------------------------------------
(***************************************************************************)
(* Slips that the properties must notice.                                  *)
(***************************************************************************)
WrittenBack_OneTable(v) == [v.disk EXCEPT ![v.winsect] = v.win]
Counted_Missed(v, ncl) == [v EXCEPT !.last_clst = ncl]
-----------------------------------------------------------------------------
(***************************************************************************)
(* The window.                                                             *)
(***************************************************************************)

InTable(v, s) == s \in v.fatbase .. v.fatbase + v.fsize - 1

\* The disk with the window written back, in the second table too.
WrittenBack(v) ==
    [s \in DOMAIN v.disk |->
        IF s = v.winsect \/ (/\ InTable(v, v.winsect) /\ v.n_fats = 2
                             /\ s = v.winsect + v.fsize)
        THEN v.win ELSE v.disk[s]]

sync_window(v) ==
    IF v.wflag THEN [v EXCEPT !.disk = WrittenBack(v), !.wflag = FALSE] ELSE v

move_window(v, sect) ==
    LET loaded(w) == [w EXCEPT !.winsect = sect, !.win = w.disk[sect]]
    IN  IF sect = v.winsect THEN v ELSE loaded(sync_window(v))

sync_fs_NoInfo(v) == sync_window(v)

\* The free count and the allocation hint are saved next to the boot sector.
sync_fs(v) ==
    LET w == sync_window(v)
        info == [free |-> v.free_clst, nxt |-> v.last_clst]
    IN  IF w.fsi_flag # 1 THEN w
        ELSE IF w.fs_type # 32 THEN [w EXCEPT !.fsi_flag = 0]
        ELSE [w EXCEPT !.fsi_flag = 0, !.win = info, !.winsect = w.volbase + 1,
                       !.disk = [@ EXCEPT ![w.volbase + 1] = info]]

-----------------------------------------------------------------------------
(***************************************************************************)
(* The allocation table and cluster chains.                                *)
(***************************************************************************)

Clusters(v) == 2 .. v.n_fatent - 1

clst2sect(v, clst) ==
    IF clst \in Clusters(v) THEN v.database + v.csize * (clst - 2) ELSE 0

\* The volume with the window on the entry of a cluster.
AtFat(v, clst) == move_window(v, v.fatbase + clst \div FPS)

\* The value of an entry; reading it moves the window.
get_fat(v, clst) ==
    IF clst \in Clusters(v) THEN AtFat(v, clst).win[clst % FPS] ELSE 1

put_fat(v, clst, val) ==
    [AtFat(v, clst) EXCEPT !.win = [@ EXCEPT ![clst % FPS] = val], !.wflag = TRUE]

\* Clusters clst and after it marked free and counted, up to the end, a free cluster
\* or an impossible entry.
RECURSIVE FreeChain(_, _)
FreeChain(v, clst) ==
    LET nxt == get_fat(v, clst)
        known == v.free_clst < v.n_fatent - 2
        w == [put_fat(v, clst, 0) EXCEPT
                 !.free_clst = IF known THEN @ + 1 ELSE @,
                 !.fsi_flag = IF known /\ @ = 0 THEN 1 ELSE @]
    IN  IF nxt <= 1
        THEN [v |-> AtFat(v, clst), res |-> IF nxt = 0 THEN "OK" ELSE "INT_ERR"]
        ELSE IF nxt < v.n_fatent THEN FreeChain(w, nxt) ELSE [v |-> w, res |-> "OK"]

\* Frees the chain from clst on and ends what is before it, pclst, if anything is.
remove_chain(v, clst, pclst) ==
    IF clst \notin Clusters(v) THEN [v |-> v, res |-> "INT_ERR"]
    ELSE FreeChain(IF pclst # 0 THEN put_fat(v, pclst, EOC) ELSE v, clst)

\* Where the search for the first cluster of a chain starts: the last one given.
SearchStart(v) == IF v.last_clst \in 1 .. v.n_fatent - 1 THEN v.last_clst ELSE 1

\* The clusters the search looks at when it starts behind scl: all, once around.
SearchOrder(v, scl) ==
    [i \in 1 .. v.n_fatent - 1 - scl |-> scl + i]
        \o [i \in 1 .. scl - 1 |-> i + 1]

\* The new cluster is taken out of the free count.
Counted(v, ncl) ==
    LET known == v.free_clst \in 1 .. v.n_fatent - 2
    IN  [v EXCEPT !.last_clst = ncl,
                  !.free_clst = IF known THEN @ - 1 ELSE @,
                  !.fsi_flag = IF known /\ @ = 0 THEN 1 ELSE @]

\* create_chain with cluster ncl found for it.
Linked(v, clst, ncl) ==
    LET link(w) == IF clst # 0 THEN put_fat(w, clst, ncl) ELSE w
    IN  Counted(link(put_fat(v, ncl, EOC)), ncl)

\* The next free cluster in the order cs, and the window where the search ends.
FindFree(v, cs) ==
    LET upto(k) == [v |-> FoldLeft(AtFat, v, SubSeq(cs, 1, k)),
                    cl |-> IF get_fat(v, cs[k]) = 0 THEN cs[k] ELSE 0]
    IN  upto(Min({i \in 1 .. Len(cs) : get_fat(v, cs[i]) = 0 \/ i = Len(cs)}))

\* create_chain with a search that starts behind scl.  LinkedTo has what it found.
LinkedTo(clst, r) == IF r.cl = 0 THEN r ELSE [r EXCEPT !.v = Linked(@, clst, r.cl)]
Searched(v, clst, scl) == LinkedTo(clst, FindFree(v, SearchOrder(v, scl)))

\* The chain that ends at clst gets the cluster behind it, adj, if that is free.  The
\* window is on the entry of adj.
Behind(v, clst) == IF clst + 1 >= v.n_fatent THEN 2 ELSE clst + 1
Stretched(v, clst, adj) ==
    IF v.win[adj % FPS] = 0 THEN [v |-> Linked(v, clst, adj), cl |-> adj]
    ELSE Searched(v, clst, IF v.last_clst \in Clusters(v) THEN v.last_clst ELSE clst)

\* create_chain where nxt follows clst: only an end is stretched.
Extended(v, clst, nxt) ==
    IF nxt < v.n_fatent THEN [v |-> v, cl |-> IF nxt < 2 THEN 1 ELSE nxt]
    ELSE IF v.free_clst = 0 THEN [v |-> v, cl |-> 0]
    ELSE IF clst = 0 THEN Searched(v, 0, SearchStart(v))
    ELSE Stretched(AtFat(v, Behind(v, clst)), clst, Behind(v, clst))

\* Stretches the chain that ends at clst, or starts one when clst is 0.  Cluster 0
\* is returned when the volume is full.
create_chain(v, clst) ==
    Extended(IF clst = 0 THEN v ELSE AtFat(v, clst), clst,
             IF clst = 0 THEN EOC ELSE get_fat(v, clst))

-----------------------------------------------------------------------------
(***************************************************************************)
(* Directory tables.  A directory object dj has the table's first cluster  *)
(* sclust (0 is the root), the offset dptr and sector sect of an entry     *)
(* (sect 0: past the end), its cluster clust (0: the fixed root of FAT16), *)
(* the name fn it looks for and the attributes of what it found.           *)
(***************************************************************************)

dir_clear(v, clst) ==
    LET w == sync_window(v)
        s == clst2sect(v, clst)
    IN  [w EXCEPT !.winsect = s, !.win = Blank,
                  !.disk = [x \in DOMAIN @ |-> IF x \in s .. s + v.csize - 1 THEN Blank ELSE @[x]]]

\* Rewinds the object to the first entry of the directory at sclust.
dir_sdi(v, dj, sclust) ==
    LET clst == IF sclust = 0 /\ v.fs_type = 32 THEN v.dirbase ELSE sclust
    IN  [dj EXCEPT !.sclust = sclust, !.dptr = 0, !.clust = clst,
                   !.sect = IF clst = 0 THEN v.dirbase ELSE clst2sect(v, clst)]

\* dir_next on the entry at sector sect of cluster clust, and past the end or
\* after an error, where the object is not used again.
OnNext(v, dj, clust, sect) ==
    [v |-> v, res |-> "OK",
     dj |-> [dj EXCEPT !.dptr = @ + 1, !.clust = clust, !.sect = sect]]
AtDirEnd(v, dj, res) == [v |-> v, dj |-> [dj EXCEPT !.sect = 0], res |-> res]

\* dir_next where the table needs another cluster: nxt, or a new one.
NextCluster(v, dj, nxt, stretch) ==
    LET grown(new) == IF new.cl = 0 THEN AtDirEnd(new.v, dj, "DENIED")
                      ELSE OnNext(dir_clear(new.v, new.cl), dj, new.cl, clst2sect(v, new.cl))
    IN  IF nxt <= 1 THEN AtDirEnd(v, dj, "INT_ERR")
        ELSE IF nxt < v.n_fatent THEN OnNext(v, dj, nxt, clst2sect(v, nxt))
        ELSE IF stretch THEN grown(create_chain(v, dj.clust))
        ELSE AtDirEnd(v, dj, "NO_FILE")

\* The next entry; stretch extends the table with a cleared cluster.
dir_next(v, dj, stretch) ==
    LET ofs == dj.dptr + 1
    IN  CASE ofs >= MAX_DIR \/ dj.sect = 0 -> AtDirEnd(v, dj, "NO_FILE")
          [] ofs % SS # 0 -> OnNext(v, dj, dj.clust, dj.sect)
          [] dj.clust = 0 /\ ofs >= v.n_rootdir -> AtDirEnd(v, dj, "NO_FILE")
          [] dj.clust = 0 \/ (ofs \div SS) % v.csize # 0 -> OnNext(v, dj, dj.clust, dj.sect + 1)
          [] OTHER -> NextCluster(AtFat(v, dj.clust), dj, get_fat(v, dj.clust), stretch)

\* The entry dj points at: whatever the window has there.
EntryAt(v, dj) == v.win[dj.dptr % SS]
SetEntry(v, dj, e) ==
    [v EXCEPT !.win = [@ EXCEPT ![dj.dptr % SS] = e], !.wflag = TRUE]

\* What the three loops over a table stop at: the wanted name (dir_find), any
\* object (dir_read) or an entry to use (dir_alloc).
Stops(u, want, fn) ==
    CASE want = "find" -> u # Zero /\ "VOL" \notin u.attr /\ u.n = fn
      [] want = "read" -> u # Zero /\ u.n \notin {DDEM, Dot, DotDot} /\ "VOL" \notin u.attr
      [] want = "free" -> u = Zero \/ u.n = DDEM

RECURSIVE Scan(_, _, _)
ScanAt(v, dj, want) ==
    LET u == EntryAt(v, dj)
        seen == [dj EXCEPT !.attr = IF u = Zero THEN {} ELSE u.attr]
        on(r) == IF r.res = "OK" THEN Scan(r.v, r.dj, want) ELSE r
    IN  IF Stops(u, want, dj.fn) THEN [v |-> v, dj |-> seen, res |-> "OK"]
        ELSE IF u = Zero THEN [v |-> v, dj |-> dj, res |-> "NO_FILE"]
        ELSE on(dir_next(v, seen, want = "free"))
Scan(v, dj, want) ==
    IF dj.sect = 0 THEN [v |-> v, dj |-> dj, res |-> "NO_FILE"]
    ELSE ScanAt(move_window(v, dj.sect), dj, want)

dir_find(v, dj, sclust) == Scan(v, dir_sdi(v, dj, sclust), "find")

dir_read(v, dj) ==
    LET end(r) == IF r.res = "OK" THEN r ELSE [r EXCEPT !.dj = [@ EXCEPT !.sect = 0]]
    IN  end(Scan(v, dj, "read"))

dir_alloc(v, dj) ==
    LET end(r) == IF r.res = "NO_FILE" THEN [r EXCEPT !.res = "DENIED"] ELSE r
    IN  end(Scan(v, dir_sdi(v, dj, dj.sclust), "free"))

\* A clean entry with the name of dj.
dir_register(v, dj) ==
    LET filled(w, at) == SetEntry(move_window(w, at.sect), at, Entry(dj.fn, {}, 0, 0))
        put(r) == IF r.res = "OK" THEN [r EXCEPT !.v = filled(@, r.dj)] ELSE r
    IN  put(dir_alloc(v, dj))

dir_remove(v, dj) ==
    LET w == move_window(v, dj.sect)
    IN  SetEntry(w, dj, [EntryAt(w, dj) EXCEPT !.n = DDEM])

-----------------------------------------------------------------------------
(***************************************************************************)
(* Paths: sequences of characters.                                         *)
(***************************************************************************)

Capital(s) == [i \in DOMAIN s |-> IF s[i] \in DOMAIN Upper THEN Upper[s[i]] ELSE s[i]]

\* The length of the longest prefix of s without a character of set.
RunOf(s, set) ==
    CHOOSE n \in 0 .. Len(s) :
        /\ \A i \in 1 .. n : s[i] \notin set
        /\ n < Len(s) => s[n + 1] \in set

Skip(s, n) == SubSeq(s, n + 1, Len(s))

\* Drops separators at the head of a path.
Strip(path) == Skip(path, RunOf(path, {path[i] : i \in DOMAIN path} \ Sep))

\* The first segment in directory form: at most BODY characters, a dot and at
\* most EXT, in capitals; a trailing dot disappears.
create_name(path) ==
    LET seg == SubSeq(path, 1, RunOf(path, Sep))
        d == RunOf(seg, {"."})
        body == SubSeq(seg, 1, d)
        ext == Skip(seg, d + 1)
        rest == Strip(Skip(path, Len(seg)))
    IN  [res |-> IF /\ seg # <<>> /\ Len(body) <= BODY /\ Len(ext) <= EXT
                    /\ \A i \in DOMAIN ext : ext[i] # "."
                    /\ \A i \in DOMAIN seg : seg[i] \notin Illegal
                 THEN "OK" ELSE "INVALID_NAME",
         fn |-> Capital(body) \o (IF ext = <<>> THEN <<>> ELSE <<".">> \o Capital(ext)),
         last |-> rest = <<>>, rest |-> rest]

\* The drive prefix, if there is one, has to be "0:".
get_ldnumber(path) ==
    LET n == RunOf(path, {":"})
    IN  IF n = Len(path) THEN [vol |-> 0, path |-> path]
        ELSE IF SubSeq(path, 1, n) = <<"0">> THEN [vol |-> 0, path |-> Skip(path, n + 1)]
        ELSE [vol |-> -1, path |-> path]

\* A directory object before it is used.
NewDir == [sclust |-> 0, dptr |-> 0, clust |-> 0, sect |-> 0, fn |-> <<>>,
           attr |-> {}, noname |-> FALSE]

\* Follows the segments of path from the directory at sclust.
RECURSIVE Follow(_, _, _)
FollowName(v, nm, sclust) ==
    LET found(r) ==
            IF r.res = "NO_FILE" /\ ~nm.last THEN [r EXCEPT !.res = "NO_PATH"]
            ELSE IF r.res # "OK" \/ nm.last THEN r
            ELSE IF "DIR" \notin r.dj.attr THEN [r EXCEPT !.res = "NO_PATH"]
            ELSE Follow(r.v, nm.rest, EntryAt(r.v, r.dj).cl)
    IN  IF nm.res # "OK" THEN [v |-> v, dj |-> NewDir, res |-> nm.res]
        ELSE found(dir_find(v, [NewDir EXCEPT !.fn = nm.fn], sclust))
Follow(v, path, sclust) == FollowName(v, create_name(path), sclust)

follow_path(v, path) ==
    IF Strip(path) = <<>>
    THEN [v |-> v, dj |-> dir_sdi(v, [NewDir EXCEPT !.noname = TRUE], 0), res |-> "OK"]
    ELSE Follow(v, Strip(path), 0)

\* Every call on a path starts at its drive, which is mounted.
OnDrive(v, path) ==
    LET d == get_ldnumber(path)
    IN  IF d.vol < 0 THEN [v |-> v, dj |-> NewDir, res |-> "INVALID_DRIVE"]
        ELSE follow_path(v, d.path)

-----------------------------------------------------------------------------
(***************************************************************************)
(* Mounting.  The boot sector is a record of the fields of its BPB; sector *)
(* 0 may be a partition table instead.                                     *)
(***************************************************************************)

IsVbr(x) == "bpb" \in DOMAIN x
IsMbr(x) == "parts" \in DOMAIN x

\* The boot sector of the volume on a disk, or 0 and no sector.
find_volume(disk) ==
    LET parts == disk[0].parts
        good == {i \in 1 .. Len(parts) : parts[i] # 0 /\ IsVbr(disk[parts[i]])}
    IN  IF IsVbr(disk[0]) THEN 0
        ELSE IF ~IsMbr(disk[0]) \/ good = {} THEN NoSector
        ELSE parts[CHOOSE i \in good : \A j \in good : i <= j]

\* The derived fields of the FATFS object for boot sector b at sector bsect.
Geometry(b, bsect) ==
    LET fasize == b.fsize * b.n_fats
        sysect == b.rsvd + fasize + b.n_rootdir \div SS
        nclst == (b.tsect - sysect) \div b.csize
        type == IF nclst <= MAX_FAT16 THEN 16 ELSE 32
    IN  [ok |-> /\ b.n_fats \in {1, 2} /\ b.csize \in {1, 2, 4}
                /\ b.n_rootdir % SS = 0 /\ b.rsvd # 0 /\ b.tsect >= sysect /\ nclst # 0
                /\ (type = 32) = (b.n_rootdir = 0)
                /\ b.fsize * FPS >= nclst + 2,
         fs |-> [fs_type |-> type, csize |-> b.csize, n_fats |-> b.n_fats, fsize |-> b.fsize,
                 n_rootdir |-> b.n_rootdir, n_fatent |-> nclst + 2,
                 volbase |-> bsect, fatbase |-> bsect + b.rsvd, database |-> bsect + sysect,
                 dirbase |-> IF type = 32 THEN b.root ELSE bsect + b.rsvd + fasize]]

\* The FATFS object read from the disk, with the next volume id.
mount_volume(disk, id) ==
    LET bsect == find_volume(disk)
        g == Geometry(disk[bsect].bpb, bsect)
        info == disk[bsect + 1]
        fsi == g.fs.fs_type = 32 /\ disk[bsect].bpb.fsinfo = 1
        trusted == fsi /\ "free" \in DOMAIN info
    IN  IF bsect = NoSector THEN [res |-> "NO_FILESYSTEM"]
        ELSE IF ~g.ok THEN [res |-> "NO_FILESYSTEM"]
        ELSE [res |-> "OK",
              v |-> g.fs @@ [disk |-> disk, id |-> id + 1, wflag |-> FALSE,
                             winsect |-> IF fsi THEN bsect + 1 ELSE bsect,
                             win |-> IF fsi THEN info ELSE disk[bsect],
                             fsi_flag |-> IF fsi THEN 0 ELSE 128,
                             free_clst |-> IF trusted THEN info.free ELSE Unknown,
                             last_clst |-> IF trusted THEN info.nxt ELSE Unknown]]
=============================================================================

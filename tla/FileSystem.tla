----------------------------- MODULE FileSystem -----------------------------
(***************************************************************************)
(* The mounted volume in use: the calls of FatFs and the system calls of   *)
(* src/src/syscall/sys_file.c as steps.  The kernel makes a call with      *)
(* interrupts off, so a call is one step.  The kernel only reads; the      *)
(* calls that write are the rest of the library it is built with.          *)
(*                                                                         *)
(* ref is what the volume is meant to hold, kept beside it: the objects by *)
(* full name and the bytes of each file, None where a file was extended    *)
(* and not written.  Without FF_FS_LOCK the caller has to see to it that   *)
(* no object is opened twice, removed or renamed while it is open.         *)
(***************************************************************************)
EXTENDS FatFs

CONSTANTS
    None, NoDrive,
    Fil,            \* the file objects
    NameOf,         \* the full name each path means, a sequence of names; <<None>>
                    \* for an invalid one and <<NoDrive>> for a drive there is not
    Cases           \* what is on the disk at first and which calls are made: the
                    \* fields disk, ref and use

\* The fields of use: files, how many file objects are open at once; opened,
\* looked and moved, the paths given to f_open, to the calls that look one up and
\* to f_mkdir and f_rename; modes, lengths and offsets, the arguments of f_open,
\* of transfers and of f_lseek; calls, the bound on the number of calls.

VARIABLES
    use,            \* which calls are made
    vol,            \* the FATFS object and its disk
    fil,            \* the file objects
    held,           \* the full name each open file object was opened by
    ref,            \* what the volume should hold: full name -> [dir, rdo, data]
    lost,           \* clusters cut off by moving a directory below itself
    torn,           \* a call failed half-way and is not on the disk yet
    wrong,          \* the calls that did not answer as ref says
    calls           \* how many calls were made

vars == <<use, vol, fil, held, ref, lost, torn, wrong, calls>>

-----------------------------------------------------------------------------
(***************************************************************************)
(* The reference.                                                          *)
(***************************************************************************)

IsDir(n) == n = <<>> \/ (n \in DOMAIN ref /\ ref[n].dir)

\* What looking up name n gives.
Lookup(n) ==
    IF n \in {<<>>, <<None>>} THEN "INVALID_NAME"
    ELSE IF n = <<NoDrive>> THEN "INVALID_DRIVE"
    ELSE IF ~IsDir(Front(n)) THEN "NO_PATH"
    ELSE IF n \in DOMAIN ref THEN "OK" ELSE "NO_FILE"

Below(n, m) == Len(m) > Len(n) /\ SubSeq(m, 1, Len(n)) = n
Node(dir, data) == [dir |-> dir, rdo |-> FALSE, data |-> data]
With(n, node) == [m \in DOMAIN ref \cup {n} |-> IF m = n THEN node ELSE ref[m]]
Without(n) == [m \in DOMAIN ref \ {n} |-> ref[m]]

\* ref after the object n, with all that is below it, got name to.
Renamed(n, to) ==
    LET new(m) == IF m = n \/ Below(n, m) THEN to \o Skip(m, Len(n)) ELSE m
        kept == IF Below(n, to) THEN {m \in DOMAIN ref : m # n /\ ~Below(n, m)} ELSE DOMAIN ref
    IN  [x \in {new(m) : m \in kept} |-> ref[CHOOSE m \in kept : new(m) = x]]

\* data with bytes written from offset at on.
Patched(data, at, bytes) ==
    [i \in 1 .. (IF Len(data) < at + Len(bytes) THEN at + Len(bytes) ELSE Len(data)) |->
        IF i - at \in DOMAIN bytes THEN bytes[i - at] ELSE data[i]]

\* data cut or, with bytes nobody wrote, extended to length n.
Sized(data, n) == [i \in 1 .. n |-> IF i \in DOMAIN data THEN data[i] ELSE None]

-----------------------------------------------------------------------------
(***************************************************************************)
(* The contents of the volume, through the window.                         *)
(***************************************************************************)

SectorOf(v, s) == IF s = v.winsect THEN v.win ELSE v.disk[s]
Fat(v) == [c \in Clusters(v) |-> SectorOf(v, v.fatbase + c \div FPS)[c % FPS]]
FreeClusters(v) == {c \in Clusters(v) : Fat(v)[c] = 0}

\* The clusters of the chain from c on; a chain that runs into itself, a free
\* cluster or a wrong number ends with 0.
RECURSIVE Chain(_, _, _)
Chain(fat, c, n) ==
    IF c = EOC THEN <<>>
    ELSE IF c \notin DOMAIN fat \/ n = 0 THEN <<0>>
    ELSE <<c>> \o Chain(fat, fat[c], n - 1)

ChainFrom(v, c) == Chain(Fat(v), c, Cardinality(Clusters(v)))

\* The sectors of the table of the directory at c (0: the root).
TableOf(v, c) ==
    LET cs == ChainFrom(v, IF c = 0 THEN v.dirbase ELSE c)
    IN  IF c = 0 /\ v.fs_type = 16
        THEN [i \in 1 .. v.n_rootdir \div SS |-> v.dirbase + i - 1]
        ELSE FlattenSeq([i \in DOMAIN cs |->
                            [k \in 1 .. v.csize |-> clst2sect(v, cs[i]) + k - 1]])

\* Its entries up to the end mark, deleted ones and labels left out.
EntriesOf(v, c) ==
    LET t == TableOf(v, c)
        all == FlattenSeq([i \in DOMAIN t |-> [k \in 1 .. SS |-> SectorOf(v, t[i])[k - 1]]])
    IN  SelectSeq(SubSeq(all, 1, RunOf(all, {Zero})),
                  LAMBDA e : e.n # DDEM /\ "VOL" \notin e.attr)

Objects(v, c) == SelectSeq(EntriesOf(v, c), LAMBDA e : e.n \notin {Dot, DotDot})

\* Every object of the volume as <<full name, parent's cluster, entry>>, at most
\* depth levels down.
RECURSIVE Walk(_, _, _, _)
Walk(v, c, name, depth) ==
    LET es == Objects(v, c)
    IN  UNION {{<<name \o <<es[i].n>>, c, es[i]>>}
                  \cup (IF "DIR" \in es[i].attr /\ depth > 0
                        THEN Walk(v, es[i].cl, name \o <<es[i].n>>, depth - 1) ELSE {})
               : i \in DOMAIN es}

MaxDepth == 4
Everything(v) == Walk(v, 0, <<>>, MaxDepth)

\* The open file object of name n, if there is one.
HeldBy(n) == {f \in Fil : fil[f].open /\ fil[f].id = vol.id /\ held[f] = n}

\* First cluster and size of an object: those of the open file object, if any.
StartOf(x) == IF HeldBy(x[1]) = {} THEN x[3].cl ELSE fil[CHOOSE f \in HeldBy(x[1]) : TRUE].sclust
SizeOf(x) == IF HeldBy(x[1]) = {} THEN x[3].sz ELSE fil[CHOOSE f \in HeldBy(x[1]) : TRUE].objsize

\* The bytes of a file, with the changes its cache still has.
BytesOf(x) ==
    LET cs == ChainFrom(vol, StartOf(x))
        per == ClusterBytes(vol)
        sect(i) == clst2sect(vol, cs[((i - 1) \div per) + 1]) + (((i - 1) % per) \div SS)
        dirty == {f \in HeldBy(x[1]) : fil[f].dirty}
        at(s) == IF \E f \in dirty : fil[f].sect = s
                 THEN fil[CHOOSE f \in dirty : TRUE].buf ELSE vol.disk[s]
    IN  [i \in 1 .. SizeOf(x) |-> at(sect(i))[(i - 1) % SS]]

-----------------------------------------------------------------------------
(***************************************************************************)
(* Steps.                                                                  *)
(***************************************************************************)

\* f_mount of a disk that has not been mounted before.
Init ==
    \E c \in Cases :
        LET m == mount_volume(c.disk, 0)
        IN  /\ m.res = "OK"
            /\ use = c.use
            /\ vol = m.v
            /\ ref = c.ref
            /\ fil = [f \in Fil |-> Closed]
            /\ held = [f \in Fil |-> <<>>]
            /\ lost = {}
            /\ torn = FALSE
            /\ wrong = {}
            /\ calls = 0

\* A read returned bytes where ref has expected.
Agree(bytes, expected) ==
    /\ Len(bytes) = Len(expected)
    /\ \A i \in DOMAIN expected : expected[i] \in {None, bytes[i]}

\* A call made now returns res, where ref allows want; right says whether what
\* else it returns is what ref says.
Returns(call, res, want, right) ==
    /\ calls' = calls + 1 /\ use' = use
    /\ wrong' = IF res \in want /\ right THEN wrong ELSE wrong \cup {<<call, res>>}

\* No object at, above or below n is open.
Unheld(n) == \A f \in Fil : fil[f].open => held[f] # n /\ ~Below(n, held[f])

\* How creating an object n that takes need clusters of its own must end: refused
\* exactly when the parent's table has no entry to use and may not grow, or the
\* free clusters do not suffice for the object and the table.
Made(n, need) ==
    LET c == IF Len(n) = 1 THEN 0
             ELSE (CHOOSE x \in Everything(vol) : x[1] = Front(n))[3].cl
        table == TableOf(vol, c)
        full == \A i \in DOMAIN table, k \in 0 .. SS - 1 :
                    LET e == SectorOf(vol, table[i])[k] IN e # Zero /\ e.n # DDEM
        fixed == (c = 0 /\ vol.fs_type = 16) \/ Len(table) * SS >= MAX_DIR
        left == Cardinality(FreeClusters(vol)) - need
    IN  IF left < 0 \/ (full /\ (fixed \/ left = 0)) THEN {"DENIED"} ELSE {"OK"}

Open(f, path, mode) ==
    LET n == NameOf[path]
        create == mode.how # "existing"
        want == IF Lookup(n) = "NO_FILE" /\ create
                THEN Made(n, 0)
                ELSE IF Lookup(n) # "OK" THEN {Lookup(n)}
                ELSE IF ref[n].dir THEN {IF create THEN "DENIED" ELSE "NO_FILE"}
                ELSE IF ref[n].rdo /\ (create \/ mode.w) THEN {"DENIED"}
                ELSE IF mode.how = "new" THEN {"EXIST"} ELSE {"OK"}
        outcome(r) ==
            /\ vol' = r.v
            /\ fil' = [fil EXCEPT ![f] = r.fp]
            /\ held' = [held EXCEPT ![f] = IF r.res = "OK" THEN n ELSE <<>>]
            /\ ref' = IF r.res = "OK" /\ (mode.how = "always" \/ n \notin DOMAIN ref)
                      THEN With(n, Node(FALSE, <<>>)) ELSE ref
            /\ Returns("open", r.res, want, TRUE)
    IN  /\ calls < use.calls
        /\ ~fil[f].open /\ Unheld(n)
        /\ Cardinality({g \in Fil : fil[g].open}) < use.files
        /\ outcome(f_open(vol, path, mode))
        /\ UNCHANGED <<lost, torn>>

\* The calls on file object f: r is what the call returns, data the file's bytes
\* after it.
FileCall(f, call, r, allowed, data, right) ==
    LET ok == fil[f].id = vol.id
    IN  /\ calls < use.calls /\ fil[f].open
        /\ vol' = r.v
        /\ fil' = [fil EXCEPT ![f] = r.fp]
        /\ ref' = IF r.res = "OK" THEN [ref EXCEPT ![held[f]] = [@ EXCEPT !.data = data]] ELSE ref
        /\ Returns(call, r.res, {IF ~ok THEN "INVALID_OBJECT" ELSE IF allowed THEN "OK" ELSE "DENIED"},
                   r.res = "OK" => right)
        /\ UNCHANGED <<held, lost, torn>>

DataOf(f) == ref[held[f]].data

Read(f, n) ==
    LET last == IF Len(DataOf(f)) < fil[f].fptr + n THEN Len(DataOf(f)) ELSE fil[f].fptr + n
        outcome(r) == FileCall(f, "read", r, fil[f].r, DataOf(f),
                               Agree(r.data, SubSeq(DataOf(f), fil[f].fptr + 1, last)))
    IN  outcome(f_read(vol, fil[f], n))

\* The bytes of a call differ from those of every other call.
Write(f, n) ==
    LET bytes == [i \in 1 .. n |-> [b |-> calls + 1]]
        outcome(r) ==
            FileCall(f, "write", r, fil[f].w,
                     Patched(DataOf(f), fil[f].fptr, SubSeq(bytes, 1, n - r.left)),
                     r.left > 0 => FreeClusters(r.v) = {})
    IN  outcome(f_write(vol, fil[f], bytes))

Lseek(f, to) ==
    LET size == Len(DataOf(f))
        outcome(r, at) ==
            FileCall(f, "lseek", r, TRUE, Sized(DataOf(f), IF at > size THEN at ELSE size),
                     \/ at = to
                     \/ at = size /\ to > size /\ ~fil[f].w
                     \/ at < to /\ FreeClusters(r.v) = {})
        sought(r) == outcome(r, r.fp.fptr)
    IN  sought(f_lseek(vol, fil[f], to))

Truncate(f) ==
    FileCall(f, "truncate", f_truncate(vol, fil[f]), fil[f].w,
             SubSeq(DataOf(f), 1, fil[f].fptr), TRUE)

Sync(f) == FileCall(f, "sync", f_sync(vol, fil[f]), TRUE, DataOf(f), TRUE)
Close(f) == FileCall(f, "close", f_close(vol, fil[f]), TRUE, DataOf(f), TRUE)

\* Calls on paths, which need no file object.
PathCall(call, r, want, after, right) ==
    /\ calls < use.calls
    /\ vol' = r.v
    /\ ref' = IF r.res = "OK" THEN after ELSE ref
    /\ UNCHANGED <<fil, held>>
    /\ Returns(call, r.res, want, right)

Unlink(path) ==
    LET n == NameOf[path]
    IN  /\ Unheld(n)
        /\ PathCall("unlink", f_unlink(vol, path),
                    {IF Lookup(n) # "OK" THEN Lookup(n)
                     ELSE IF ref[n].rdo \/ \E m \in DOMAIN ref : Below(n, m)
                     THEN "DENIED" ELSE "OK"},
                    Without(n), TRUE)
        /\ UNCHANGED <<lost, torn>>

Mkdir(path) ==
    LET n == NameOf[path]
        want == IF Lookup(n) = "OK" \/ n = <<>> THEN {"EXIST"}
                ELSE IF Lookup(n) # "NO_FILE" THEN {Lookup(n)}
                ELSE Made(n, 1)
        outcome(r) == /\ PathCall("mkdir", r, want, With(n, Node(TRUE, <<>>)), TRUE)
                      /\ torn' = ((torn \/ r.res = "DENIED") /\ r.v.wflag)
    IN  outcome(f_mkdir(vol, path)) /\ UNCHANGED lost

\* The code does not test that a directory is moved below itself: the directory
\* and all it has are cut off the tree.
Rename(from, to) ==
    LET o == NameOf[from]
        n == NameOf[to]
        want == IF Lookup(o) # "OK" THEN {Lookup(o)}
                ELSE IF n = <<>> \/ (Lookup(n) = "OK" /\ o # n) THEN {"EXIST"}
                ELSE IF Lookup(n) \notin {"OK", "NO_FILE"} THEN {Lookup(n)}
                ELSE Made(n, 0)
        cut == {x \in Everything(vol) : (x[1] = o \/ Below(o, x[1])) /\ StartOf(x) # 0}
        outcome(r) ==
            /\ PathCall("rename", r, want, Renamed(o, n), TRUE)
            /\ lost' = IF r.res = "OK" /\ Below(o, n)
                       THEN lost \cup UNION {Range(ChainFrom(r.v, StartOf(x))) : x \in cut}
                       ELSE lost
    IN  Unheld(o) /\ outcome(f_rename(vol, from, to)) /\ UNCHANGED torn

GetFree ==
    LET outcome(r) == PathCall("getfree", [v |-> r.v, res |-> "OK"], {"OK"}, ref,
                               r.nclst = Cardinality(FreeClusters(vol)))
    IN  outcome(f_getfree(vol)) /\ UNCHANGED <<lost, torn>>

\* A mount when everything is on the disk: open file objects become invalid.
Remount ==
    LET m == mount_volume(vol.disk, vol.id)
    IN  /\ ~torn /\ \A f \in Fil : fil[f].open => ~fil[f].modified
        /\ PathCall("mount", [v |-> m.v, res |-> m.res], {"OK"}, ref, TRUE)
        /\ UNCHANGED <<lost, torn>>

-----------------------------------------------------------------------------
(***************************************************************************)
(* The system calls.                                                       *)
(***************************************************************************)

\* sys_file_read: at most max_len bytes of the whole file, or -1.
sys_file_read(v, path, max_len) ==
    LET done(r) == [v |-> f_close(r.v, r.fp).v, data |-> r.data,
                    n |-> IF r.res = "OK" THEN Len(r.data) ELSE -1]
        opened(o) ==
            IF o.res # "OK" THEN [v |-> o.v, n |-> -1, data |-> <<>>]
            ELSE done(f_read(o.v, o.fp, Min({o.fp.objsize, max_len})))
    IN  opened(f_open(v, path, [r |-> TRUE, w |-> FALSE, how |-> "existing"]))

\* sys_stat: the size and whether it is a directory, or -1.
sys_stat(v, path) ==
    LET told(r) == IF r.res # "OK" THEN [v |-> r.v, n |-> -1, stat |-> <<>>]
                   ELSE [v |-> r.v, n |-> 0, stat |-> <<r.info.fsize, r.info.dir>>]
    IN  told(f_stat(v, path))

\* The loop of sys_read_dir_entry: reads i + 1 entries.
RECURSIVE ReadEntries(_, _, _)
ReadEntries(v, dj, i) ==
    LET on(r) == IF i = 0 \/ r.info.fname = <<>> THEN r ELSE ReadEntries(r.v, r.dj, i - 1)
    IN  on(f_readdir(v, dj))

\* sys_read_dir_entry: -1 without the directory, -2 past its end.
sys_read_dir_entry(v, path, index) ==
    LET read(r) == [v |-> r.v, n |-> IF r.info.fname = <<>> THEN -2 ELSE 0, name |-> r.info.fname]
        opened(o) == IF o.res # "OK" THEN [v |-> o.v, n |-> -1, name |-> <<>>]
                     ELSE read(ReadEntries(o.v, o.dj, index))
    IN  opened(f_opendir(v, path))

SysFileRead(path, max_len) ==
    LET n == NameOf[path]
        right(r) ==
            IF Lookup(n) # "OK" THEN r.n = -1
            ELSE IF ref[n].dir THEN r.n = -1
            ELSE /\ r.n = Len(r.data)
                 /\ Agree(r.data, SubSeq(ref[n].data, 1, Min({Len(ref[n].data), max_len})))
        outcome(r) ==
            PathCall("sys_file_read", [v |-> r.v, res |-> "OK"], {"OK"}, ref, right(r))
    IN  Unheld(n) /\ outcome(sys_file_read(vol, path, max_len)) /\ UNCHANGED <<lost, torn>>

SysStat(path) ==
    LET n == NameOf[path]
        outcome(r) ==
            PathCall("sys_stat", [v |-> r.v, res |-> "OK"], {"OK"}, ref,
                     IF Lookup(n) # "OK" THEN r.n = -1
                     ELSE r.stat = <<Len(ref[n].data), ref[n].dir>>)
    IN  Unheld(n) /\ outcome(sys_stat(vol, path)) /\ UNCHANGED <<lost, torn>>

\* A program lists a directory by index until -2; the names come out once each,
\* in the order of the table.
SysReadDir(path) ==
    LET n == NameOf[path]
        inside == IF IsDir(n)
                  THEN {m \in DOMAIN ref : Len(m) = Len(n) + 1 /\ SubSeq(m, 1, Len(n)) = n}
                  ELSE {}
        right(all, listed) == /\ {all[i].name : i \in listed} = {Last(m) : m \in inside}
                              /\ Cardinality(listed) = Cardinality(inside)
        outcome(all) ==
            PathCall("sys_read_dir_entry", [v |-> all[MAX_DIR].v, res |-> "OK"], {"OK"}, ref,
                     right(all, {i \in DOMAIN all : all[i].n = 0}))
    IN  /\ outcome([i \in 0 .. MAX_DIR |-> sys_read_dir_entry(vol, path, i)])
        /\ UNCHANGED <<lost, torn>>

Next ==
    \/ \E f \in Fil : \/ \E p \in use.opened, mode \in use.modes : Open(f, p, mode)
                      \/ \E n \in use.lengths : Read(f, n)
                      \/ \E n \in use.lengths : Write(f, n)
                      \/ \E to \in use.offsets : Lseek(f, to)
                      \/ Truncate(f) \/ Sync(f) \/ Close(f)
    \/ \E p \in use.looked : \/ Unlink(p) \/ SysStat(p) \/ SysReadDir(p)
                             \/ \E n \in use.lengths : SysFileRead(p, n)
    \/ \E p \in use.moved : Mkdir(p) \/ \E q \in use.moved : Rename(p, q)
    \/ GetFree \/ Remount

Spec == Init /\ [][Next]_vars

-----------------------------------------------------------------------------
(***************************************************************************)
(* Properties.                                                             *)
(***************************************************************************)

\* The chains of all objects, and of the root where it is one.
Chains ==
    {<<x[1], ChainFrom(vol, StartOf(x))>> : x \in {y \in Everything(vol) : StartOf(y) # 0}}
        \cup (IF vol.fs_type = 32 THEN {<< <<>>, ChainFrom(vol, vol.dirbase) >>} ELSE {})

\* After any sequence of calls, the failed ones too: the chains of the objects
\* are whole and share no cluster, every other cluster in use was cut off by
\* moving a directory below itself, and the free count is right when it is known.
FatSound ==
    LET used == Clusters(vol) \ (FreeClusters(vol) \cup lost)
        chains == Chains
    IN  /\ \A c \in chains : \A i \in DOMAIN c[2] : c[2][i] # 0
        /\ UNION {Range(c[2]) : c \in chains} = used
        /\ FoldSet(LAMBDA c, n : n + Len(c[2]), 0, chains) = Cardinality(used)
        /\ vol.free_clst \in {Unknown, Cardinality(FreeClusters(vol))}

\* Every file has the bytes that were written to it, wherever they are: on the
\* disk or in the cache of its file object, whatever other files did meanwhile.
DataIntact ==
    \A x \in Everything(vol) :
        "DIR" \notin x[3].attr => Agree(BytesOf(x), ref[x[1]].data)

\* A file object that seeked, grew and was cut back and forth is at the cluster
\* of its position.
PositionsRight ==
    \A f \in Fil :
        fil[f].open /\ fil[f].fptr > 0 /\ fil[f].id = vol.id =>
            fil[f].clust = ChainFrom(vol, fil[f].sclust)
                               [((fil[f].fptr - 1) \div ClusterBytes(vol)) + 1]

\* Every call succeeds or fails as the calls before it say, with the data, the
\* names, the sizes and the count that are there; a call is refused for want of
\* room exactly when there is none, in the parent's table or on the volume, and
\* never with an internal error.
Answers == wrong = {}

\* The directories on the volume are those that were made, with the objects that
\* were put into them, each once, and know themselves and their parents.
TreeExact ==
    LET all == Everything(vol)
    IN  /\ {x[1] : x \in all} = DOMAIN ref /\ Cardinality(all) = Cardinality(DOMAIN ref)
        /\ \A x \in all : ("DIR" \in x[3].attr) = ref[x[1]].dir
        /\ \A x \in all :
              ref[x[1]].dir => SubSeq(EntriesOf(vol, x[3].cl), 1, 2) =
                                   <<Entry(Dot, {"DIR"}, x[3].cl, 0), Entry(DotDot, {"DIR"}, x[2], 0)>>

\* The window, which one sector of the table or of a directory passes through
\* after another, is the sector it is said to be, and the second table on the
\* disk is a copy of the first.
WindowCoherent ==
    /\ ~vol.wflag => vol.win = vol.disk[vol.winsect]
    /\ vol.n_fats = 2 => \A s \in vol.fatbase .. vol.fatbase + vol.fsize - 1 :
                             vol.disk[s + vol.fsize] = vol.disk[s]

\* When no open file has changes, all that was done is on the disk, with a free
\* count a later mount may trust.  Only an f_mkdir that failed leaves the disk
\* behind.
SyncedAtRest ==
    (~torn /\ \A f \in Fil : fil[f].open => ~fil[f].modified) =>
        /\ ~vol.wflag
        /\ vol.fs_type = 32 => vol.disk[vol.volbase + 1].free
                                  \in {Unknown, Cardinality(FreeClusters(vol))}
=============================================================================

-------------------------------- MODULE MCFat --------------------------------
(* FileSystem in three cases.  Files: a FAT32 disk with two tables of two
   sectors and clusters of two sectors of two bytes; a file in two clusters that
   are apart, and one cluster free.  Fat32: six clusters of one sector, a directory
   and no free count.  Fat16: a partition table, one table, three clusters and a
   root of four entries, three of them in use. *)
EXTENDS FileSystem

FatUpper == [c \in {"a", "d", "e"} |-> CASE c = "a" -> "A" [] c = "d" -> "D" [] OTHER -> "E"]

A == << <<"A">> >>
D == << <<"D">> >>
E == << <<"E">> >>
DA == << <<"D">>, <<"A">> >>
DE == << <<"D">>, <<"E">> >>

NamedPaths == {<< <<"/">>, <<>> >>, << <<"a">>, A >>, << <<"/", "d", "/">>, D >>,
               << <<"0", ":", "D", "/", "/", "a">>, DA >>, << <<"d", "/", "E">>, DE >>,
               << <<"*">>, <<None>> >>,
               << <<"1", ":", "a">>, <<NoDrive>> >>}
NamesOfPaths ==
    [p \in {x[1] : x \in NamedPaths} |-> (CHOOSE x \in NamedPaths : x[1] = p)[2]]
To(names) == {p \in DOMAIN NamesOfPaths : NamesOfPaths[p] \in names}

Mode(r, w, how) == [r |-> r, w |-> w, how |-> how]
DirUse == [files |-> 1, opened |-> DOMAIN NamesOfPaths, looked |-> DOMAIN NamesOfPaths,
           moved |-> To({A, D, DE}), modes |-> {Mode(FALSE, TRUE, "new")},
           lengths |-> {1}, offsets |-> {}, calls |-> 5]
FileUse == [files |-> 2, opened |-> To({A, D}), looked |-> To({D}), moved |-> {},
            modes |-> {Mode(TRUE, FALSE, "existing"), Mode(TRUE, TRUE, "always"),
                       Mode(TRUE, TRUE, "append")},
            lengths |-> {1, 5}, offsets |-> {0, 3, 6}, calls |-> 6]

Label == Entry(<<"V">>, {"VOL"}, 0, 0)
FileTable == [c \in 0 .. 7 |-> IF c = 3 THEN 5 ELSE IF c \in {0, 1, 2, 5} THEN EOC ELSE 0]
Bytes(s) == [i \in 0 .. 1 |-> [b |-> 100 + s + i]]

\* D has six bytes in clusters 3 and 5, sectors 8, 9 and 12.
Files ==
    [use |-> FileUse,
     ref |-> [n \in {D} |->
                 Node(FALSE, [i \in 1 .. 6 |-> Bytes(<<8, 9, 12>>[(i + 1) \div 2])[(i + 1) % 2]])],
     disk |-> [s \in 0 .. 13 |->
        CASE s = 0 -> [bpb |-> [csize |-> 2, n_fats |-> 2, fsize |-> 2, rsvd |-> 2,
                                n_rootdir |-> 0, tsect |-> 14, root |-> 2, fsinfo |-> 1]]
          [] s = 1 -> [free |-> 1, nxt |-> 5]
          [] s \in 2 .. 5 -> [k \in 0 .. 3 |-> FileTable[4 * (s % 2) + k]]
          [] s = 6 -> [Blank EXCEPT ![0] = Label, ![1] = Entry(<<"D">>, {"ARC"}, 3, 6)]
          [] s \in {8, 9, 12} -> Bytes(s)
          [] OTHER -> Blank]]
\* D is at cluster 3 and goes on at 4, where A is empty.
Fat32Table == [c \in 0 .. 7 |-> IF c = 3 THEN 4 ELSE IF c \in {0, 1, 2, 4} THEN EOC ELSE 0]
Fat32 ==
    [use |-> DirUse,
     ref |-> [n \in {D, DA} |-> Node(n = D, <<>>)],
     disk |-> [s \in 0 .. 11 |->
        CASE s = 0 -> [bpb |-> [csize |-> 1, n_fats |-> 2, fsize |-> 2, rsvd |-> 2,
                                n_rootdir |-> 0, tsect |-> 12, root |-> 2, fsinfo |-> 1]]
          [] s = 1 -> [free |-> Unknown, nxt |-> Unknown]
          [] s \in 2 .. 5 -> [k \in 0 .. 3 |-> Fat32Table[4 * (s % 2) + k]]
          [] s = 6 -> [Blank EXCEPT ![0] = Label,
                                    ![1] = Entry(<<"D">>, {"DIR"}, 3, 0)]
          [] s = 7 -> [Blank EXCEPT ![0] = Entry(Dot, {"DIR"}, 3, 0),
                                    ![1] = Entry(DotDot, {"DIR"}, 0, 0)]
          [] s = 8 -> [Blank EXCEPT ![0] = Entry(<<"A">>, {"ARC"}, 0, 0)]
          [] OTHER -> Blank]]

\* The second partition has a volume; its root is full but for one entry.
Fat16 ==
    [use |-> DirUse,
     ref |-> [n \in {A, E} |-> [dir |-> FALSE, rdo |-> n = A,
                                data |-> IF n = A THEN <<[b |-> 100]>> ELSE <<>>]],
     disk |-> [s \in 0 .. 9 |->
        CASE s = 0 -> [parts |-> <<0, 2, 0, 0>>]
          [] s = 2 -> [bpb |-> [csize |-> 1, n_fats |-> 1, fsize |-> 2, rsvd |-> 1,
                                n_rootdir |-> 4, tsect |-> 8, root |-> 0, fsinfo |-> 0]]
          [] s = 3 -> [k \in 0 .. 3 |-> IF k < 3 THEN EOC ELSE 0]
          [] s = 4 -> [k \in 0 .. 3 |-> 0]
          [] s = 5 -> [Blank EXCEPT ![0] = Entry(<<"A">>, {"RDO"}, 2, 1),
                                    ![1] = Label]
          [] s = 6 -> [Blank EXCEPT ![0] = Entry(<<"E">>, {"ARC"}, 0, 0)]
          [] s = 7 -> [Blank EXCEPT ![0] = [b |-> 100]]
          [] OTHER -> Blank]]

FatCases == {Files, Fat32, Fat16}
FilSymmetry == Permutations(Fil)
=============================================================================

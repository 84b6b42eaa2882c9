-------------------------- MODULE UserMemoryProofs --------------------------
(***************************************************************************)
(* Proofs about the memory of user processes for any number of processes,  *)
(* frames and pages, any page size and any requests.  The malloc of the    *)
(* followed client is, for the kernel, one more caller of sbrk: the proofs *)
(* about the kernel need only that each step of UserHeap is a step of      *)
(* MemNext or leaves the kernel's state alone.  The second half is about   *)
(* the heap itself: the list of its blocks stays in the order of the       *)
(* addresses, each block ends before the next one begins, and wherever two *)
(* blocks do not meet the buffers of the window manager lie in the gap.    *)
(***************************************************************************)
EXTENDS UserHeap, FiniteSetTheorems, WellFoundedInduction, TLAPS

\* The system calls of UserMemory, with any increment.
MemNext ==
    \/ \E p \in Proc : Create(p) \/ Exit(p)
    \/ \E p \in Proc, inc \in Nat : Sbrk(p, inc) \/ SbrkFails(p, inc)
    \/ \E q \in Proc : ShareMem(q)
    \/ \E l \in windows, n \in 1 .. SharedPages : Unmap(l, n)
    \/ Reap

\* Types, also of the history; the window manager is never torn down; a process
\* that was not created has no memory below its break.
Typed ==
    /\ TypeOK
    /\ windows \subseteq loans
    /\ loans \subseteq [client : Proc, page : Nat]
    /\ zombie_task # WM
    /\ \A p \in Proc : state[p] = "unborn" => program_break[p] = 0

\* Below the break every page is mapped, unless it was given to sys_unmap.
Backed ==
    \A p \in Alive : \A v \in VPage :
        v < PageTop(program_break[p]) => map[p][v] # None \/ (p = WM /\ v \in unmapped)

\* Above the break nothing is mapped, unless an sbrk failed half-way.
NothingAbove ==
    \A p \in Proc \ failed : \A v \in VPage :
        PageTop(program_break[p]) <= v => map[p][v] = None

\* No process but the window manager, in whatever state, maps a free frame or
\* another one's: a forgotten zombie keeps what it had.
Apart ==
    /\ \A p \in Proc \ {WM}, v \in VPage : map[p][v] \notin free
    /\ \A p, q \in Proc \ {WM}, v, w \in VPage :
          p # q /\ map[p][v] = map[q][w] => map[p][v] = None

\* Page v of the window manager belongs to a buffer shared with q.
LentTo(q, v) ==
    \E l \in loans : l.client = q /\ v \in l.page .. l.page + SharedPages - 1

\* Outside the buffers of clients that are gone, the window manager maps no
\* free frame, and a client's frame only where it shares a buffer with it.
Lent ==
    \A v \in VPage \ StalePages :
        /\ map[WM][v] \notin free
        /\ \A q \in Proc \ {WM}, w \in VPage :
              map[WM][v] = map[q][w] /\ map[q][w] # None => LentTo(q, v)

\* The inductive invariant.
MemInv == Typed /\ Backed /\ NothingAbove /\ Apart /\ Lent

-----------------------------------------------------------------------------
(***************************************************************************)
(* Pages and breaks.                                                       *)
(***************************************************************************)

\* PageTop(b) is the least number of pages that cover b bytes.
LEMMA PageTopBounds ==
    ASSUME NEW b \in Nat
    PROVE  /\ PageTop(b) \in Nat
           /\ b <= PageTop(b) * PAGE_SIZE
           /\ PageTop(b) * PAGE_SIZE < b + PAGE_SIZE
<1> DEFINE q == (b + PAGE_SIZE - 1) \div PAGE_SIZE
           r == (b + PAGE_SIZE - 1) % PAGE_SIZE
<1>1. PAGE_SIZE \in Nat \ {0}
  BY UserMemoryConstants
<1>2. q \in Nat /\ r \in 0 .. PAGE_SIZE - 1 /\ b + PAGE_SIZE - 1 = PAGE_SIZE * q + r
  BY <1>1
<1>3. PAGE_SIZE * q = q * PAGE_SIZE /\ PAGE_SIZE * q \in Nat
  BY <1>1, <1>2
<1>4. PageTop(b) = q
  BY DEF PageTop
<1> HIDE DEF q, r
<1> QED
  BY <1>1, <1>2, <1>3, <1>4

\* The order of two products is the order of the factors.
LEMMA ProductOrder ==
    ASSUME NEW a \in Nat, NEW b \in Nat, NEW s \in Nat \ {0}
    PROVE  /\ a <= b => a * s <= b * s
           /\ a * s < b * s + s => a <= b
<1>1. a <= b => a * s <= b * s
  <2> SUFFICES ASSUME a <= b
               PROVE  a * s <= b * s
    OBVIOUS
  <2>1. PICK d \in Nat : b = a + d
    <3>1. b - a \in Nat /\ b = a + (b - a)
      OBVIOUS
    <3> QED
      BY <3>1
  <2>2. b * s = a * s + d * s /\ d * s \in Nat /\ a * s \in Nat
    BY <2>1
  <2> QED
    BY <2>2
<1>2. a > b => a * s >= b * s + s
  <2> SUFFICES ASSUME a > b
               PROVE  a * s >= b * s + s
    OBVIOUS
  <2>1. PICK d \in Nat : a = b + 1 + d
    <3>1. a - b - 1 \in Nat /\ a = b + 1 + (a - b - 1)
      OBVIOUS
    <3> QED
      BY <3>1
  <2>2. a * s = b * s + s + d * s /\ d * s \in Nat /\ b * s \in Nat
    BY <2>1
  <2> QED
    BY <2>2
<1>3. a * s \in Nat /\ b * s \in Nat
  OBVIOUS
<1> QED
  BY <1>1, <1>2, <1>3

\* Whole pages are covered by exactly that many pages.
LEMMA PageTopExact ==
    ASSUME NEW k \in Nat
    PROVE  PageTop(k * PAGE_SIZE) = k
<1>1. PAGE_SIZE \in Nat \ {0} /\ k * PAGE_SIZE \in Nat
  BY UserMemoryConstants
<1> DEFINE t == PageTop(k * PAGE_SIZE)
<1>2. t \in Nat /\ k * PAGE_SIZE <= t * PAGE_SIZE
      /\ t * PAGE_SIZE < k * PAGE_SIZE + PAGE_SIZE
  BY <1>1, PageTopBounds
<1> HIDE DEF t
<1>3. t <= k
  BY <1>1, <1>2, ProductOrder
<1>4. k * PAGE_SIZE < t * PAGE_SIZE + PAGE_SIZE
  <2>1. t * PAGE_SIZE \in Nat
    BY <1>1, <1>2
  <2> QED
    BY <1>1, <1>2, <2>1
<1>5. k <= t
  BY <1>1, <1>2, <1>4, ProductOrder
<1> QED
  BY <1>2, <1>3, <1>5 DEF t

\* A larger break needs no fewer pages.
LEMMA PageTopMonotone ==
    ASSUME NEW a \in Nat, NEW b \in Nat, a <= b
    PROVE  PageTop(a) <= PageTop(b)
<1>1. PAGE_SIZE \in Nat \ {0}
  BY UserMemoryConstants
<1>2. /\ PageTop(a) \in Nat /\ PageTop(a) * PAGE_SIZE < a + PAGE_SIZE
      /\ PageTop(b) \in Nat /\ b <= PageTop(b) * PAGE_SIZE
  BY PageTopBounds
<1>3. PageTop(a) * PAGE_SIZE \in Nat /\ PageTop(b) * PAGE_SIZE \in Nat
  BY <1>1, <1>2
<1>4. PageTop(a) * PAGE_SIZE < PageTop(b) * PAGE_SIZE + PAGE_SIZE
  BY <1>1, <1>2, <1>3
<1> QED
  BY <1>1, <1>2, <1>4, ProductOrder

\* A break whose pages end at or below MaxPage is in range, and the other way.
LEMMA BreakInRange ==
    ASSUME NEW b \in Nat
    PROVE  PageTop(b) <= MaxPage <=> b \in 0 .. MaxPage * PAGE_SIZE
<1>1. PAGE_SIZE \in Nat \ {0} /\ MaxPage \in Nat /\ MaxPage * PAGE_SIZE \in Nat
  BY UserMemoryConstants
<1>2. /\ PageTop(b) \in Nat /\ b <= PageTop(b) * PAGE_SIZE
      /\ PageTop(b) * PAGE_SIZE \in Nat
  BY <1>1, PageTopBounds
<1>3. PageTop(b) <= MaxPage => b <= MaxPage * PAGE_SIZE
  <2>1. PageTop(b) <= MaxPage => PageTop(b) * PAGE_SIZE <= MaxPage * PAGE_SIZE
    BY <1>1, <1>2, ProductOrder
  <2> QED
    BY <1>1, <1>2, <2>1
<1>4. b <= MaxPage * PAGE_SIZE => PageTop(b) <= MaxPage
  BY <1>1, PageTopMonotone, PageTopExact
<1> QED
  BY <1>1, <1>3, <1>4

-----------------------------------------------------------------------------
(***************************************************************************)
(* What the system calls do to a map.                                      *)
(***************************************************************************)

\* The frames that allocations put into a map were free, and only the pages
\* they are put at change.
LEMMA Mapping ==
    ASSUME NEW m \in [VPage -> Frames \cup {None}], NEW v \in Nat, NEW n \in Nat,
           NEW fs \in [0 .. n - 1 -> free], free \subseteq Frames
    PROVE  /\ Mapped(m, v, n, fs) \in [VPage -> Frames \cup {None}]
           /\ Range(fs) \subseteq free
           /\ \A w \in VPage :
                 IF v <= w /\ w < v + n
                 THEN Mapped(m, v, n, fs)[w] \in Range(fs) /\ Mapped(m, v, n, fs)[w] # None
                 ELSE Mapped(m, v, n, fs)[w] = m[w]
<1>1. None \notin Frames /\ VPage \subseteq Nat
  BY UserMemoryConstants DEF VPage
<1>2. Range(fs) \subseteq free
  BY DEF Range
<1>3. ASSUME NEW w \in VPage
      PROVE  IF v <= w /\ w < v + n
             THEN Mapped(m, v, n, fs)[w] \in Range(fs) /\ Mapped(m, v, n, fs)[w] # None
             ELSE Mapped(m, v, n, fs)[w] = m[w]
  <2>1. CASE v <= w /\ w < v + n
    <3>1. w - v \in 0 .. n - 1 /\ w \in v .. v + n - 1
      BY <1>1, <2>1
    <3>2. Mapped(m, v, n, fs)[w] = fs[w - v] /\ fs[w - v] \in Range(fs)
      BY <3>1 DEF Mapped, Range
    <3> QED
      BY <1>1, <1>2, <2>1, <3>2
  <2>2. CASE ~ (v <= w /\ w < v + n)
    <3>1. w \notin v .. v + n - 1
      BY <1>1, <2>2
    <3> QED
      BY <2>2, <3>1 DEF Mapped
  <2> QED
    BY <2>1, <2>2
<1>4. Mapped(m, v, n, fs) \in [VPage -> Frames \cup {None}]
  <2>1. Mapped(m, v, n, fs) = [w \in VPage |-> Mapped(m, v, n, fs)[w]]
    BY DEF Mapped
  <2>2. \A w \in VPage : Mapped(m, v, n, fs)[w] \in Frames \cup {None}
    BY <1>2, <1>3
  <2> QED
    BY <2>1, <2>2
<1> QED
  BY <1>2, <1>3, <1>4

\* Clients stay apart when one process takes frames A from the free ones.
LEMMA GrowApart ==
    ASSUME TypeOK, Apart, NEW q \in Proc, NEW A, A \subseteq free,
           free' \subseteq free \ A,
           \A r \in Proc \ {WM, q} : map'[r] = map[r],
           \A w \in VPage : map'[q][w] = map[q][w] \/ map'[q][w] \in A
    PROVE  Apart'
<1>1. \A r \in Proc \ {WM}, v \in VPage : map[r][v] \notin free
  BY DEF Apart
<1>2. \A r \in Proc \ {WM}, v \in VPage : map'[r][v] \notin free'
  <2> TAKE r \in Proc \ {WM}, v \in VPage
  <2>1. CASE r = q
    BY <1>1, <2>1
  <2>2. CASE r # q
    BY <1>1, <2>2
  <2> QED
    BY <2>1, <2>2
<1>3. ASSUME NEW r \in Proc \ {WM}, NEW s \in Proc \ {WM}, NEW v \in VPage, NEW w \in VPage,
             r # s, map'[r][v] = map'[s][w]
      PROVE  map'[r][v] = None
  <2>1. map[r][v] = map[s][w] => map[r][v] = None
    BY <1>3 DEF Apart
  <2>2. CASE r = q
    BY <1>1, <1>3, <2>1, <2>2
  <2>3. CASE s = q
    BY <1>1, <1>3, <2>1, <2>3
  <2>4. CASE r # q /\ s # q
    BY <1>3, <2>1, <2>4
  <2> QED
    BY <2>2, <2>3, <2>4
<1> QED
  BY <1>2, <1>3 DEF Apart

\* What the window manager maps stays its own or lent when one process, which
\* may be itself, takes frames A from the free ones.
LEMMA GrowLent ==
    ASSUME TypeOK, Apart, Lent, NEW q \in Proc, NEW A, A \subseteq free,
           free' \subseteq free \ A,
           \A r \in Proc \ {q} : map'[r] = map[r],
           \A w \in VPage : map'[q][w] = map[q][w] \/ map'[q][w] \in A,
           loans' = loans, StalePages' = StalePages
    PROVE  Lent'
<1>1. WM \in Proc
  BY UserMemoryConstants
<1> SUFFICES ASSUME NEW v \in VPage \ StalePages
             PROVE  /\ map'[WM][v] \notin free'
                    /\ \A s \in Proc \ {WM}, w \in VPage :
                          map'[WM][v] = map'[s][w] /\ map'[s][w] # None => LentTo(s, v)'
  BY DEF Lent, VPage
<1>2. /\ map[WM][v] \notin free
      /\ \A s \in Proc \ {WM}, w \in VPage :
            map[WM][v] = map[s][w] /\ map[s][w] # None => LentTo(s, v)
  BY DEF Lent
<1>3. map'[WM][v] \notin free'
  BY <1>1, <1>2
<1>4. ASSUME NEW s \in Proc \ {WM}, NEW w \in VPage,
             map'[WM][v] = map'[s][w], map'[s][w] # None
      PROVE  LentTo(s, v)'
  <2>1. map[s][w] \notin free
    BY DEF Apart
  <2>2. map[WM][v] = map[s][w] /\ map[s][w] # None
    <3>1. CASE q = WM
      BY <1>4, <2>1, <3>1
    <3>2. CASE q # WM /\ q = s
      BY <1>1, <1>2, <1>4, <3>2
    <3>3. CASE q # WM /\ q # s
      BY <1>1, <1>4, <3>3
    <3> QED
      BY <3>1, <3>2, <3>3
  <2>3. LentTo(s, v)
    BY <1>2, <2>2
  <2> QED
    BY <2>3 DEF LentTo
<1> QED
  BY <1>3, <1>4

\* What TypeOK says, spelled out, with the page of every break.
LEMMA TypeFacts ==
    ASSUME TypeOK
    PROVE  /\ state \in [Proc -> {"unborn", "alive", "exited", "reaped"}]
           /\ zombie_task \in Proc \cup {None}
           /\ map \in [Proc -> [VPage -> Frames \cup {None}]]
           /\ free \subseteq Frames /\ None \notin free
           /\ program_break \in [Proc -> Nat]
           /\ \A p \in Proc : /\ PageTop(program_break[p]) \in Nat
                              /\ PageTop(program_break[p]) <= MaxPage
           /\ VPage \subseteq Nat /\ WM \in Proc
           /\ \A v \in VPage : v < MaxPage
           /\ Alive \subseteq Proc
<1>1. /\ PAGE_SIZE \in Nat \ {0} /\ MaxPage \in Nat /\ None \notin Frames /\ WM \in Proc
  BY UserMemoryConstants
<1>2. program_break \in [Proc -> Nat]
  BY <1>1 DEF TypeOK
<1>3. ASSUME NEW p \in Proc
      PROVE  PageTop(program_break[p]) \in Nat /\ PageTop(program_break[p]) <= MaxPage
  <2>1. program_break[p] \in Nat /\ program_break[p] \in 0 .. MaxPage * PAGE_SIZE
    BY <1>2 DEF TypeOK
  <2> QED
    BY <2>1, PageTopBounds, BreakInRange
<1> QED
  BY <1>1, <1>2, <1>3 DEF TypeOK, VPage, Alive

\* sys_sbrk, when memory lasts.
LEMMA SbrkInv ==
    ASSUME MemInv, NEW p \in Proc, NEW inc \in Nat, Sbrk(p, inc)
    PROVE  /\ MemInv'
           /\ \A r \in Proc, v \in VPage :
                 map[r][v] # None => map'[r][v] = map[r][v] \/ r \in failed
<1> DEFINE t == PageTop(program_break[p])
           u == PageTop(program_break[p] + inc)
           n == u - t
<1>1. TypeOK /\ Typed /\ Backed /\ NothingAbove /\ Apart /\ Lent
  BY DEF MemInv, Typed
<1>2. program_break[p] \in Nat /\ program_break[p] + inc \in Nat
  BY <1>1, TypeFacts
<1>3. t \in Nat /\ u \in Nat /\ t <= u /\ n \in Nat
  BY <1>2, PageTopBounds, PageTopMonotone
<1>4. PICK fs \in Allocations(n) :
         /\ map' = [map EXCEPT ![p] = Mapped(@, t, n, fs)]
         /\ free' = free \ Range(fs)
  BY DEF Sbrk, NewPages
<1>5. /\ p \in Alive /\ u <= MaxPage
      /\ program_break' = [program_break EXCEPT ![p] = @ + inc]
      /\ UNCHANGED <<state, zombie_task, windows, loans, failed, unmapped>>
  BY DEF Sbrk, history
<1> HIDE DEF n
<1>6. fs \in [0 .. n - 1 -> free]
  BY DEF Allocations
<1>7. map[p] \in [VPage -> Frames \cup {None}] /\ free \subseteq Frames
  BY <1>1, TypeFacts
<1>8. /\ map'[p] \in [VPage -> Frames \cup {None}] /\ Range(fs) \subseteq free
      /\ \A w \in VPage : IF t <= w /\ w < t + n
                          THEN map'[p][w] \in Range(fs) /\ map'[p][w] # None
                          ELSE map'[p][w] = map[p][w]
      /\ \A r \in Proc \ {p} : map'[r] = map[r]
      /\ map' \in [Proc -> [VPage -> Frames \cup {None}]]
  <2>1. map \in [Proc -> [VPage -> Frames \cup {None}]]
    BY <1>1, TypeFacts
  <2>2. map'[p] = Mapped(map[p], t, n, fs)
    BY <1>4, <2>1
  <2> HIDE DEF t
  <2>3. /\ map'[p] \in [VPage -> Frames \cup {None}] /\ Range(fs) \subseteq free
        /\ \A w \in VPage : IF t <= w /\ w < t + n
                            THEN map'[p][w] \in Range(fs) /\ map'[p][w] # None
                            ELSE map'[p][w] = map[p][w]
    BY <1>3, <1>6, <1>7, <2>2, Mapping
  <2> QED
    BY <1>4, <2>1, <2>3
<1>9. /\ program_break'[p] = program_break[p] + inc /\ PageTop(program_break'[p]) = u
      /\ \A r \in Proc \ {p} : program_break'[r] = program_break[r]
      /\ program_break' \in [Proc -> 0 .. MaxPage * PAGE_SIZE]
  <2>1. program_break \in [Proc -> 0 .. MaxPage * PAGE_SIZE]
    BY <1>1 DEF TypeOK
  <2>2. program_break[p] + inc \in 0 .. MaxPage * PAGE_SIZE
    BY <1>2, <1>5, BreakInRange
  <2> QED
    BY <1>5, <2>1, <2>2
<1>10. t + n = u
  BY <1>3 DEF n
<1> HIDE DEF t, u
<1>11. TypeOK'
  BY <1>1, <1>4, <1>5, <1>7, <1>8, <1>9 DEF TypeOK, VPage
<1>12. Typed'
  <2>1. state[p] = "alive"
    BY <1>5 DEF Alive
  <2> QED
    BY <1>1, <1>5, <1>9, <1>11, <2>1 DEF Typed
<1>13. Backed'
  <2> SUFFICES ASSUME NEW r \in Alive, NEW v \in VPage, v < PageTop(program_break'[r])
               PROVE  map'[r][v] # None \/ (r = WM /\ v \in unmapped)
    BY <1>5 DEF Backed, Alive, VPage, PageTop
  <2>1. r \in Proc /\ v \in Nat
    BY <1>1, TypeFacts
  <2>2. CASE r # p
    BY <1>1, <1>8, <1>9, <2>1, <2>2 DEF Backed
  <2>3. CASE r = p
    <3>1. v < t => map[p][v] # None \/ (p = WM /\ v \in unmapped)
      BY <1>1, <1>5 DEF Backed, t
    <3> QED
      BY <1>3, <1>8, <1>9, <1>10, <2>1, <2>3, <3>1
  <2> QED
    BY <2>2, <2>3
<1>14. NothingAbove'
  <2> SUFFICES ASSUME NEW r \in Proc \ failed, NEW v \in VPage,
                      PageTop(program_break'[r]) <= v
               PROVE  map'[r][v] = None
    BY <1>5 DEF NothingAbove, VPage, PageTop
  <2>1. v \in Nat
    BY <1>1, TypeFacts
  <2>2. CASE r # p
    BY <1>1, <1>8, <1>9, <2>2 DEF NothingAbove
  <2>3. CASE r = p
    <3>1. t <= v /\ ~ (v < t + n)
      BY <1>3, <1>9, <1>10, <2>1, <2>3
    <3>2. map[p][v] = None
      BY <1>1, <2>3, <3>1 DEF NothingAbove, t
    <3> QED
      BY <1>8, <2>3, <3>1, <3>2
  <2> QED
    BY <2>2, <2>3
<1>15. free' \subseteq free \ Range(fs)
  BY <1>4
<1>16. Apart'
  BY <1>1, <1>8, <1>15, GrowApart
<1>17. StalePages' = StalePages
  BY <1>5 DEF StalePages
<1>18. Lent'
  BY <1>1, <1>5, <1>8, <1>15, <1>17, GrowLent
<1>19. ASSUME NEW r \in Proc, NEW v \in VPage, map[r][v] # None
       PROVE  map'[r][v] = map[r][v] \/ r \in failed
  <2>1. CASE r # p
    BY <1>8, <2>1
  <2>2. CASE r = p /\ p \notin failed
    <3>1. ~ (t <= v)
      BY <1>1, <1>19, <2>2 DEF NothingAbove, t
    <3> QED
      BY <1>8, <2>2, <3>1
  <2> QED
    BY <2>1, <2>2
<1> QED
  BY <1>12, <1>13, <1>14, <1>16, <1>18, <1>19 DEF MemInv

\* sys_sbrk, when memory runs out on the way.
LEMMA SbrkFailsInv ==
    ASSUME MemInv, NEW p \in Proc, NEW inc \in Nat, SbrkFails(p, inc)
    PROVE  /\ MemInv'
           /\ \A r \in Proc, v \in VPage :
                 map[r][v] # None => map'[r][v] = map[r][v] \/ r \in failed
<1> DEFINE t == PageTop(program_break[p])
           n == Cardinality(free)
<1>1. TypeOK /\ Typed /\ Backed /\ NothingAbove /\ Apart /\ Lent
  BY DEF MemInv, Typed
<1>2. t \in Nat /\ n \in Nat
  <2>1. IsFiniteSet(free)
    BY <1>1, TypeFacts, UserMemoryConstants, FS_Subset
  <2> QED
    BY <1>1, <2>1, TypeFacts, FS_CardinalityType
<1>3. PICK fs \in Allocations(n) : map' = [map EXCEPT ![p] = Mapped(@, t, n, fs)]
  BY DEF SbrkFails
<1>4. /\ p \in Alive /\ free' = {} /\ failed' = failed \cup {p}
      /\ program_break' = [program_break EXCEPT ![p] = program_break[p]]
      /\ UNCHANGED <<state, zombie_task, windows, loans, unmapped>>
  BY DEF SbrkFails, FreeAfterFailure, BreakAfterFailure
<1> HIDE DEF n, t
<1>5. fs \in [0 .. n - 1 -> free]
  BY DEF Allocations
<1>6. /\ Range(fs) \subseteq free
      /\ \A w \in VPage : IF t <= w /\ w < t + n
                          THEN map'[p][w] \in Range(fs) /\ map'[p][w] # None
                          ELSE map'[p][w] = map[p][w]
      /\ \A r \in Proc \ {p} : map'[r] = map[r]
      /\ map' \in [Proc -> [VPage -> Frames \cup {None}]]
  <2>1. map \in [Proc -> [VPage -> Frames \cup {None}]] /\ free \subseteq Frames
    BY <1>1, TypeFacts
  <2>2. map'[p] = Mapped(map[p], t, n, fs) /\ map[p] \in [VPage -> Frames \cup {None}]
    BY <1>3, <2>1
  <2>3. /\ map'[p] \in [VPage -> Frames \cup {None}] /\ Range(fs) \subseteq free
        /\ \A w \in VPage : IF t <= w /\ w < t + n
                            THEN map'[p][w] \in Range(fs) /\ map'[p][w] # None
                            ELSE map'[p][w] = map[p][w]
    BY <1>2, <1>5, <2>1, <2>2, Mapping
  <2> QED
    BY <1>3, <2>1, <2>3
<1>7. program_break' = program_break
  BY <1>1, <1>4, TypeFacts
<1>8. Typed'
  BY <1>1, <1>4, <1>6, <1>7 DEF Typed, TypeOK, VPage
<1>9. Backed'
  <2> SUFFICES ASSUME NEW r \in Alive, NEW v \in VPage, v < PageTop(program_break[r])
               PROVE  map'[r][v] # None \/ (r = WM /\ v \in unmapped)
    BY <1>4, <1>7 DEF Backed, Alive, VPage, PageTop
  <2>1. r \in Proc /\ (map[r][v] # None \/ (r = WM /\ v \in unmapped))
    BY <1>1, TypeFacts DEF Backed
  <2> QED
    BY <1>6, <2>1
<1>10. NothingAbove'
  <2> SUFFICES ASSUME NEW r \in Proc \ (failed \cup {p}), NEW v \in VPage,
                      PageTop(program_break[r]) <= v
               PROVE  map'[r][v] = None
    BY <1>4, <1>7 DEF NothingAbove, VPage, PageTop
  <2> QED
    BY <1>1, <1>6 DEF NothingAbove
<1>11. free' \subseteq free \ Range(fs)
  BY <1>4
<1>12. Apart'
  BY <1>1, <1>6, <1>11, GrowApart
<1>13. StalePages' = StalePages
  BY <1>4 DEF StalePages
<1>14. Lent'
  BY <1>1, <1>4, <1>6, <1>11, <1>13, GrowLent
<1>15. ASSUME NEW r \in Proc, NEW v \in VPage, map[r][v] # None
       PROVE  map'[r][v] = map[r][v] \/ r \in failed
  <2>1. CASE r # p
    BY <1>6, <2>1
  <2>2. CASE r = p /\ p \notin failed
    <3>1. ~ (t <= v)
      BY <1>1, <1>15, <2>2 DEF NothingAbove, t
    <3> QED
      BY <1>6, <2>2, <3>1
  <2> QED
    BY <2>1, <2>2
<1> QED
  BY <1>8, <1>9, <1>10, <1>12, <1>14, <1>15 DEF MemInv

\* create_user_process_from_file
LEMMA CreateInv ==
    ASSUME MemInv, NEW p \in Proc, Create(p)
    PROVE  /\ MemInv'
           /\ \A r \in Proc, v \in VPage :
                 map[r][v] # None => map'[r][v] = map[r][v] \/ r \in failed
<1>1. TypeOK /\ Typed /\ Backed /\ NothingAbove /\ Apart /\ Lent
  BY DEF MemInv, Typed
<1>2. PICK f \in free : /\ map' = [map EXCEPT ![p] = [@ EXCEPT ![0] = f]]
                        /\ free' = free \ {f}
  BY DEF Create
<1>3. /\ state[p] = "unborn" /\ state' = [state EXCEPT ![p] = "alive"]
      /\ program_break' = [program_break EXCEPT ![p] = PAGE_SIZE]
      /\ UNCHANGED <<zombie_task, windows, loans, failed, unmapped>>
  BY UserMemoryConstants DEF Create, history
<1>4. 0 \in VPage /\ f # None /\ f \in Frames /\ PAGE_SIZE \in Nat \ {0} /\ MaxPage \in Nat \ {0}
  BY <1>1, UserMemoryConstants, TypeFacts DEF VPage
<1>5. PageTop(PAGE_SIZE) = 1 /\ PageTop(0) = 0 /\ PAGE_SIZE \in 0 .. MaxPage * PAGE_SIZE
  <2>1. PageTop(1 * PAGE_SIZE) = 1 /\ PageTop(0 * PAGE_SIZE) = 0
    BY PageTopExact
  <2>2. 1 * PAGE_SIZE = PAGE_SIZE /\ 0 * PAGE_SIZE = 0
    BY <1>4
  <2>3. PageTop(PAGE_SIZE) = 1 /\ PageTop(0) = 0
    BY <2>1, <2>2
  <2> QED
    BY <1>4, <2>3, BreakInRange
<1>6. /\ map' \in [Proc -> [VPage -> Frames \cup {None}]]
      /\ map'[p][0] = f
      /\ \A w \in VPage \ {0} : map'[p][w] = map[p][w]
      /\ \A r \in Proc \ {p} : map'[r] = map[r]
  <2>1. map \in [Proc -> [VPage -> Frames \cup {None}]]
    BY <1>1, TypeFacts
  <2> QED
    BY <1>2, <1>4, <2>1
<1>7. /\ program_break' \in [Proc -> 0 .. MaxPage * PAGE_SIZE] /\ program_break'[p] = PAGE_SIZE
      /\ \A r \in Proc \ {p} : program_break'[r] = program_break[r]
  BY <1>1, <1>3, <1>5 DEF TypeOK
<1>8. /\ state' \in [Proc -> {"unborn", "alive", "exited", "reaped"}] /\ state'[p] = "alive"
      /\ \A r \in Proc \ {p} : state'[r] = state[r]
  BY <1>1, <1>3 DEF TypeOK
<1>9. Typed'
  BY <1>1, <1>2, <1>3, <1>6, <1>7, <1>8 DEF Typed, TypeOK, VPage
<1>10. Backed'
  <2> SUFFICES ASSUME NEW r \in Proc, state'[r] = "alive", NEW v \in VPage,
                      v < PageTop(program_break'[r])
               PROVE  map'[r][v] # None \/ (r = WM /\ v \in unmapped)
    BY <1>3 DEF Backed, Alive, VPage, PageTop
  <2>1. CASE r = p
    <3>1. v = 0
      BY <1>1, <1>5, <1>7, <2>1, TypeFacts
    <3> QED
      BY <1>4, <1>6, <2>1, <3>1
  <2>2. CASE r # p
    BY <1>1, <1>6, <1>7, <1>8, <2>2 DEF Backed, Alive
  <2> QED
    BY <2>1, <2>2
<1>11. p \notin failed => \A v \in VPage : map[p][v] = None
  <2>1. program_break[p] = 0
    BY <1>1, <1>3 DEF Typed
  <2> QED
    BY <1>1, <1>5, <2>1, TypeFacts DEF NothingAbove
<1>12. NothingAbove'
  <2> SUFFICES ASSUME NEW r \in Proc \ failed, NEW v \in VPage,
                      PageTop(program_break'[r]) <= v
               PROVE  map'[r][v] = None
    BY <1>3 DEF NothingAbove, VPage, PageTop
  <2>1. CASE r = p
    BY <1>1, <1>5, <1>6, <1>7, <1>11, <2>1, TypeFacts
  <2>2. CASE r # p
    BY <1>1, <1>6, <1>7, <2>2 DEF NothingAbove
  <2> QED
    BY <2>1, <2>2
<1>13. /\ free' \subseteq free \ {f} /\ {f} \subseteq free
       /\ \A w \in VPage : map'[p][w] = map[p][w] \/ map'[p][w] \in {f}
  BY <1>2, <1>6
<1>14. Apart'
  BY <1>1, <1>6, <1>13, GrowApart
<1>15. StalePages' = StalePages
  <2>1. \A l \in loans : state'[l.client] = "reaped" <=> state[l.client] = "reaped"
    BY <1>1, <1>3, <1>8 DEF Typed
  <2> QED
    BY <1>3, <2>1 DEF StalePages
<1>16. Lent'
  BY <1>1, <1>3, <1>6, <1>13, <1>15, GrowLent
<1>17. \A r \in Proc, v \in VPage :
          map[r][v] # None => map'[r][v] = map[r][v] \/ r \in failed
  BY <1>6, <1>11
<1> QED
  BY <1>9, <1>10, <1>12, <1>14, <1>16, <1>17 DEF MemInv

\* sys_share_mem: the same frames go to the window manager and to a client.
LEMMA ShareMemInv ==
    ASSUME MemInv, NEW q \in Proc, ShareMem(q)
    PROVE  /\ MemInv'
           /\ \A r \in Proc, v \in VPage :
                 map[r][v] # None => map'[r][v] = map[r][v] \/ r \in failed
<1> DEFINE n == SharedPages
           top(r) == PageTop(program_break[r])
           loan == [client |-> q, page |-> top(WM)]
<1>1. TypeOK /\ Typed /\ Backed /\ NothingAbove /\ Apart /\ Lent
  BY DEF MemInv, Typed
<1>2. /\ n \in Nat \ {0} /\ WM \in Proc /\ \A r \in Proc : top(r) \in Nat
      /\ VPage \subseteq Nat /\ free \subseteq Frames
      /\ map \in [Proc -> [VPage -> Frames \cup {None}]]
  BY <1>1, TypeFacts, UserMemoryConstants
<1>3. /\ WM \in Alive /\ q \in Alive /\ q # WM
      /\ \A r \in {WM, q} : top(r) + n <= MaxPage
  BY DEF ShareMem
<1>4. PICK fs \in Allocations(n) :
         /\ map' = [r \in Proc |-> IF r \in {WM, q}
                                   THEN Mapped(map[r], top(r), n, fs) ELSE map[r]]
         /\ free' = free \ Range(fs)
  BY DEF ShareMem
<1>5. /\ windows' = windows \cup {loan} /\ loans' = loans \cup {loan}
      /\ program_break' = [program_break EXCEPT ![WM] = SharedBreak(WM), ![q] = SharedBreak(q)]
      /\ UNCHANGED <<state, zombie_task, failed, unmapped>>
  BY DEF ShareMem
<1>6. fs \in [0 .. n - 1 -> free]
  BY DEF Allocations
<1>7. ASSUME NEW r \in {WM, q}
      PROVE  /\ map'[r] \in [VPage -> Frames \cup {None}] /\ Range(fs) \subseteq free
             /\ \A w \in VPage : IF top(r) <= w /\ w < top(r) + n
                                 THEN map'[r][w] \in Range(fs) /\ map'[r][w] # None
                                 ELSE map'[r][w] = map[r][w]
  <2>1. r \in Proc /\ top(r) \in Nat /\ map[r] \in [VPage -> Frames \cup {None}]
    BY <1>2
  <2>2. map'[r] = Mapped(map[r], top(r), n, fs)
    BY <1>4, <2>1
  <2>3. n \in Nat /\ free \subseteq Frames
    BY <1>2
  <2> DEFINE m == Mapped(map[r], top(r), n, fs)
  <2> HIDE DEF top, n
  <2>4. /\ m \in [VPage -> Frames \cup {None}] /\ Range(fs) \subseteq free
        /\ \A w \in VPage : IF top(r) <= w /\ w < top(r) + n
                            THEN m[w] \in Range(fs) /\ m[w] # None
                            ELSE m[w] = map[r][w]
    BY <1>6, <2>1, <2>3, Mapping
  <2> QED
    BY <2>2, <2>4
<1>8. \A r \in Proc \ {WM, q} : map'[r] = map[r]
  BY <1>4
<1>9. map' \in [Proc -> [VPage -> Frames \cup {None}]]
  <2>1. \A r \in Proc : map'[r] \in [VPage -> Frames \cup {None}]
    BY <1>2, <1>7, <1>8
  <2> QED
    BY <1>4, <2>1
<1>10. ASSUME NEW r \in {WM, q}
       PROVE  /\ SharedBreak(r) \in 0 .. MaxPage * PAGE_SIZE
              /\ PageTop(SharedBreak(r)) = top(r) + n
  <2>1. r \in Proc /\ top(r) \in Nat /\ PAGE_SIZE \in Nat \ {0} /\ top(r) + n \in Nat
    BY <1>2, UserMemoryConstants
  <2>2. SharedBreak(r) = top(r) * PAGE_SIZE + n * PAGE_SIZE
    BY DEF SharedBreak, Aligned
  <2> HIDE DEF top, n
  <2>3. top(r) * PAGE_SIZE + n * PAGE_SIZE = (top(r) + n) * PAGE_SIZE
    BY <1>2, <2>1
  <2>4. (top(r) + n) * PAGE_SIZE \in Nat
    BY <2>1
  <2>5. PageTop(SharedBreak(r)) = top(r) + n
    BY <2>1, <2>2, <2>3, PageTopExact
  <2> QED
    BY <1>3, <2>2, <2>3, <2>4, <2>5, BreakInRange
<1>11. /\ program_break' \in [Proc -> 0 .. MaxPage * PAGE_SIZE]
       /\ \A r \in {WM, q} : PageTop(program_break'[r]) = top(r) + n
       /\ \A r \in Proc \ {WM, q} : program_break'[r] = program_break[r]
  <2>1. program_break \in [Proc -> 0 .. MaxPage * PAGE_SIZE]
    BY <1>1 DEF TypeOK
  <2>2. /\ program_break'[WM] = SharedBreak(WM) /\ program_break'[q] = SharedBreak(q)
        /\ \A r \in Proc \ {WM, q} : program_break'[r] = program_break[r]
    BY <1>2, <1>3, <1>5, <2>1
  <2> HIDE DEF top
  <2> QED
    BY <1>2, <1>5, <1>10, <2>1, <2>2
<1> HIDE DEF top, n
<1>12. Typed'
  <2>1. TypeOK'
    BY <1>1, <1>4, <1>5, <1>9, <1>11 DEF TypeOK, VPage
  <2>2. state[WM] = "alive" /\ state[q] = "alive"
    BY <1>3 DEF Alive
  <2> QED
    BY <1>1, <1>2, <1>5, <1>11, <2>1, <2>2 DEF Typed
<1>13. Backed'
  <2> SUFFICES ASSUME NEW r \in Alive, NEW v \in VPage, v < PageTop(program_break'[r])
               PROVE  map'[r][v] # None \/ (r = WM /\ v \in unmapped)
    BY <1>5 DEF Backed, Alive, VPage, PageTop
  <2>1. r \in Proc /\ v \in Nat
    BY <1>1, TypeFacts
  <2>2. v < top(r) => map[r][v] # None \/ (r = WM /\ v \in unmapped)
    BY <1>1 DEF Backed, top
  <2>3. CASE r \notin {WM, q}
    BY <1>8, <1>11, <2>1, <2>2, <2>3 DEF top
  <2>4. CASE r \in {WM, q}
    <3>1. v < top(r) + n /\ top(r) \in Nat
      BY <1>2, <1>11, <2>1, <2>4
    <3> QED
      BY <1>7, <2>1, <2>2, <2>4, <3>1
  <2> QED
    BY <2>3, <2>4
<1>14. NothingAbove'
  <2> SUFFICES ASSUME NEW r \in Proc \ failed, NEW v \in VPage,
                      PageTop(program_break'[r]) <= v
               PROVE  map'[r][v] = None
    BY <1>5 DEF NothingAbove, VPage, PageTop
  <2>1. v \in Nat /\ top(r) \in Nat
    BY <1>2
  <2>2. top(r) <= v => map[r][v] = None
    BY <1>1 DEF NothingAbove, top
  <2>3. CASE r \notin {WM, q}
    BY <1>8, <1>11, <2>2, <2>3 DEF top
  <2>4. CASE r \in {WM, q}
    <3>1. top(r) + n <= v
      BY <1>11, <2>4
    <3> QED
      BY <1>2, <1>7, <2>1, <2>2, <2>4, <3>1
  <2> QED
    BY <2>3, <2>4
<1>15. free' \subseteq free \ Range(fs) /\ Range(fs) \subseteq free
  BY <1>4, <1>7
<1>16. \A r \in {WM, q}, w \in VPage : map'[r][w] = map[r][w] \/ map'[r][w] \in Range(fs)
  BY <1>7
<1>17. Apart'
  BY <1>1, <1>8, <1>15, <1>16, GrowApart
<1>18. StalePages' = StalePages
  <2>1. state[q] = "alive" /\ state' = state
    BY <1>3, <1>5 DEF Alive
  <2>2. {k \in loans' : state'[k.client] = "reaped"} = {k \in loans : state[k.client] = "reaped"}
    BY <1>5, <2>1
  <2> QED
    BY <2>2 DEF StalePages
<1>19. Lent'
  <2> SUFFICES ASSUME NEW v \in VPage \ StalePages
               PROVE  /\ map'[WM][v] \notin free'
                      /\ \A s \in Proc \ {WM}, w \in VPage :
                            map'[WM][v] = map'[s][w] /\ map'[s][w] # None => LentTo(s, v)'
    BY <1>18 DEF Lent, VPage
  <2>1. /\ map[WM][v] \notin free
        /\ \A s \in Proc \ {WM}, w \in VPage :
              map[WM][v] = map[s][w] /\ map[s][w] # None => LentTo(s, v)
    BY <1>1 DEF Lent
  <2>2. map'[WM][v] \notin free'
    BY <1>15, <1>16, <2>1
  <2>3. ASSUME NEW s \in Proc \ {WM}, NEW w \in VPage,
               map'[WM][v] = map'[s][w], map'[s][w] # None
        PROVE  LentTo(s, v)'
    <3>1. map[s][w] \notin free
      BY <1>1 DEF Apart
    <3>2. CASE map'[WM][v] = map[WM][v] /\ map'[s][w] = map[s][w]
      <4>1. LentTo(s, v)
        BY <2>1, <2>3, <3>2
      <4> QED
        BY <1>5, <4>1 DEF LentTo
    <3>3. CASE map'[WM][v] \in Range(fs) /\ map'[s][w] \in Range(fs) /\ map'[WM][v] # map[WM][v]
      <4>1. s = q
        BY <1>8, <1>15, <3>1, <3>3
      <4>2. top(WM) <= v /\ v < top(WM) + n
        BY <1>7, <3>3
      <4>3. v \in top(WM) .. top(WM) + n - 1
        BY <1>2, <4>2
      <4>4. loan \in loans' /\ loan.client = q /\ loan.page = top(WM)
        BY <1>5
      <4> HIDE DEF loan
      <4> QED
        BY <4>1, <4>3, <4>4 DEF LentTo, n
    <3> QED
      BY <1>8, <1>15, <1>16, <2>1, <2>3, <3>1, <3>2, <3>3
  <2> QED
    BY <2>2, <2>3
<1>20. ASSUME NEW r \in Proc, NEW v \in VPage, map[r][v] # None
       PROVE  map'[r][v] = map[r][v] \/ r \in failed
  <2>1. CASE r \notin {WM, q}
    BY <1>8, <2>1
  <2>2. CASE r \in {WM, q} /\ r \notin failed
    <3>1. ~ (top(r) <= v)
      BY <1>1, <1>20, <2>2 DEF NothingAbove, top
    <3> QED
      BY <1>7, <2>2, <3>1
  <2> QED
    BY <2>1, <2>2
<1> QED
  BY <1>12, <1>13, <1>14, <1>17, <1>19, <1>20 DEF MemInv

\* sys_unmap
LEMMA UnmapInv ==
    ASSUME MemInv, NEW l \in windows, NEW n \in 1 .. SharedPages, Unmap(l, n)
    PROVE  /\ MemInv'
           /\ \A r \in Proc, v \in VPage : map'[r][v] \in {map[r][v], None}
<1> DEFINE gone == l.page .. l.page + n - 1
<1>1. TypeOK /\ Typed /\ Backed /\ NothingAbove /\ Apart /\ Lent
  BY DEF MemInv, Typed
<1>2. /\ map' = [map EXCEPT ![WM] = [w \in VPage |-> IF w \in gone THEN None ELSE @[w]]]
      /\ windows' = windows \ {l} /\ unmapped' = unmapped \cup gone
      /\ UNCHANGED <<state, zombie_task, program_break, free, loans, failed>>
  BY DEF Unmap
<1>3. WM \in Proc /\ map \in [Proc -> [VPage -> Frames \cup {None}]]
      /\ None \notin free
  BY <1>1, TypeFacts
<1> HIDE DEF gone
<1>4. /\ \A w \in VPage : map'[WM][w] = IF w \in gone THEN None ELSE map[WM][w]
      /\ \A r \in Proc \ {WM} : map'[r] = map[r]
      /\ map' \in [Proc -> [VPage -> Frames \cup {None}]]
  BY <1>2, <1>3
<1>5. Typed'
  BY <1>1, <1>2, <1>4 DEF Typed, TypeOK, VPage
<1>6. Backed'
  <2> SUFFICES ASSUME NEW r \in Alive, NEW v \in VPage, v < PageTop(program_break[r])
               PROVE  map'[r][v] # None \/ (r = WM /\ v \in unmapped \cup gone)
    BY <1>2 DEF Backed, Alive, VPage, PageTop
  <2>1. r \in Proc /\ (map[r][v] # None \/ (r = WM /\ v \in unmapped))
    BY <1>1, TypeFacts DEF Backed
  <2> QED
    BY <1>4, <2>1
<1>7. NothingAbove'
  <2> SUFFICES ASSUME NEW r \in Proc \ failed, NEW v \in VPage,
                      PageTop(program_break[r]) <= v
               PROVE  map'[r][v] = None
    BY <1>2 DEF NothingAbove, VPage, PageTop
  <2>1. map[r][v] = None
    BY <1>1 DEF NothingAbove
  <2> QED
    BY <1>4, <2>1
<1>8. Apart'
  BY <1>1, <1>2, <1>4 DEF Apart, VPage
<1>9. StalePages' = StalePages
  BY <1>2 DEF StalePages
<1>10. Lent'
  <2> SUFFICES ASSUME NEW v \in VPage \ StalePages
               PROVE  /\ map'[WM][v] \notin free
                      /\ \A s \in Proc \ {WM}, w \in VPage :
                            map'[WM][v] = map'[s][w] /\ map'[s][w] # None => LentTo(s, v)
    BY <1>2, <1>9 DEF Lent, LentTo, VPage
  <2>1. /\ map[WM][v] \notin free
        /\ \A s \in Proc \ {WM}, w \in VPage :
              map[WM][v] = map[s][w] /\ map[s][w] # None => LentTo(s, v)
    BY <1>1 DEF Lent
  <2> QED
    BY <1>3, <1>4, <2>1
<1> QED
  BY <1>4, <1>5, <1>6, <1>7, <1>8, <1>10 DEF MemInv

\* task_exit
LEMMA ExitInv ==
    ASSUME MemInv, NEW p \in Proc, Exit(p)
    PROVE  MemInv' /\ map' = map
<1>1. TypeOK /\ Typed /\ Backed /\ NothingAbove /\ Apart /\ Lent
  BY DEF MemInv, Typed
<1>2. /\ p \in Alive /\ p # WM /\ state' = [state EXCEPT ![p] = "exited"]
      /\ zombie_task' = p
      /\ UNCHANGED <<map, program_break, free, windows, loans, failed, unmapped>>
  BY DEF Exit, history
<1>3. /\ state' \in [Proc -> {"unborn", "alive", "exited", "reaped"}]
      /\ state'[p] = "exited" /\ state[p] = "alive"
      /\ \A r \in Proc \ {p} : state'[r] = state[r]
  BY <1>1, <1>2 DEF TypeOK, Alive
<1>4. Typed'
  BY <1>1, <1>2, <1>3 DEF Typed, TypeOK, VPage
<1>5. Backed'
  <2>1. Alive' \subseteq Alive
    BY <1>3 DEF Alive
  <2> QED
    BY <1>1, <1>2, <2>1 DEF Backed, VPage, PageTop
<1>6. NothingAbove' /\ Apart'
  BY <1>1, <1>2 DEF NothingAbove, Apart, VPage, PageTop
<1>7. StalePages' = StalePages
  <2>1. \A l \in loans : state'[l.client] = "reaped" <=> state[l.client] = "reaped"
    BY <1>1, <1>3 DEF Typed
  <2> QED
    BY <1>2, <2>1 DEF StalePages
<1>8. Lent'
  BY <1>1, <1>2, <1>7 DEF Lent, LentTo, VPage
<1> QED
  BY <1>2, <1>4, <1>5, <1>6, <1>8 DEF MemInv

\* The teardown of a process: the frames that become free are its own, and
\* what the window manager still maps of them counts as stale from now on.
LEMMA ReapInv ==
    ASSUME MemInv, Reap
    PROVE  /\ MemInv'
           /\ \A r \in Proc, v \in VPage : map'[r][v] \in {map[r][v], None}
<1> DEFINE z == zombie_task
<1>1. TypeOK /\ Typed /\ Backed /\ NothingAbove /\ Apart /\ Lent
  BY DEF MemInv, Typed
<1>2. z \in Proc \ {WM} /\ WM \in Proc /\ map \in [Proc -> [VPage -> Frames \cup {None}]]
      /\ None \notin free /\ free \subseteq Frames
  BY <1>1, TypeFacts DEF Reap, Typed
<1>3. /\ free' = free \cup Occupied(z)
      /\ map' = [map EXCEPT ![z] = [v \in VPage |-> None]]
      /\ state' = [state EXCEPT ![z] = "reaped"]
      /\ zombie_task' = None
      /\ UNCHANGED <<program_break, windows, loans, failed, unmapped>>
  BY DEF Reap, history
<1>4. \A f : f \in Occupied(z) <=> f # None /\ \E w \in VPage : f = map[z][w]
  <2>1. DOMAIN map[z] = VPage
    BY <1>2
  <2> QED
    BY <2>1 DEF Occupied, Range
<1> HIDE DEF z
<1>5. /\ \A v \in VPage : map'[z][v] = None
      /\ \A r \in Proc \ {z} : map'[r] = map[r]
      /\ map' \in [Proc -> [VPage -> Frames \cup {None}]]
  BY <1>2, <1>3
<1>6. /\ state' \in [Proc -> {"unborn", "alive", "exited", "reaped"}]
      /\ state'[z] = "reaped" /\ \A r \in Proc \ {z} : state'[r] = state[r]
  BY <1>1, <1>2, <1>3 DEF TypeOK
<1>7. free' \subseteq Frames /\ None \notin free'
  BY <1>2, <1>3, <1>4
<1>8. Typed'
  <2>1. None # WM
    BY UserMemoryConstants
  <2> QED
    BY <1>1, <1>3, <1>5, <1>6, <1>7, <2>1 DEF Typed, TypeOK, VPage
<1>9. Backed'
  <2> SUFFICES ASSUME NEW r \in Proc, state'[r] = "alive", NEW v \in VPage,
                      v < PageTop(program_break[r])
               PROVE  map'[r][v] # None \/ (r = WM /\ v \in unmapped)
    BY <1>3 DEF Backed, Alive, VPage, PageTop
  <2>1. r # z
    BY <1>6
  <2> QED
    BY <1>1, <1>5, <1>6, <2>1 DEF Backed, Alive
<1>10. NothingAbove'
  <2> SUFFICES ASSUME NEW r \in Proc \ failed, NEW v \in VPage,
                      PageTop(program_break[r]) <= v
               PROVE  map'[r][v] = None
    BY <1>3 DEF NothingAbove, VPage, PageTop
  <2>1. CASE r = z
    BY <1>5, <2>1
  <2>2. CASE r # z
    BY <1>1, <1>5, <2>2 DEF NothingAbove
  <2> QED
    BY <2>1, <2>2
<1>11. Apart'
  <2>1. \A r \in Proc \ {WM}, v \in VPage : map'[r][v] \notin free'
    <3> TAKE r \in Proc \ {WM}, v \in VPage
    <3>1. CASE r = z
      BY <1>5, <1>7, <3>1
    <3>2. CASE r # z
      <4>1. map'[r][v] = map[r][v] /\ map[r][v] \notin free
        BY <1>1, <1>5, <3>2 DEF Apart
      <4>2. map[r][v] \notin Occupied(z)
        BY <1>1, <1>2, <1>4, <3>2 DEF Apart
      <4> QED
        BY <1>3, <4>1, <4>2
    <3> QED
      BY <3>1, <3>2
  <2>2. \A r, s \in Proc \ {WM}, v, w \in VPage :
           r # s /\ map'[r][v] = map'[s][w] => map'[r][v] = None
    BY <1>1, <1>2, <1>5 DEF Apart
  <2> QED
    BY <2>1, <2>2 DEF Apart, VPage
<1>12. Lent'
  <2> SUFFICES ASSUME NEW v \in VPage, v \notin StalePages'
               PROVE  /\ map'[WM][v] \notin free'
                      /\ \A s \in Proc \ {WM}, w \in VPage :
                            map'[WM][v] = map'[s][w] /\ map'[s][w] # None => LentTo(s, v)'
    BY DEF Lent, VPage
  <2>1. ~ LentTo(z, v)
    <3> SUFFICES ASSUME NEW l \in loans, l.client = z, v \in l.page .. l.page + SharedPages - 1
                 PROVE  FALSE
      BY DEF LentTo
    <3> QED
      BY <1>3, <1>6 DEF StalePages
  <2>2. v \notin StalePages
    <3> SUFFICES ASSUME NEW l \in loans, state[l.client] = "reaped",
                        v \in l.page .. l.page + SharedPages - 1
                 PROVE  FALSE
      BY DEF StalePages
    <3>1. state'[l.client] = "reaped"
      BY <1>1, <1>6 DEF Typed
    <3> QED
      BY <1>3, <3>1 DEF StalePages
  <2>3. /\ map[WM][v] \notin free
        /\ \A s \in Proc \ {WM}, w \in VPage :
              map[WM][v] = map[s][w] /\ map[s][w] # None => LentTo(s, v)
    BY <1>1, <2>2 DEF Lent
  <2>4. map'[WM][v] = map[WM][v]
    BY <1>2, <1>5
  <2>5. map[WM][v] \notin Occupied(z)
    BY <1>2, <1>4, <2>1, <2>3
  <2>6. map'[WM][v] \notin free'
    BY <1>3, <2>3, <2>4, <2>5
  <2>7. ASSUME NEW s \in Proc \ {WM}, NEW w \in VPage,
               map'[WM][v] = map'[s][w], map'[s][w] # None
        PROVE  LentTo(s, v)'
    <3>1. map'[s][w] = map[s][w]
      BY <1>5, <2>7
    <3>2. LentTo(s, v)
      BY <2>3, <2>4, <2>7, <3>1
    <3> QED
      BY <1>3, <3>2 DEF LentTo
  <2> QED
    BY <2>6, <2>7
<1> QED
  BY <1>5, <1>8, <1>9, <1>10, <1>11, <1>12 DEF MemInv

-----------------------------------------------------------------------------
(***************************************************************************)
(* The system.                                                             *)
(***************************************************************************)

\* The invariant holds before the first process is created.
LEMMA InitMemInv == HeapInit => MemInv
<1> SUFFICES ASSUME HeapInit
             PROVE  MemInv
  OBVIOUS
<1>1. PICK m \in Machines : Init(m)
  BY DEF HeapInit
<1>2. /\ state \in [Proc -> {"unborn", "alive", "exited", "reaped"}]
      /\ \A p \in Proc : state[p] # "alive"
      /\ zombie_task = None
      /\ map = [p \in Proc |-> [v \in VPage |-> None]]
      /\ program_break = [p \in Proc |-> 0]
      /\ windows = {} /\ loans = {} /\ unmapped = {}
  BY <1>1 DEF Init
<1>3. free \subseteq Frames
  BY <1>1 DEF Init, kSubset
<1>4. /\ PAGE_SIZE \in Nat \ {0} /\ MaxPage \in Nat \ {0} /\ None \notin Frames /\ WM \in Proc
      /\ None # WM
  BY UserMemoryConstants
<1>5. 0 \in 0 .. MaxPage * PAGE_SIZE
  BY <1>4
<1>6. \A p \in Proc, v \in VPage : map[p][v] = None
  BY <1>2
<1>7. Typed
  BY <1>2, <1>3, <1>4, <1>5 DEF Typed, TypeOK
<1>8. Backed /\ NothingAbove /\ Apart /\ Lent
  BY <1>2, <1>3, <1>4, <1>6 DEF Backed, NothingAbove, Apart, Lent, Alive
<1> QED
  BY <1>7, <1>8 DEF MemInv

\* A request is rounded up to a number of bytes.
LEMMA AlignType ==
    ASSUME NEW n \in Requests
    PROVE  Align(n) + HeaderSize \in Nat
<1>1. n \in Nat /\ ALIGNMENT \in Nat \ {0} /\ HeaderSize \in Nat
  BY UserHeapConstants
<1> DEFINE k == (n + ALIGNMENT - 1) \div ALIGNMENT
<1>2. k \in Nat
  BY <1>1
<1>3. Align(n) = k * ALIGNMENT
  BY DEF Align
<1> HIDE DEF k
<1> QED
  BY <1>1, <1>2, <1>3

\* Whatever the client's heap does, the kernel sees its own calls.
LEMMA HeapStepIsMemStep ==
    HeapNext => MemNext \/ UNCHANGED vars
<1> SUFFICES ASSUME HeapNext
             PROVE  MemNext \/ UNCHANGED vars
  OBVIOUS
<1>1. Alive \subseteq Proc /\ Increments \subseteq Nat
  BY UserMemoryConstants DEF Alive
<1>2. CASE Kernel
  BY <1>1, <1>2 DEF Kernel, MemNext
<1>3. CASE ShareWithUser
  BY <1>1, <1>3 DEF ShareWithUser, MemNext
<1>4. ASSUME NEW n \in Requests, MallocFit(n)
      PROVE  MemNext \/ UNCHANGED vars
  BY <1>4 DEF MallocFit
<1>5. ASSUME NEW n \in Requests, MallocGrow(n)
      PROVE  MemNext \/ UNCHANGED vars
  <2>1. user \in Alive /\ Sbrk(user, Align(n) + HeaderSize)
    BY <1>5 DEF MallocGrow
  <2> QED
    BY <1>1, <2>1, AlignType DEF MemNext
<1>6. ASSUME NEW n \in Requests, MallocFails(n)
      PROVE  MemNext \/ UNCHANGED vars
  <2>1. user \in Alive /\ SbrkFails(user, Align(n) + HeaderSize)
    BY <1>6 DEF MallocFails
  <2> QED
    BY <1>1, <2>1, AlignType DEF MemNext
<1>7. ASSUME NEW b \in DOMAIN live, Free(b)
      PROVE  MemNext \/ UNCHANGED vars
  BY <1>7 DEF Free
<1> QED
  BY <1>2, <1>3, <1>4, <1>5, <1>6, <1>7 DEF HeapNext

\* What a step may do to the page tables: map a page that was not mapped, or
\* take one away.
Keeps ==
    \A p \in Proc, v \in VPage :
        map[p][v] # None => map'[p][v] \in {map[p][v], None} \/ p \in failed

\* Every step keeps the invariant, and maps over no page.
LEMMA MemStep ==
    MemInv /\ [HeapNext]_<<vars, heapVars, heap_history>> => MemInv' /\ Keeps
<1> SUFFICES ASSUME MemInv, [HeapNext]_<<vars, heapVars, heap_history>>
             PROVE  MemInv' /\ Keeps
  OBVIOUS
<1>1. MemNext \/ UNCHANGED vars
  BY HeapStepIsMemStep
<1>2. CASE UNCHANGED vars
  <2>1. /\ state' = state /\ zombie_task' = zombie_task /\ map' = map /\ free' = free
        /\ program_break' = program_break /\ windows' = windows /\ loans' = loans
        /\ failed' = failed /\ unmapped' = unmapped
    BY <1>2 DEF vars
  <2>2. Typed' /\ Backed' /\ NothingAbove'
    BY <2>1 DEF MemInv, Typed, TypeOK, Backed, NothingAbove, Alive, VPage, PageTop
  <2>3. Apart' /\ Lent'
    BY <2>1 DEF MemInv, Apart, Lent, LentTo, StalePages, VPage
  <2> QED
    BY <2>1, <2>2, <2>3 DEF MemInv, Keeps
<1>3. ASSUME NEW p \in Proc, Create(p)
      PROVE  MemInv' /\ Keeps
  BY <1>3, CreateInv DEF Keeps
<1>4. ASSUME NEW p \in Proc, Exit(p)
      PROVE  MemInv' /\ Keeps
  BY <1>4, ExitInv DEF Keeps
<1>5. ASSUME NEW p \in Proc, NEW inc \in Nat, Sbrk(p, inc)
      PROVE  MemInv' /\ Keeps
  BY <1>5, SbrkInv DEF Keeps
<1>6. ASSUME NEW p \in Proc, NEW inc \in Nat, SbrkFails(p, inc)
      PROVE  MemInv' /\ Keeps
  BY <1>6, SbrkFailsInv DEF Keeps
<1>7. ASSUME NEW q \in Proc, ShareMem(q)
      PROVE  MemInv' /\ Keeps
  BY <1>7, ShareMemInv DEF Keeps
<1>8. ASSUME NEW l \in windows, NEW n \in 1 .. SharedPages, Unmap(l, n)
      PROVE  MemInv' /\ Keeps
  BY <1>8, UnmapInv DEF Keeps
<1>9. CASE Reap
  BY <1>9, ReapInv DEF Keeps
<1> QED
  BY <1>1, <1>2, <1>3, <1>4, <1>5, <1>6, <1>7, <1>8, <1>9 DEF MemNext

\* Every reachable state satisfies the inductive invariant.
THEOREM MemInvariant == HeapSpec => []MemInv
  BY InitMemInv, MemStep, PTL DEF HeapSpec

\* Whatever is created, shared, unmapped and torn down in between, no client maps
\* a free frame or another client's, and the window manager maps a free frame
\* only in the buffers of clients that are gone.
THEOREM IsolationTheorem == HeapSpec => []ClientsIsolated
<1>1. MemInv => ClientsIsolated
  <2> SUFFICES ASSUME MemInv
               PROVE  ClientsIsolated
    OBVIOUS
  <2>1. Apart /\ Lent /\ Alive \subseteq Proc
    BY DEF MemInv, Alive
  <2>2. \A p \in Alive \ {WM} : FramesOf(p) \cap free = {}
    BY <2>1 DEF Apart, FramesOf
  <2>3. \A p, q \in Alive \ {WM} : p # q => FramesOf(p) \cap FramesOf(q) = {}
    BY <2>1 DEF Apart, FramesOf
  <2>4. \A v \in VPage \ StalePages : WM \in Alive => map[WM][v] \notin free
    BY <2>1 DEF Lent
  <2> QED
    BY <2>2, <2>3, <2>4 DEF ClientsIsolated
<1> QED
  BY <1>1, MemInvariant, PTL

\* Every page below the break of a living process is mapped, whoever moved the
\* break: sbrk, an sbrk that failed, or share_mem of the window manager.
THEOREM BreakTheorem == HeapSpec => []BreakBacked
<1>1. MemInv => BreakBacked
  <2> SUFFICES ASSUME MemInv
               PROVE  BreakBacked
    OBVIOUS
  <2>1. TypeOK /\ Backed
    BY DEF MemInv, Typed
  <2>2. ASSUME NEW p \in Alive, NEW v \in 0 .. PageTop(program_break[p]) - 1
        PROVE  map[p][v] # None \/ (p = WM /\ v \in unmapped)
    <3>1. PageTop(program_break[p]) \in Nat /\ PageTop(program_break[p]) <= MaxPage
      BY <2>1, TypeFacts
    <3>2. MaxPage \in Nat
      BY UserMemoryConstants
    <3>3. v \in VPage /\ v < PageTop(program_break[p])
      BY <3>1, <3>2 DEF VPage
    <3> QED
      BY <2>1, <3>3 DEF Backed
  <2> QED
    BY <2>1, <2>2 DEF BreakBacked
<1> QED
  BY <1>1, MemInvariant, PTL

\* No step maps a page over another one, so no frame is lost that way, except in
\* a process one of whose sbrk calls has failed half-way.
THEOREM OverwriteTheorem == HeapSpec => NoOverwrite
<1>1. MemInv /\ [HeapNext]_<<vars, heapVars, heap_history>> =>
         [\A p \in Proc, v \in VPage :
             map[p][v] # None =>
                 map'[p][v] \in {map[p][v], None} \/ p \in failed]_vars
  BY MemStep DEF Keeps
<1> QED
  BY <1>1, MemInvariant, PTL DEF HeapSpec, NoOverwrite

-----------------------------------------------------------------------------
(***************************************************************************)
(* The heap of the client: what holds of its list between two calls.       *)
(***************************************************************************)

\* The address behind block b of the list h, the first byte of the buffer at page p
\* and the one behind it.
End(h, b) == b + HeaderSize + h[b].size
BufLow(p) == p * PAGE_SIZE
BufHigh(p) == (p + SharedPages) * PAGE_SIZE

\* The record of a header, with its links among the addresses D.
Header(D) == [size : Nat, free : BOOLEAN, next : D \cup {NULL}, prev : D \cup {NULL}]

\* The list h from head on is in the order of the addresses and holds every block.
Linked(h, head) ==
    /\ DOMAIN h # {} => head \in DOMAIN h
    /\ \A b \in DOMAIN h :
          /\ b \in Nat
          /\ h[b] \in Header(DOMAIN h)
          /\ h[b].next # NULL => /\ b < h[b].next
                                 /\ h[h[b].next].prev = b
                                 /\ \A c \in DOMAIN h : b < c => h[b].next <= c
          /\ h[b].next = NULL => \A c \in DOMAIN h : c <= b
          /\ h[b].prev # NULL => h[h[b].prev].next = b
          /\ h[b].prev = NULL <=> b = head

\* Where the next block begins, or the heap ends.
Limit(h, b, brk) == IF h[b].next = NULL THEN brk ELSE h[b].next

\* The blocks of h lie below the break brk, in order and apart from the buffers bufs;
\* where a block does not reach to the next one, there is a buffer in between.
Spaced(h, brk, bufs) ==
    /\ \A p \in bufs : p \in Nat /\ BufHigh(p) <= brk
    /\ \A b \in DOMAIN h :
          /\ End(h, b) <= Limit(h, b, brk) /\ Limit(h, b, brk) <= brk
          /\ \A p \in bufs : End(h, b) <= BufLow(p) \/ BufHigh(p) <= b
          /\ End(h, b) # Limit(h, b, brk) =>
                \E p \in bufs : End(h, b) <= BufLow(p) /\ BufLow(p) < Limit(h, b, brk)

\* No two neighbours of h are free.
Coalesced(h) ==
    \A b \in DOMAIN h : h[b].free /\ h[b].next # NULL => ~ h[h[b].next].free

\* The requests l lie in blocks of h that are in use and large enough.
Held(h, l) ==
    \A b \in DOMAIN l : /\ b \in DOMAIN h /\ ~ h[b].free
                        /\ l[b] \in Nat /\ l[b] <= h[b].size

\* All of this, of a heap that ends at brk and has the buffers bufs in it.
SoundHeap(h, head, brk, bufs, l) ==
    Linked(h, head) /\ Spaced(h, brk, bufs) /\ Coalesced(h) /\ Held(h, l)

\* The inductive invariant of the client's heap.  Nothing is said of it once a free
\* block was below a buffer, nor before the client is created or after its end.
HeapInv ==
    /\ user \in (Proc \ {WM}) \cup {None}
    /\ user \in Proc /\ state[user] = "unborn" =>
          DOMAIN block = {} /\ DOMAIN live = {} /\ buffers = {}
    /\ ~ careless /\ user \in Alive =>
          SoundHeap(block, heap_head, program_break[user], buffers, live)

-----------------------------------------------------------------------------
(***************************************************************************)
(* The list of the client's heap.                                          *)
(***************************************************************************)

\* What Linked says of one block, with the facts that follow from it at once.
LEMMA LinkedFacts ==
    ASSUME NEW h, NEW head, Linked(h, head), NEW b \in DOMAIN h
    PROVE  /\ b \in Nat /\ NULL \notin Nat /\ NULL \notin DOMAIN h /\ head \in DOMAIN h
           /\ h[b].size \in Nat /\ h[b].free \in BOOLEAN
           /\ \/ h[b].next = NULL /\ \A c \in DOMAIN h : c <= b
              \/ /\ h[b].next \in DOMAIN h /\ h[b].next # NULL
                 /\ b < h[b].next /\ h[h[b].next].prev = b
                 /\ \A c \in DOMAIN h : b < c => h[b].next <= c
           /\ \/ h[b].prev = NULL /\ b = head
              \/ /\ h[b].prev \in DOMAIN h /\ h[b].prev # NULL /\ b # head
                 /\ h[b].prev < b /\ h[h[b].prev].next = b
           /\ \A c \in DOMAIN h : c \in Nat
           /\ End(h, b) = b + HeaderSize + h[b].size /\ End(h, b) \in Nat /\ b < End(h, b)
<1>1. NULL \notin Nat /\ HeaderSize \in Nat \ {0}
  BY UserHeapConstants
<1>2. \A c \in DOMAIN h : c \in Nat
  BY DEF Linked
<1>3. /\ h[b].size \in Nat /\ h[b].free \in BOOLEAN
      /\ h[b].next \in DOMAIN h \cup {NULL} /\ h[b].prev \in DOMAIN h \cup {NULL}
  BY DEF Linked, Header
<1>4. head \in DOMAIN h
  BY DEF Linked
<1>5. \/ h[b].next = NULL /\ \A c \in DOMAIN h : c <= b
      \/ /\ h[b].next \in DOMAIN h /\ h[b].next # NULL
         /\ b < h[b].next /\ h[h[b].next].prev = b
         /\ \A c \in DOMAIN h : b < c => h[b].next <= c
  BY <1>3 DEF Linked
<1>6. \/ h[b].prev = NULL /\ b = head
      \/ /\ h[b].prev \in DOMAIN h /\ h[b].prev # NULL /\ b # head
         /\ h[b].prev < b /\ h[h[b].prev].next = b
  <2>1. CASE h[b].prev = NULL
    BY <2>1 DEF Linked
  <2>2. CASE h[b].prev # NULL
    <3>1. h[b].prev \in DOMAIN h /\ b # head /\ h[h[b].prev].next = b
      BY <1>3, <2>2 DEF Linked
    <3>2. b # NULL
      BY <1>1, <1>2
    <3>3. h[b].prev < h[h[b].prev].next
      BY <3>1, <3>2 DEF Linked
    <3> QED
      BY <2>2, <3>1, <3>3
  <2> QED
    BY <2>1, <2>2
<1>7. End(h, b) = b + HeaderSize + h[b].size /\ End(h, b) \in Nat /\ b < End(h, b)
  BY <1>1, <1>2, <1>3 DEF End
<1> QED
  BY <1>1, <1>2, <1>3, <1>4, <1>5, <1>6, <1>7

\* g is the list h after b has swallowed its successor n.
Merged(h, b, n, g) ==
    /\ DOMAIN g = DOMAIN h \ {n}
    /\ \A c \in DOMAIN g :
          /\ g[c] \in Header(DOMAIN h)
          /\ g[c].free = h[c].free
          /\ g[c].size = IF c = b THEN h[b].size + HeaderSize + h[n].size ELSE h[c].size
          /\ g[c].next = IF c = b THEN h[n].next ELSE h[c].next
          /\ g[c].prev = IF c = h[n].next THEN b ELSE h[c].prev

\* What the merge of coalesce does to the headers.
LEMMA MergeFields ==
    ASSUME NEW h, NEW head, Linked(h, head), NEW b \in DOMAIN h,
           h[b].next # NULL, h[h[b].next].free
    PROVE  Merged(h, b, h[b].next, MergeNext(h, b))
<1> DEFINE n == h[b].next
           g == MergeNext(h, b)
<1>1. n \in DOMAIN h /\ b < n /\ b \in Nat /\ n \in Nat
  BY LinkedFacts
<1>2. h[n].next # b /\ h[n].next # n /\ b # n
  BY <1>1, LinkedFacts
<1>3. HeaderSize \in Nat
  BY UserHeapConstants
<1>4. g = [c \in DOMAIN h \ {n} |->
             CASE c = b -> [h[b] EXCEPT !.size = @ + HeaderSize + h[n].size,
                                        !.next = h[n].next]
               [] c = h[n].next -> [h[c] EXCEPT !.prev = b]
               [] OTHER -> h[c]]
  BY DEF MergeNext
<1>5. \A c \in DOMAIN h : h[c] \in Header(DOMAIN h)
  BY DEF Linked
<1> HIDE DEF g, n
<1>6. DOMAIN g = DOMAIN h \ {n}
  BY <1>4
<1>7. ASSUME NEW c \in DOMAIN g
      PROVE  /\ g[c] \in Header(DOMAIN h)
             /\ g[c].free = h[c].free
             /\ g[c].size = IF c = b THEN h[b].size + HeaderSize + h[n].size ELSE h[c].size
             /\ g[c].next = IF c = b THEN h[n].next ELSE h[c].next
             /\ g[c].prev = IF c = h[n].next THEN b ELSE h[c].prev
  <2>1. CASE c = b
    <3>1. g[c] = [h[b] EXCEPT !.size = @ + HeaderSize + h[n].size, !.next = h[n].next]
      BY <1>2, <1>4, <1>6, <2>1
    <3>2. /\ h[b] \in Header(DOMAIN h) /\ h[n].size \in Nat
          /\ h[n].next \in DOMAIN h \cup {NULL}
      BY <1>1, <1>5 DEF Header
    <3>3. /\ h[b].size \in Nat /\ h[b].free \in BOOLEAN
          /\ h[b].prev \in DOMAIN h \cup {NULL}
      BY <3>2 DEF Header
    <3>4. g[c] = [size |-> h[b].size + HeaderSize + h[n].size, free |-> h[b].free,
                  next |-> h[n].next, prev |-> h[b].prev]
      BY <3>1, <3>2 DEF Header
    <3>5. h[b].size + HeaderSize + h[n].size \in Nat
      BY <1>3, <3>2, <3>3
    <3> QED
      BY <1>2, <2>1, <3>2, <3>3, <3>4, <3>5 DEF Header
  <2>2. CASE c # b /\ c = h[n].next
    <3>1. g[c] = [h[c] EXCEPT !.prev = b]
      BY <1>4, <1>6, <2>2
    <3>2. c \in DOMAIN h /\ h[c] \in Header(DOMAIN h)
      BY <1>5, <1>6
    <3> QED
      BY <2>2, <3>1, <3>2 DEF Header
  <2>3. CASE c # b /\ c # h[n].next
    <3>1. g[c] = h[c] /\ c \in DOMAIN h
      BY <1>4, <1>6, <2>3
    <3> QED
      BY <1>5, <2>3, <3>1
  <2> QED
    BY <2>1, <2>2, <2>3
<1> QED
  BY <1>6, <1>7 DEF g, n, Merged

\* The merge keeps the list in order.
LEMMA MergeLinked ==
    ASSUME NEW h, NEW head, Linked(h, head), NEW b \in DOMAIN h, NEW n, NEW g,
           h[b].next = n, n # NULL, Merged(h, b, n, g)
    PROVE  Linked(g, head)
<1>1. /\ n \in DOMAIN h /\ b < n /\ b \in Nat /\ n \in Nat /\ h[n].prev = b
      /\ \A c \in DOMAIN h : b < c => n <= c
  BY LinkedFacts
<1>2. h[n].next # b /\ h[n].next # n /\ b # n /\ NULL \notin Nat
  BY <1>1, LinkedFacts
<1>3. /\ DOMAIN g = DOMAIN h \ {n} /\ \A c \in DOMAIN g : c \in DOMAIN h /\ c # n
  BY DEF Merged
<1>4. \A c \in DOMAIN g :
          /\ g[c] \in Header(DOMAIN h)
          /\ g[c].next = IF c = b THEN h[n].next ELSE h[c].next
          /\ g[c].prev = IF c = h[n].next THEN b ELSE h[c].prev
  BY DEF Merged
<1>5. \A c \in DOMAIN h : h[c].next = n => c = b
  BY <1>1, <1>2, LinkedFacts
<1>6. \A c \in DOMAIN h : h[c].prev = n => c = h[n].next
  BY <1>1, <1>2, LinkedFacts
<1>7. head \in DOMAIN g
  <2>1. h[n].prev # NULL /\ head \in DOMAIN h
    BY <1>1, LinkedFacts
  <2>2. n # head
    BY <1>1, <2>1 DEF Linked
  <2> QED
    BY <1>3, <2>1, <2>2
<1>8. ASSUME NEW c \in DOMAIN g
      PROVE  /\ c \in Nat
             /\ g[c] \in Header(DOMAIN g)
             /\ g[c].next # NULL => /\ c < g[c].next
                                    /\ g[g[c].next].prev = c
                                    /\ \A d \in DOMAIN g : c < d => g[c].next <= d
             /\ g[c].next = NULL => \A d \in DOMAIN g : d <= c
             /\ g[c].prev # NULL => g[g[c].prev].next = c
             /\ g[c].prev = NULL <=> c = head
  <2>1. c \in DOMAIN h /\ c # n /\ c \in Nat
    BY <1>3, LinkedFacts
  <2>2. g[c].next # n /\ g[c].prev # n
    BY <1>1, <1>2, <1>4, <1>5, <1>6, <2>1
  <2>3. g[c] \in Header(DOMAIN g)
    BY <1>3, <1>4, <2>2 DEF Header
  <2>4. CASE c = b
    <3>1. g[c].next = h[n].next /\ g[c].prev = h[c].prev
      BY <1>2, <1>4, <2>4
    <3>2. g[c].next # NULL => /\ c < g[c].next
                              /\ g[g[c].next].prev = c
                              /\ \A d \in DOMAIN g : c < d => g[c].next <= d
      <4> SUFFICES ASSUME g[c].next # NULL
                   PROVE  /\ c < g[c].next
                          /\ g[g[c].next].prev = c
                          /\ \A d \in DOMAIN g : c < d => g[c].next <= d
        OBVIOUS
      <4>1. /\ h[n].next \in DOMAIN h /\ h[n].next # n /\ n < h[n].next
            /\ h[n].next \in Nat
            /\ \A d \in DOMAIN h : n < d => h[n].next <= d
        BY <1>1, <1>2, <3>1, LinkedFacts
      <4>2. h[n].next \in DOMAIN g
        BY <1>3, <4>1
      <4>3. g[h[n].next].prev = b
        BY <1>4, <4>2
      <4>4. ASSUME NEW d \in DOMAIN g, c < d
            PROVE  g[c].next <= d
        <5>1. d \in DOMAIN h /\ d # n /\ d \in Nat
          BY <1>3, LinkedFacts
        <5>2. n < d
          BY <1>1, <2>4, <4>4, <5>1
        <5> QED
          BY <3>1, <4>1, <5>1, <5>2
      <4> QED
        BY <1>1, <2>4, <3>1, <4>1, <4>3, <4>4
    <3>3. g[c].next = NULL => \A d \in DOMAIN g : d <= c
      <4> SUFFICES ASSUME g[c].next = NULL, NEW d \in DOMAIN g
                   PROVE  d <= c
        OBVIOUS
      <4>1. d \in DOMAIN h /\ d # n /\ d \in Nat
        BY <1>3, LinkedFacts
      <4>2. d <= n
        BY <1>1, <3>1, <4>1, LinkedFacts
      <4> QED
        BY <1>1, <2>4, <4>1, <4>2
    <3>4. g[c].prev # NULL => g[g[c].prev].next = c
      <4> SUFFICES ASSUME g[c].prev # NULL
                   PROVE  g[g[c].prev].next = c
        OBVIOUS
      <4>1. h[c].prev \in DOMAIN h /\ h[c].prev < c /\ h[h[c].prev].next = c
        BY <2>1, <3>1, LinkedFacts
      <4>2. h[c].prev \in DOMAIN g /\ h[c].prev # b
        BY <1>1, <1>3, <2>2, <2>4, <3>1, <4>1
      <4> QED
        BY <1>4, <3>1, <4>1, <4>2
    <3>5. g[c].prev = NULL <=> c = head
      BY <2>1, <3>1 DEF Linked
    <3> QED
      BY <2>1, <2>3, <3>2, <3>3, <3>4, <3>5
  <2>5. CASE c # b
    <3>1. g[c].next = h[c].next
      BY <1>4, <2>5
    <3>2. g[c].next # NULL => /\ c < g[c].next
                              /\ g[g[c].next].prev = c
                              /\ \A d \in DOMAIN g : c < d => g[c].next <= d
      <4> SUFFICES ASSUME g[c].next # NULL
                   PROVE  /\ c < g[c].next
                          /\ g[g[c].next].prev = c
                          /\ \A d \in DOMAIN g : c < d => g[c].next <= d
        OBVIOUS
      <4>1. /\ h[c].next \in DOMAIN h /\ c < h[c].next /\ h[h[c].next].prev = c
            /\ \A d \in DOMAIN h : c < d => h[c].next <= d
        BY <2>1, <3>1, LinkedFacts
      <4>2. h[c].next \in DOMAIN g
        BY <1>3, <2>2, <3>1, <4>1
      <4>3. h[c].next # h[n].next
        <5>1. h[n].next \in DOMAIN h => h[h[n].next].prev = n
          BY <1>1, LinkedFacts
        <5> QED
          BY <2>1, <4>1, <5>1
      <4>4. g[h[c].next].prev = c
        BY <1>4, <4>1, <4>2, <4>3
      <4> QED
        BY <1>3, <3>1, <4>1, <4>4
    <3>3. g[c].next = NULL => \A d \in DOMAIN g : d <= c
      BY <1>3, <2>1, <3>1, LinkedFacts
    <3>4. g[c].prev # NULL => g[g[c].prev].next = c
      <4>1. CASE c = h[n].next
        <5>1. b \in DOMAIN g
          BY <1>2, <1>3
        <5> QED
          BY <1>4, <4>1, <5>1
      <4>2. CASE c # h[n].next
        <5> SUFFICES ASSUME g[c].prev # NULL
                     PROVE  g[g[c].prev].next = c
          OBVIOUS
        <5>1. g[c].prev = h[c].prev
          BY <1>4, <4>2
        <5>2. h[c].prev \in DOMAIN h /\ h[h[c].prev].next = c
          BY <2>1, <5>1, LinkedFacts
        <5>3. h[c].prev \in DOMAIN g /\ h[c].prev # b
          BY <1>3, <2>1, <2>2, <5>1, <5>2
        <5> QED
          BY <1>4, <5>1, <5>2, <5>3
      <4> QED
        BY <4>1, <4>2
    <3>5. g[c].prev = NULL <=> c = head
      <4>1. CASE c = h[n].next
        <5>1. h[c].prev = n /\ h[c].prev # NULL
          BY <1>1, <1>2, <2>1, <4>1, LinkedFacts
        <5>2. c # head
          BY <2>1, <5>1 DEF Linked
        <5> QED
          BY <1>1, <1>2, <1>4, <4>1, <5>2
      <4>2. CASE c # h[n].next
        BY <1>4, <2>1, <4>2 DEF Linked
      <4> QED
        BY <4>1, <4>2
    <3> QED
      BY <2>1, <2>3, <3>2, <3>3, <3>4, <3>5
  <2> QED
    BY <2>4, <2>5
<1> QED
  BY <1>7, <1>8 DEF Linked

\* A list with the links of an ordered one is ordered, whatever its sizes and
\* whatever is free in it.
LEMMA SameLinks ==
    ASSUME NEW h, NEW head, Linked(h, head), NEW g, DOMAIN g = DOMAIN h,
           \A c \in DOMAIN h : /\ g[c] \in Header(DOMAIN h)
                               /\ g[c].next = h[c].next /\ g[c].prev = h[c].prev
    PROVE  Linked(g, head)
<1>1. DOMAIN g # {} => head \in DOMAIN g
  BY DEF Linked
<1>2. ASSUME NEW c \in DOMAIN g
      PROVE  /\ c \in Nat
             /\ g[c] \in Header(DOMAIN g)
             /\ g[c].next # NULL => /\ c < g[c].next
                                    /\ g[g[c].next].prev = c
                                    /\ \A d \in DOMAIN g : c < d => g[c].next <= d
             /\ g[c].next = NULL => \A d \in DOMAIN g : d <= c
             /\ g[c].prev # NULL => g[g[c].prev].next = c
             /\ g[c].prev = NULL <=> c = head
  <2>1. h[c].next \in DOMAIN h \cup {NULL} /\ h[c].prev \in DOMAIN h \cup {NULL}
    BY DEF Linked, Header
  <2> QED
    BY <2>1 DEF Linked
<1> QED
  BY <1>1, <1>2 DEF Linked

\* g is the list h after split_block has cut b behind its first n bytes: the
\* rest, less a header, is the free block at address new.
Cut(h, b, n, new, g) ==
    /\ DOMAIN g = DOMAIN h \cup {new}
    /\ \A c \in DOMAIN g :
          /\ g[c] \in Header(DOMAIN g)
          /\ g[c].free = IF c = new THEN TRUE ELSE h[c].free
          /\ g[c].size = IF c = b THEN n
                         ELSE IF c = new THEN h[b].size - n - HeaderSize ELSE h[c].size
          /\ g[c].next = IF c = b THEN new ELSE IF c = new THEN h[b].next ELSE h[c].next
          /\ g[c].prev = IF c = new THEN b ELSE IF c = h[b].next THEN new ELSE h[c].prev

\* What split_block does to the headers.
LEMMA SplitFields ==
    ASSUME NEW h, NEW head, Linked(h, head), NEW b \in DOMAIN h, NEW n \in Nat, NEW new,
           new = b + HeaderSize + n, ~ (h[b].size < n + HeaderSize + MIN_SPLIT),
           new \notin DOMAIN h
    PROVE  Cut(h, b, n, new, split_block(h, b, n))
<1> DEFINE g == split_block(h, b, n)
           rest == h[b].size - n - HeaderSize
<1>1. g = [c \in DOMAIN h \cup {new} |->
             CASE c = b -> [h[b] EXCEPT !.size = n, !.next = new]
               [] c = new -> [size |-> rest, free |-> TRUE, next |-> h[b].next, prev |-> b]
               [] c = h[b].next -> [h[c] EXCEPT !.prev = new]
               [] OTHER -> h[c]]
  BY DEF split_block, Rest
<1>2. /\ b \in Nat /\ new \in Nat /\ b # new /\ rest \in Nat
      /\ h[b].next # b /\ h[b].next # new /\ h[b].next \in DOMAIN h \cup {NULL}
  <2>1. HeaderSize \in Nat \ {0} /\ MIN_SPLIT \in Nat \ {0} /\ NULL \notin Nat
    BY UserHeapConstants
  <2>2. b \in Nat /\ h[b].size \in Nat
    BY LinkedFacts
  <2>3. new \in Nat /\ b # new /\ rest \in Nat
    BY <2>1, <2>2
  <2>4. h[b].next # b /\ h[b].next \in DOMAIN h \cup {NULL}
    BY <2>2, LinkedFacts
  <2> QED
    BY <2>1, <2>2, <2>3, <2>4
<1>3. \A c \in DOMAIN h : h[c] \in Header(DOMAIN h)
  BY DEF Linked
<1> HIDE DEF g, rest
<1>4. DOMAIN g = DOMAIN h \cup {new}
  BY <1>1
<1>5. ASSUME NEW c \in DOMAIN g
      PROVE  /\ g[c] \in Header(DOMAIN g)
             /\ g[c].free = IF c = new THEN TRUE ELSE h[c].free
             /\ g[c].size = IF c = b THEN n ELSE IF c = new THEN rest ELSE h[c].size
             /\ g[c].next = IF c = b THEN new
                            ELSE IF c = new THEN h[b].next ELSE h[c].next
             /\ g[c].prev = IF c = new THEN b
                            ELSE IF c = h[b].next THEN new ELSE h[c].prev
  <2>1. h[b] \in Header(DOMAIN h)
    BY <1>3
  <2>2. CASE c = b
    <3>1. g[c] = [h[b] EXCEPT !.size = n, !.next = new]
      BY <1>1, <1>2, <1>4, <2>2
    <3> QED
      BY <1>2, <1>4, <2>1, <2>2, <3>1 DEF Header
  <2>3. CASE c = new
    <3>1. g[c] = [size |-> rest, free |-> TRUE, next |-> h[b].next, prev |-> b]
      BY <1>1, <1>2, <1>4, <2>3
    <3> QED
      BY <1>2, <1>4, <2>1, <2>3, <3>1 DEF Header
  <2>4. CASE c # b /\ c # new /\ c = h[b].next
    <3>1. g[c] = [h[c] EXCEPT !.prev = new] /\ h[c] \in Header(DOMAIN h)
      BY <1>1, <1>3, <1>4, <2>4
    <3> QED
      BY <1>4, <2>4, <3>1 DEF Header
  <2>5. CASE c # b /\ c # new /\ c # h[b].next
    <3>1. g[c] = h[c] /\ h[c] \in Header(DOMAIN h)
      BY <1>1, <1>3, <1>4, <2>5
    <3> QED
      BY <1>4, <2>5, <3>1 DEF Header
  <2> QED
    BY <2>2, <2>3, <2>4, <2>5
<1> QED
  BY <1>4, <1>5 DEF g, rest, Cut

\* A block cut off before the next one keeps the list in order.
LEMMA SplitLinked ==
    ASSUME NEW h, NEW head, Linked(h, head), NEW b \in DOMAIN h, NEW n, NEW new \in Nat,
           NEW g, b < new, \A c \in DOMAIN h : b < c => new < c, Cut(h, b, n, new, g)
    PROVE  Linked(g, head)
<1>1. /\ b \in Nat /\ NULL \notin Nat /\ head \in DOMAIN h /\ b # new
      /\ new \notin DOMAIN h
      /\ \A c \in DOMAIN h : c \in Nat
  BY LinkedFacts
<1>2. DOMAIN g = DOMAIN h \cup {new}
  BY DEF Cut
<1>3. \A c \in DOMAIN g :
          /\ g[c] \in Header(DOMAIN g)
          /\ g[c].next = IF c = b THEN new ELSE IF c = new THEN h[b].next ELSE h[c].next
          /\ g[c].prev = IF c = new THEN b ELSE IF c = h[b].next THEN new ELSE h[c].prev
  BY DEF Cut
<1>4. head \in DOMAIN g /\ head # new
  BY <1>1, <1>2
<1>5. h[b].next # new /\ h[b].next # b
  BY <1>1, LinkedFacts
<1>6. ASSUME NEW c \in DOMAIN g
      PROVE  /\ c \in Nat
             /\ g[c].next # NULL => /\ c < g[c].next
                                    /\ g[g[c].next].prev = c
                                    /\ \A d \in DOMAIN g : c < d => g[c].next <= d
             /\ g[c].next = NULL => \A d \in DOMAIN g : d <= c
             /\ g[c].prev # NULL => g[g[c].prev].next = c
             /\ g[c].prev = NULL <=> c = head
  <2>1. CASE c = b
    <3>1. g[c].next = new /\ new # NULL /\ new \in DOMAIN g /\ g[new].prev = b
      BY <1>1, <1>2, <1>3, <2>1
    <3>2. \A d \in DOMAIN g : c < d => new <= d
      BY <1>1, <1>2, <2>1
    <3>3. g[c].prev = h[b].prev
      BY <1>3, <1>5, <1>1, <2>1
    <3>4. h[b].prev # NULL => g[h[b].prev].next = b
      <4> SUFFICES ASSUME h[b].prev # NULL  PROVE g[h[b].prev].next = b
        OBVIOUS
      <4>1. h[b].prev \in DOMAIN h /\ h[h[b].prev].next = b /\ h[b].prev < b
        BY LinkedFacts
      <4>2. h[b].prev # b /\ h[b].prev # new
        BY <1>1, <4>1
      <4> QED
        BY <1>2, <1>3, <4>1, <4>2
    <3>5. h[b].prev = NULL <=> b = head
      BY DEF Linked
    <3> QED
      BY <1>1, <2>1, <3>1, <3>2, <3>3, <3>4, <3>5
  <2>2. CASE c = new
    <3>1. g[c].next = h[b].next /\ g[c].prev = b /\ b \in DOMAIN g /\ g[b].next = new
      BY <1>1, <1>2, <1>3, <2>2
    <3>2. CASE h[b].next = NULL
      <4>1. \A d \in DOMAIN h : d <= b
        BY <1>1, <3>2, LinkedFacts
      <4>2. \A d \in DOMAIN g : d <= c
        BY <1>1, <1>2, <2>2, <4>1
      <4> QED
        BY <1>1, <1>4, <2>2, <3>1, <3>2, <4>2
    <3>3. CASE h[b].next # NULL
      <4>1. /\ h[b].next \in DOMAIN h /\ b < h[b].next
            /\ \A d \in DOMAIN h : b < d => h[b].next <= d
        BY <3>3, LinkedFacts
      <4>2. new < h[b].next /\ h[b].next \in DOMAIN g /\ g[h[b].next].prev = new
        BY <1>2, <1>3, <1>5, <4>1
      <4>3. \A d \in DOMAIN g : c < d => h[b].next <= d
        BY <1>1, <1>2, <2>2, <4>1
      <4>4. g[c].next # NULL /\ g[c].next \in DOMAIN g /\ c < g[c].next
        BY <2>2, <3>1, <3>3, <4>2
      <4>5. g[g[c].next].prev = c /\ g[g[c].prev].next = c
        BY <2>2, <3>1, <4>2
      <4>6. \A d \in DOMAIN g : c < d => g[c].next <= d
        BY <3>1, <4>3
      <4>7. c \in Nat /\ g[c].prev # NULL /\ c # head
        BY <1>1, <1>4, <2>2, <3>1
      <4> QED
        BY <4>4, <4>5, <4>6, <4>7
    <3> QED
      BY <3>2, <3>3
  <2>3. CASE c # b /\ c # new
    <3>1. c \in DOMAIN h /\ g[c].next = h[c].next /\ c \in Nat
      BY <1>1, <1>2, <1>3, <2>3
    <3>2. g[c].next # NULL => /\ c < g[c].next
                              /\ g[g[c].next].prev = c
                              /\ \A d \in DOMAIN g : c < d => g[c].next <= d
      <4> SUFFICES ASSUME g[c].next # NULL
                   PROVE  /\ c < g[c].next
                          /\ g[g[c].next].prev = c
                          /\ \A d \in DOMAIN g : c < d => g[c].next <= d
        OBVIOUS
      <4>1. /\ h[c].next \in DOMAIN h /\ c < h[c].next /\ h[h[c].next].prev = c
            /\ \A d \in DOMAIN h : c < d => h[c].next <= d
        BY <3>1, LinkedFacts
      <4>2. h[c].next # h[b].next /\ h[c].next # new
        <5>1. h[b].next \in DOMAIN h => h[h[b].next].prev = b
          BY <1>1, LinkedFacts
        <5> QED
          BY <1>1, <2>3, <4>1, <5>1
      <4>3. g[h[c].next].prev = c
        BY <1>2, <1>3, <4>1, <4>2
      <4>4. c < new => h[c].next <= new
        <5> SUFFICES ASSUME c < new  PROVE h[c].next <= new
          OBVIOUS
        <5>1. c < b
          BY <1>1, <2>3, <3>1
        <5>2. h[c].next <= b
          BY <4>1, <5>1
        <5> QED
          BY <1>1, <4>1, <5>2
      <4> QED
        BY <1>2, <3>1, <4>1, <4>3, <4>4
    <3>3. g[c].next = NULL => \A d \in DOMAIN g : d <= c
      <4> SUFFICES ASSUME g[c].next = NULL  PROVE \A d \in DOMAIN g : d <= c
        OBVIOUS
      <4>1. \A d \in DOMAIN h : d <= c
        BY <1>1, <3>1, LinkedFacts
      <4>2. b < c
        BY <1>1, <2>3, <3>1, <4>1
      <4>3. new < c
        BY <3>1, <4>2
      <4> QED
        BY <1>1, <1>2, <3>1, <4>1, <4>3
    <3>4. CASE c = h[b].next
      <4>1. g[c].prev = new /\ g[new].next = c
        BY <1>1, <1>2, <1>3, <2>3, <3>4
      <4>2. h[c].prev = b
        BY <1>1, <3>1, <3>4, LinkedFacts
      <4>3. c # head
        BY <1>1, <3>1, <4>2 DEF Linked
      <4> QED
        BY <1>1, <3>1, <3>2, <3>3, <4>1, <4>3
    <3>5. CASE c # h[b].next
      <4>1. g[c].prev = h[c].prev
        BY <1>3, <2>3, <3>5
      <4>2. h[c].prev # NULL => g[h[c].prev].next = c
        <5> SUFFICES ASSUME h[c].prev # NULL  PROVE g[h[c].prev].next = c
          OBVIOUS
        <5>1. h[c].prev \in DOMAIN h /\ h[h[c].prev].next = c
          BY <3>1, LinkedFacts
        <5>2. h[c].prev # b /\ h[c].prev # new
          BY <1>1, <3>5, <5>1
        <5> QED
          BY <1>2, <1>3, <5>1, <5>2
      <4>3. h[c].prev = NULL <=> c = head
        BY <3>1 DEF Linked
      <4> QED
        BY <3>1, <3>2, <3>3, <4>1, <4>2, <4>3
    <3> QED
      BY <3>4, <3>5
  <2> QED
    BY <2>1, <2>2, <2>3
<1> QED
  BY <1>3, <1>4, <1>6 DEF Linked

\* g is the list h with a block of s bytes in use at e, behind the block last.
Appended(h, last, e, s, g) ==
    /\ DOMAIN g = DOMAIN h \cup {e}
    /\ \A c \in DOMAIN g :
          /\ g[c] \in Header(DOMAIN g)
          /\ g[c].free = IF c = e THEN FALSE ELSE h[c].free
          /\ g[c].size = IF c = e THEN s ELSE h[c].size
          /\ g[c].next = IF c = e THEN NULL ELSE IF c = last THEN e ELSE h[c].next
          /\ g[c].prev = IF c = e THEN last ELSE h[c].prev

\* last is the last block of h, or h is empty.
IsLast(h, last) ==
    IF DOMAIN h = {} THEN last = NULL ELSE last \in DOMAIN h /\ h[last].next = NULL

\* A block behind all the others keeps the list in order.
LEMMA AppendLinked ==
    ASSUME NEW h, NEW head, Linked(h, head), NEW last, IsLast(h, last), NEW e \in Nat,
           NEW s, NEW g, \A c \in DOMAIN h : c < e, Appended(h, last, e, s, g)
    PROVE  Linked(g, IF last = NULL THEN e ELSE head)
<1>1. NULL \notin Nat
  BY UserHeapConstants
<1>2. DOMAIN g = DOMAIN h \cup {e}
  BY DEF Appended
<1>3. \A c \in DOMAIN g :
          /\ g[c] \in Header(DOMAIN g)
          /\ g[c].next = IF c = e THEN NULL ELSE IF c = last THEN e ELSE h[c].next
          /\ g[c].prev = IF c = e THEN last ELSE h[c].prev
  BY DEF Appended
<1>4. \A c \in DOMAIN h : c \in Nat
  BY DEF Linked
<1>5. e \notin DOMAIN h
  BY <1>4
<1>6. CASE DOMAIN h = {}
  <2>1. last = NULL /\ DOMAIN g = {e} /\ g[e].next = NULL /\ g[e].prev = NULL
    BY <1>2, <1>3, <1>6 DEF IsLast
  <2> QED
    BY <1>3, <2>1 DEF Linked
<1>7. CASE DOMAIN h # {}
  <2>1. last \in DOMAIN h /\ h[last].next = NULL /\ last # NULL /\ head \in DOMAIN h
    BY <1>1, <1>4, <1>7 DEF IsLast, Linked
  <2>2. \A c \in DOMAIN h : c <= last
    BY <2>1, LinkedFacts
  <2>3. ASSUME NEW c \in DOMAIN g
        PROVE  /\ c \in Nat
               /\ g[c].next # NULL => /\ c < g[c].next
                                      /\ g[g[c].next].prev = c
                                      /\ \A d \in DOMAIN g : c < d => g[c].next <= d
               /\ g[c].next = NULL => \A d \in DOMAIN g : d <= c
               /\ g[c].prev # NULL => g[g[c].prev].next = c
               /\ g[c].prev = NULL <=> c = head
    <3>1. CASE c = e
      <4>1. g[c].next = NULL /\ g[c].prev = last /\ g[last].next = e
        BY <1>2, <1>3, <1>5, <2>1, <3>1
      <4>2. \A d \in DOMAIN g : d <= e
        BY <1>2, <1>4
      <4> QED
        BY <1>5, <2>1, <3>1, <4>1, <4>2
    <3>2. CASE c # e
      <4>1. c \in DOMAIN h /\ c \in Nat /\ g[c].prev = h[c].prev
        BY <1>2, <1>3, <1>4, <3>2
      <4>2. g[c].prev # NULL => g[g[c].prev].next = c
        <5> SUFFICES ASSUME h[c].prev # NULL  PROVE g[h[c].prev].next = c
          BY <4>1
        <5>1. h[c].prev \in DOMAIN h /\ h[h[c].prev].next = c
          BY <4>1, LinkedFacts
        <5>2. h[c].prev # last /\ h[c].prev # e
          BY <1>1, <1>5, <2>1, <4>1, <5>1
        <5> QED
          BY <1>2, <1>3, <5>1, <5>2
      <4>3. g[c].prev = NULL <=> c = head
        BY <4>1 DEF Linked
      <4>4. CASE c = last
        <5>1. g[c].next = e /\ e # NULL /\ g[e].prev = c /\ c < e
          BY <1>1, <1>2, <1>3, <3>2, <4>1, <4>4
        <5>2. \A d \in DOMAIN g : c < d => e <= d
          BY <1>2, <1>4, <2>2, <4>1, <4>4
        <5> QED
          BY <4>1, <4>2, <4>3, <5>1, <5>2
      <4>5. CASE c # last
        <5>1. g[c].next = h[c].next
          BY <1>3, <3>2, <4>5
        <5>2. h[c].next # NULL
          <6>1. last <= c \/ h[c].next # NULL
            BY <2>1, <4>1, LinkedFacts
          <6> QED
            BY <1>4, <2>1, <2>2, <4>1, <4>5, <6>1
        <5>3. /\ h[c].next \in DOMAIN h /\ c < h[c].next /\ h[h[c].next].prev = c
              /\ \A d \in DOMAIN h : c < d => h[c].next <= d
          BY <4>1, <5>2, LinkedFacts
        <5>4. g[h[c].next].prev = c
          BY <1>2, <1>3, <1>5, <5>3
        <5>5. h[c].next <= e
          BY <1>4, <5>3
        <5> QED
          BY <1>2, <4>1, <4>2, <4>3, <5>1, <5>2, <5>3, <5>4, <5>5
      <4> QED
        BY <4>4, <4>5
    <3> QED
      BY <3>1, <3>2
  <2>4. head \in DOMAIN g
    BY <1>2, <2>1
  <2> QED
    BY <1>3, <2>1, <2>3, <2>4 DEF Linked
<1> QED
  BY <1>6, <1>7

-----------------------------------------------------------------------------
(***************************************************************************)
(* Recursion along a chain: the list, and the way back that coalesce takes.*)
(***************************************************************************)

\* A set of naturals that is not empty has a least element.
LEMMA LeastNat ==
    ASSUME NEW T, T \subseteq Nat, T # {}
    PROVE  \E x \in T : \A y \in T : x <= y
<1>1. PICK x \in T : \A y \in T : ~ (<<y, x>> \in OpToRel(<, Nat))
  BY NatLessThanWellFounded, WFMin
<1>2. \A y \in T : ~ (y < x)
  BY <1>1 DEF OpToRel
<1> QED
  BY <1>2

\* From every element that is not in L one leads on, to an element of lower rank.
Founded(X, L, l, r, M) ==
    /\ M \in Nat /\ r \in [X -> 0 .. M]
    /\ \A x \in X \ L : l[x] \in X /\ r[l[x]] < r[x]

\* What a at the ends, and G elsewhere, determine.
Rule(X, S, a, G) == a \in [X -> S] /\ G \in [X -> [S -> S]]
Solves(X, L, l, a, G, f) ==
    /\ f = [x \in X |-> f[x]]
    /\ \A x \in X : f[x] = IF x \in L THEN a[x] ELSE G[x][f[l[x]]]

\* Whatever satisfies a recursive definition along the ranks has its values in S.
LEMMA ChainInduction ==
    \A X, L, l, r, M, S, a, G, f :
        Founded(X, L, l, r, M) /\ Rule(X, S, a, G) /\ Solves(X, L, l, a, G, f)
            => \A x \in X : f[x] \in S
<1> SUFFICES ASSUME NEW X, NEW L, NEW l, NEW r, NEW M, NEW S, NEW a, NEW G, NEW f,
                    Founded(X, L, l, r, M), Rule(X, S, a, G), Solves(X, L, l, a, G, f),
                    NEW z \in X, f[z] \notin S
             PROVE  FALSE
  OBVIOUS
<1> DEFINE B == {x \in X : f[x] \notin S}
           T == {r[x] : x \in B}
<1>1. \A x \in X : r[x] \in Nat
  BY DEF Founded
<1>2. T \subseteq Nat /\ T # {}
  BY <1>1
<1>3. PICK y \in T : \A t \in T : y <= t
  <2> HIDE DEF T
  <2> QED
    BY <1>2, LeastNat
<1>4. PICK x \in B : r[x] = y
  BY <1>3
<1>5. \A w \in B : r[x] <= r[w]
  BY <1>3, <1>4
<1>6. x \in X /\ f[x] \notin S
  BY <1>4
<1>7. CASE x \in L
  BY <1>6, <1>7 DEF Rule, Solves
<1>8. CASE x \notin L
  <2>1. l[x] \in X /\ r[l[x]] < r[x]
    BY <1>6, <1>8 DEF Founded
  <2>2. ~ (r[x] <= r[l[x]])
    BY <1>1, <1>6, <2>1
  <2>3. f[l[x]] \in S
    BY <1>5, <2>1, <2>2
  <2>4. f[x] = G[x][f[l[x]]] /\ G[x] \in [S -> S]
    BY <1>6, <1>8 DEF Rule, Solves
  <2> QED
    BY <1>6, <2>3, <2>4
<1> QED
  BY <1>7, <1>8

\* A recursive definition along the ranks has a solution.
LEMMA ChainRecursion ==
    \A X, L, l, r, M, S, a, G :
        Founded(X, L, l, r, M) /\ Rule(X, S, a, G) => \E f : Solves(X, L, l, a, G, f)
<1> SUFFICES ASSUME NEW X, NEW L, NEW l, NEW r, NEW M, NEW S, NEW a, NEW G,
                    Founded(X, L, l, r, M), Rule(X, S, a, G)
             PROVE  \E f : Solves(X, L, l, a, G, f)
  OBVIOUS
<1> DEFINE Val(f, x) == IF x \in L THEN a[x] ELSE G[x][f[l[x]]]
           Good(k, f) == f \in [X -> S] /\ \A x \in X : r[x] < k => f[x] = Val(f, x)
           Bad == {k \in Nat : ~ \E f : Good(k, f)}
<1>1. \A x \in X : r[x] \in Nat /\ r[x] < M + 1
  BY DEF Founded
<1>2. Good(0, a)
  BY <1>1 DEF Rule
<1>3. ASSUME NEW k \in Nat, NEW f, Good(k, f)
      PROVE  \E g : Good(k + 1, g)
  <2> DEFINE g == [x \in X |-> IF r[x] = k THEN Val(f, x) ELSE f[x]]
  <2>1. \A x \in X : Val(f, x) \in S
    <3> SUFFICES ASSUME NEW x \in X  PROVE Val(f, x) \in S
      OBVIOUS
    <3>1. CASE x \in L
      BY <3>1 DEF Rule
    <3>2. CASE x \notin L
      <4>1. f[l[x]] \in S
        BY <1>3, <3>2 DEF Founded
      <4>2. G[x] \in [S -> S]
        BY DEF Rule
      <4> QED
        BY <3>2, <4>1, <4>2
    <3> QED
      BY <3>1, <3>2
  <2>2. g \in [X -> S]
    BY <1>3, <2>1
  <2>3. ASSUME NEW x \in X, r[x] < k + 1  PROVE g[x] = Val(g, x)
    <3>1. x \notin L => l[x] \in X /\ r[l[x]] < k /\ r[l[x]] # k
      <4> SUFFICES ASSUME x \notin L
                   PROVE  l[x] \in X /\ r[l[x]] < k
        BY <1>1
      <4>1. l[x] \in X /\ r[l[x]] < r[x]
        BY DEF Founded
      <4> QED
        BY <1>1, <2>3, <4>1
    <3>2. Val(g, x) = Val(f, x)
      BY <3>1
    <3>3. r[x] = k \/ r[x] < k
      BY <1>1, <2>3
    <3> QED
      BY <1>3, <3>2, <3>3
  <2> HIDE DEF g
  <2> QED
    BY <2>2, <2>3
<1>4. Bad = {}
  <2> SUFFICES ASSUME Bad # {}  PROVE FALSE
    OBVIOUS
  <2>1. Bad \subseteq Nat
    OBVIOUS
  <2>2. PICK k \in Bad : \A j \in Bad : k <= j
    <3> HIDE DEF Bad
    <3> QED
      BY <2>1, LeastNat
  <2>3. k # 0
    BY <1>2, <2>2
  <2>4. k - 1 \in Nat /\ (k - 1) + 1 = k /\ ~ (k <= k - 1)
    BY <2>2, <2>3
  <2>5. PICK f : Good(k - 1, f)
    BY <2>2, <2>4
  <2> HIDE DEF Good
  <2>6. \E g : Good((k - 1) + 1, g)
    BY <1>3, <2>4, <2>5
  <2> QED
    BY <2>2, <2>4, <2>6
<1>5. PICK f : Good(M + 1, f)
  <2>1. M + 1 \in Nat
    BY DEF Founded
  <2> QED
    BY <1>4, <2>1
<1>6. \A x \in X : f[x] = Val(f, x)
  BY <1>1, <1>5
<1>7. f = [x \in X |-> f[x]]
  BY <1>5
<1> QED
  BY <1>6, <1>7 DEF Solves

\* The sequences that end with the last block.
ToTheEnd(h) ==
    {s \in Seq(DOMAIN h) : s # <<>> /\ h[s[Len(s)]].next \notin DOMAIN h}

\* The list holds blocks only, and ends with the last one.
LEMMA ListFacts ==
    ASSUME Linked(block, heap_head), NEW e \in Nat, \A b \in DOMAIN block : b < e
    PROVE  /\ List \in Seq(DOMAIN block)
           /\ IsLast(block, IF List = <<>> THEN NULL ELSE Last(List))
<1> DEFINE X == DOMAIN block
           S == ToTheEnd(block)
<1>1. CASE X = {}
  <2>1. List = <<>>
    BY <1>1 DEF List
  <2> QED
    BY <1>1, <2>1 DEF IsLast
<1>2. CASE X # {}
  <2>1. PICK L : L = {b \in X : block[b].next \notin X}
    OBVIOUS
  <2>2. PICK l : l = [b \in X |-> block[b].next]
    OBVIOUS
  <2>3. PICK r : r = [b \in X |-> e - b]
    OBVIOUS
  <2>4. PICK a : a = [b \in X |-> IF b \in L THEN <<b>> ELSE CHOOSE s \in S : TRUE]
    OBVIOUS
  <2>5. PICK G : G = [b \in X |-> [s \in S |-> <<b>> \o s]]
    OBVIOUS
  <2>6. \A b \in X : b \in Nat /\ b < e
    BY DEF Linked
  <2>7. Founded(X, L, l, r, e)
    <3>1. r \in [X -> 0 .. e]
      BY <2>3, <2>6
    <3>2. ASSUME NEW b \in X \ L  PROVE l[b] \in X /\ r[l[b]] < r[b]
      <4>1. block[b].next \in X /\ l[b] = block[b].next
        BY <2>1, <2>2
      <4>2. b < block[b].next
        BY <4>1, LinkedFacts
      <4> QED
        BY <2>3, <2>6, <4>1, <4>2
    <3> QED
      BY <3>1, <3>2 DEF Founded
  <2>8. \A b \in X, s \in S : <<b>> \o s \in S
    <3> SUFFICES ASSUME NEW b \in X, NEW s \in S  PROVE <<b>> \o s \in S
      OBVIOUS
    <3>1. s \in Seq(X) /\ s # <<>> /\ block[s[Len(s)]].next \notin X
      BY DEF ToTheEnd
    <3>2. PICK t : t = <<b>> \o s
      OBVIOUS
    <3>3. t \in Seq(X) /\ Len(t) = Len(s) + 1 /\ Len(s) \in Nat /\ Len(s) # 0
      BY <3>1, <3>2
    <3>4. t[Len(t)] = s[Len(s)] /\ t # <<>>
      BY <3>1, <3>2, <3>3
    <3> QED
      BY <3>1, <3>2, <3>3, <3>4 DEF ToTheEnd
  <2>9. \A b \in L : <<b>> \in S
    <3> SUFFICES ASSUME NEW b \in L  PROVE <<b>> \in S
      OBVIOUS
    <3>1. b \in X /\ block[b].next \notin X
      BY <2>1
    <3>2. <<b>> \in Seq(X) /\ Len(<<b>>) = 1 /\ <<b>>[1] = b /\ <<b>> # <<>>
      BY <3>1
    <3> QED
      BY <3>1, <3>2 DEF ToTheEnd
  <2>10. S # {}
    <3>1. \E b \in X : block[b].next \notin X
      <4> DEFINE T == {r[b] : b \in X}
      <4>1. T \subseteq Nat /\ T # {}
        BY <1>2, <2>3, <2>6
      <4>2. PICK y \in T : \A t \in T : y <= t
        <5> HIDE DEF T
        <5> QED
          BY <4>1, LeastNat
      <4>3. PICK b \in X : y = r[b]
        BY <4>2
      <4>4. ASSUME block[b].next \in X  PROVE FALSE
        <5>1. b < block[b].next
          BY <4>4, LinkedFacts
        <5>2. r[b] <= r[block[b].next]
          BY <4>2, <4>3, <4>4
        <5> QED
          BY <2>3, <2>6, <4>4, <5>1, <5>2
      <4> QED
        BY <4>4
    <3> QED
      BY <2>1, <2>9, <3>1
  <2>11. Rule(X, S, a, G)
    <3> HIDE DEF S
    <3>1. a \in [X -> S]
      BY <2>4, <2>9, <2>10
    <3>2. \A b \in X : [s \in S |-> <<b>> \o s] \in [S -> S]
      BY <2>8
    <3> QED
      BY <2>5, <3>1, <3>2 DEF Rule
  <2>12. PICK f : Solves(X, L, l, a, G, f)
    BY <2>7, <2>11, ChainRecursion
  <2>13. \A b \in X : f[b] \in S
    BY <2>7, <2>11, <2>12, ChainInduction
  <2> DEFINE Val(g, b) == <<b>> \o (IF block[b].next \in X THEN g[block[b].next] ELSE <<>>)
             Is(g) == g = [b \in X |-> Val(g, b)]
             g == CHOOSE g : Is(g)
  <2>14. \A b \in L : <<b>> \o <<>> = <<b>>
    BY <2>1
  <2>15. Is(f)
    <3>1. ASSUME NEW b \in X  PROVE f[b] = Val(f, b)
      <4>1. CASE b \in L
        BY <2>1, <2>4, <2>12, <2>14, <4>1 DEF Solves
      <4>2. CASE b \notin L
        <5>1. block[b].next \in X /\ l[b] = block[b].next
          BY <2>1, <2>2, <4>2
        <5>2. f[b] = G[b][f[block[b].next]]
          BY <2>12, <4>2, <5>1 DEF Solves
        <5>3. f[block[b].next] \in S
          BY <2>13, <5>1
        <5> HIDE DEF S
        <5>4. G[b][f[block[b].next]] = <<b>> \o f[block[b].next]
          BY <2>5, <5>3
        <5> QED
          BY <5>1, <5>2, <5>4
      <4> QED
        BY <4>1, <4>2
    <3>2. f = [b \in X |-> f[b]]
      BY <2>12 DEF Solves
    <3> HIDE DEF Val
    <3> QED
      BY <3>1, <3>2
  <2>16. Is(g)
    <3> HIDE DEF Is
    <3> QED
      BY <2>15
  <2>17. heap_head \in X
    BY <1>2 DEF Linked
  <2>18. List = g[heap_head]
    BY <2>17 DEF List
  <2> HIDE DEF g
  <2>19. ASSUME NEW b \in X, g[b] \notin S  PROVE FALSE
    <3> DEFINE B == {c \in X : g[c] \notin S}
               T == {r[c] : c \in B}
    <3>1. T \subseteq Nat /\ T # {}
      BY <2>3, <2>6, <2>19
    <3>2. PICK y \in T : \A t \in T : y <= t
      <4> HIDE DEF T
      <4> QED
        BY <3>1, LeastNat
    <3>3. PICK c \in B : y = r[c]
      BY <3>2
    <3>4. c \in X /\ g[c] \notin S
      BY <3>3
    <3>5. g[c] = Val(g, c)
      BY <2>16, <3>4
    <3>6. CASE block[c].next \in X
      <4>1. c < block[c].next
        BY <3>4, <3>6, LinkedFacts
      <4>2. r[block[c].next] < r[c] /\ r[block[c].next] \in Nat /\ r[c] \in Nat
        BY <2>3, <2>6, <3>4, <3>6, <4>1
      <4>3. g[block[c].next] \in S
        BY <3>2, <3>3, <3>6, <4>2
      <4> QED
        BY <2>8, <3>4, <3>5, <3>6, <4>3
    <3>7. CASE block[c].next \notin X
      <4>1. c \in L
        BY <2>1, <3>4, <3>7
      <4> QED
        BY <2>9, <2>14, <3>4, <3>5, <3>7, <4>1
    <3> QED
      BY <3>6, <3>7
  <2>20. List \in S
    BY <2>17, <2>18, <2>19
  <2>21. List \in Seq(X) /\ List # <<>> /\ block[Last(List)].next \notin X
    BY <2>20 DEF ToTheEnd, Last
  <2>22. Last(List) \in X
    BY <2>21 DEF Last
  <2>23. block[Last(List)].next = NULL
    BY <2>21, <2>22, LinkedFacts
  <2> QED
    BY <1>2, <2>21, <2>22, <2>23 DEF IsLast
<1> QED
  BY <1>1, <1>2

\* The merges of coalesce, for the blocks s in order: for one block, and for two.
Merges(h, s) == FoldLeft(MergeNext, h, s)

\* One block: coalesce found nothing free before it.
LEMMA FoldOne ==
    ASSUME NEW h, NEW b
    PROVE  Merges(h, <<b>>) = MergeNext(h, b)
<1> DEFINE s == <<b>>
           Val(g, T) == IF T = {} THEN h ELSE MergeNext(g[T \ {Max(T)}], s[Max(T)])
           Is(g) == g = [T \in SUBSET DOMAIN s |-> Val(g, T)]
           g == CHOOSE g : Is(g)
           f == [T \in SUBSET DOMAIN s |-> IF T = {} THEN h ELSE MergeNext(h, b)]
<1>1. DOMAIN s = {1} /\ s[1] = b
  OBVIOUS
<1>2. Max({1}) = 1
  BY DEF Max
<1>3. SUBSET DOMAIN s = {{}, {1}}
  BY <1>1
<1>4. Is(f)
  <2>1. \A T \in SUBSET DOMAIN s : f[T] = Val(f, T)
    <3> SUFFICES ASSUME NEW T \in SUBSET DOMAIN s  PROVE f[T] = Val(f, T)
      OBVIOUS
    <3>1. CASE T = {}
      BY <3>1
    <3>2. CASE T = {1}
      <4>1. T \ {Max(T)} = {} /\ s[Max(T)] = b /\ T # {}
        BY <1>1, <1>2, <3>2
      <4>2. f[{}] = h /\ f[T] = MergeNext(h, b)
        BY <4>1
      <4> HIDE DEF f, s
      <4> QED
        BY <4>1, <4>2
    <3> QED
      BY <1>3, <3>1, <3>2
  <2> HIDE DEF Val
  <2> QED
    BY <2>1
<1>5. Is(g)
  <2> HIDE DEF Is
  <2> QED
    BY <1>4
<1>6. Merges(h, s) = g[DOMAIN s]
  BY DEF Merges, FoldLeft, MapThenFoldSet
<1> HIDE DEF g
<1>7. g[{}] = h
  BY <1>3, <1>5
<1>8. g[{1}] = Val(g, {1})
  <2> HIDE DEF Val
  <2> QED
    BY <1>3, <1>5
<1>9. {1} \ {1} = {} /\ {1} # {}
  OBVIOUS
<1> HIDE DEF s
<1>10. g[{1}] = MergeNext(h, b)
  BY <1>1, <1>2, <1>7, <1>8, <1>9
<1> QED
  BY <1>1, <1>6, <1>10 DEF s

\* Two blocks: the one that was freed, and the free one before it.
LEMMA FoldTwo ==
    ASSUME NEW h, NEW b, NEW c
    PROVE  Merges(h, <<b, c>>) = MergeNext(MergeNext(h, b), c)
<1> DEFINE s == <<b, c>>
           Val(g, T) == IF T = {} THEN h ELSE MergeNext(g[T \ {Max(T)}], s[Max(T)])
           Is(g) == g = [T \in SUBSET DOMAIN s |-> Val(g, T)]
           g == CHOOSE g : Is(g)
           f == [T \in SUBSET DOMAIN s |->
                   IF T = {} THEN h
                   ELSE IF T = {1} THEN MergeNext(h, b)
                   ELSE IF T = {2} THEN MergeNext(h, c)
                   ELSE MergeNext(MergeNext(h, b), c)]
<1>1. DOMAIN s = {1, 2} /\ s[1] = b /\ s[2] = c
  OBVIOUS
<1>2. Max({1}) = 1 /\ Max({2}) = 2 /\ Max({1, 2}) = 2
  BY DEF Max
<1>3. \A T \in SUBSET DOMAIN s : T = {} \/ T = {1} \/ T = {2} \/ T = {1, 2}
  BY <1>1
<1>4. /\ {} \in SUBSET DOMAIN s /\ {1} \in SUBSET DOMAIN s /\ {2} \in SUBSET DOMAIN s
      /\ {1, 2} \in SUBSET DOMAIN s
      /\ {1} # {} /\ {2} # {} /\ {1, 2} # {} /\ {1} # {2} /\ {1, 2} # {1} /\ {1, 2} # {2}
      /\ {1} \ {1} = {} /\ {2} \ {2} = {} /\ {1, 2} \ {2} = {1}
  BY <1>1
<1>5. Is(f)
  <2>1. /\ f[{}] = h /\ f[{1}] = MergeNext(h, b) /\ f[{2}] = MergeNext(h, c)
        /\ f[{1, 2}] = MergeNext(MergeNext(h, b), c)
    <3> HIDE DEF s
    <3> QED
      BY <1>4
  <2>2. f = [T \in SUBSET DOMAIN s |-> f[T]]
    OBVIOUS
  <2> HIDE DEF f, s
  <2>3. \A T \in SUBSET DOMAIN s : f[T] = Val(f, T)
    <3> SUFFICES ASSUME NEW T \in SUBSET DOMAIN s  PROVE f[T] = Val(f, T)
      OBVIOUS
    <3>1. CASE T = {}
      BY <2>1, <3>1
    <3>2. CASE T = {1}
      BY <1>1, <1>2, <1>4, <2>1, <3>2
    <3>3. CASE T = {2}
      BY <1>1, <1>2, <1>4, <2>1, <3>3
    <3>4. CASE T = {1, 2}
      BY <1>1, <1>2, <1>4, <2>1, <3>4
    <3> QED
      BY <1>3, <3>1, <3>2, <3>3, <3>4
  <2> HIDE DEF Val
  <2> QED
    BY <2>2, <2>3
<1>6. Is(g)
  <2> HIDE DEF Is
  <2> QED
    BY <1>5
<1>7. Merges(h, s) = g[DOMAIN s]
  BY DEF Merges, FoldLeft, MapThenFoldSet
<1> HIDE DEF g, s
<1>8. g[{}] = Val(g, {}) /\ g[{1}] = Val(g, {1}) /\ g[{1, 2}] = Val(g, {1, 2})
  <2> HIDE DEF Val
  <2> QED
    BY <1>4, <1>6
<1>9. g[{}] = h
  BY <1>8
<1>10. g[{1}] = MergeNext(h, b)
  BY <1>1, <1>2, <1>4, <1>8, <1>9
<1>11. g[{1, 2}] = MergeNext(MergeNext(h, b), c)
  BY <1>1, <1>2, <1>4, <1>8, <1>10
<1> QED
  BY <1>1, <1>7, <1>11 DEF s

\* The way back of coalesce over a free block and one that has none before it.
LEMMA PairUp ==
    ASSUME NEW X, NEW b \in X, NEW p \in X
    PROVE  <<b>> \o <<p>> = <<b, p>>
<1>1. PICK t : t = <<b>> \o <<p>>
  OBVIOUS
<1>2. PICK u : u = <<b, p>>
  OBVIOUS
<1>3. <<b>> \in Seq(X) /\ <<p>> \in Seq(X) /\ Len(<<b>>) = 1 /\ Len(<<p>>) = 1
  OBVIOUS
<1>4. t \in Seq(X) /\ Len(t) = 2 /\ t[1] = b /\ t[2] = p
  BY <1>1, <1>3
<1>5. u \in Seq(X) /\ Len(u) = 2 /\ u[1] = b /\ u[2] = p
  BY <1>2
<1>6. t = [i \in 1 .. 2 |-> t[i]] /\ u = [i \in 1 .. 2 |-> u[i]]
  BY <1>4, <1>5
<1>7. \A i \in 1 .. 2 : t[i] = u[i]
  BY <1>4, <1>5
<1>8. t = u
  BY <1>6, <1>7
<1> QED
  BY <1>1, <1>2, <1>8

\* With no two free neighbours but b and the one before it, coalesce merges b with
\* the next block, and the block before it with b.
LEMMA CoalesceForm ==
    ASSUME NEW h, NEW head, Linked(h, head), NEW e \in Nat, \A b \in DOMAIN h : b < e,
           NEW b \in DOMAIN h,
           h[b].prev # NULL =>
              h[h[b].prev].prev = NULL \/ ~ h[h[h[b].prev].prev].free \/ ~ h[h[b].prev].free
    PROVE  coalesce(h, b) = IF h[b].prev = NULL \/ ~ h[h[b].prev].free THEN MergeNext(h, b)
                            ELSE MergeNext(MergeNext(h, b), h[b].prev)
<1> DEFINE X == DOMAIN h
           S == Seq(X)
<1>1. PICK L : L = {c \in X : h[c].prev = NULL \/ ~ h[h[c].prev].free}
  OBVIOUS
<1>2. PICK l : l = [c \in X |-> h[c].prev]
  OBVIOUS
<1>3. PICK r : r = [c \in X |-> c]
  OBVIOUS
<1>4. PICK a : a = [c \in X |-> <<c>>]
  OBVIOUS
<1>5. PICK G : G = [c \in X |-> [s \in S |-> <<c>> \o s]]
  OBVIOUS
<1>6. \A c \in X : c \in Nat /\ c < e
  BY DEF Linked
<1>7. Founded(X, L, l, r, e)
  <2>1. r \in [X -> 0 .. e]
    BY <1>3, <1>6
  <2>2. ASSUME NEW c \in X \ L  PROVE l[c] \in X /\ r[l[c]] < r[c]
    <3>1. h[c].prev # NULL /\ l[c] = h[c].prev /\ c \in X
      BY <1>1, <1>2
    <3>2. h[c].prev \in X /\ h[c].prev < c
      BY <3>1, LinkedFacts
    <3> QED
      BY <1>3, <3>1, <3>2
  <2> QED
    BY <2>1, <2>2 DEF Founded
<1>8. Rule(X, S, a, G)
  <2>1. \A c \in X : <<c>> \in S
    OBVIOUS
  <2>2. \A c \in X, s \in S : <<c>> \o s \in S
    OBVIOUS
  <2> HIDE DEF S
  <2>3. a \in [X -> S]
    BY <1>4, <2>1
  <2>4. \A c \in X : [s \in S |-> <<c>> \o s] \in [S -> S]
    BY <2>2
  <2> QED
    BY <1>5, <2>3, <2>4 DEF Rule
<1>9. PICK f : Solves(X, L, l, a, G, f)
  BY <1>7, <1>8, ChainRecursion
<1>10. \A c \in X : f[c] \in S
  BY <1>7, <1>8, <1>9, ChainInduction
<1> DEFINE Val(g, c) == IF h[c].prev = NULL THEN <<c>>
                        ELSE IF ~ h[h[c].prev].free THEN <<c>> ELSE <<c>> \o g[h[c].prev]
           Is(g) == g = [c \in X |-> Val(g, c)]
           back == CHOOSE g : Is(g)
<1>11. Is(f)
  <2>1. ASSUME NEW c \in X  PROVE f[c] = Val(f, c)
    <3>1. CASE c \in L
      <4>1. f[c] = <<c>>
        BY <1>4, <1>9, <3>1 DEF Solves
      <4> QED
        BY <1>1, <3>1, <4>1
    <3>2. CASE c \notin L
      <4>1. h[c].prev # NULL /\ h[h[c].prev].free /\ l[c] = h[c].prev /\ l[c] \in X
        BY <1>1, <1>2, <1>7, <3>2 DEF Founded
      <4>2. f[c] = G[c][f[l[c]]] /\ f[l[c]] \in S
        BY <1>9, <1>10, <3>2, <4>1 DEF Solves
      <4> HIDE DEF S
      <4>3. G[c][f[l[c]]] = <<c>> \o f[l[c]]
        BY <1>5, <4>2
      <4> QED
        BY <4>1, <4>2, <4>3
    <3> QED
      BY <3>1, <3>2
  <2>2. f = [c \in X |-> f[c]]
    BY <1>9 DEF Solves
  <2> HIDE DEF Val
  <2> QED
    BY <2>1, <2>2
<1>12. Is(back)
  <2> HIDE DEF Is
  <2> QED
    BY <1>11
<1>13. coalesce(h, b) = Merges(h, back[b])
  BY DEF coalesce, Merges
<1> HIDE DEF back
<1>14. \A c \in X : back[c] = Val(back, c)
  <2> HIDE DEF Val
  <2> QED
    BY <1>12
<1>15. CASE h[b].prev = NULL \/ ~ h[h[b].prev].free
  <2>1. back[b] = <<b>>
    BY <1>14, <1>15
  <2> QED
    BY <1>13, <1>15, <2>1, FoldOne
<1>16. CASE ~ (h[b].prev = NULL \/ ~ h[h[b].prev].free)
  <2>1. PICK p : p = h[b].prev
    OBVIOUS
  <2>2. p \in X /\ p # NULL /\ h[p].free
    BY <1>16, <2>1, LinkedFacts
  <2>3. back[p] = <<p>>
    BY <1>14, <2>1, <2>2
  <2>4. back[b] = <<b>> \o <<p>>
    BY <1>14, <1>16, <2>1, <2>3
  <2>5. <<b>> \o <<p>> = <<b, p>>
    BY <2>2, PairUp
  <2>6. Merges(h, <<b, p>>) = MergeNext(MergeNext(h, b), p)
    BY FoldTwo
  <2>7. coalesce(h, b) = MergeNext(MergeNext(h, b), p)
    BY <1>13, <2>4, <2>5, <2>6
  <2> QED
    BY <1>16, <2>1, <2>7
<1> QED
  BY <1>15, <1>16

-----------------------------------------------------------------------------
(***************************************************************************)
(* The room of the blocks.                                                 *)
(***************************************************************************)

\* A buffer is not empty.
LEMMA BufBounds ==
    ASSUME NEW p \in Nat
    PROVE  BufLow(p) \in Nat /\ BufHigh(p) \in Nat /\ BufLow(p) < BufHigh(p)
<1>1. PAGE_SIZE \in Nat \ {0} /\ SharedPages \in Nat \ {0}
  BY UserMemoryConstants
<1>2. p * PAGE_SIZE \in Nat /\ SharedPages * PAGE_SIZE \in Nat /\ SharedPages * PAGE_SIZE > 0
  BY <1>1
<1>3. (p + SharedPages) * PAGE_SIZE = p * PAGE_SIZE + SharedPages * PAGE_SIZE
  BY <1>1
<1> QED
  BY <1>2, <1>3 DEF BufLow, BufHigh

\* What Spaced says of one block.
Roomy(h, b, brk, bufs) ==
    /\ End(h, b) <= Limit(h, b, brk) /\ Limit(h, b, brk) <= brk
    /\ \A p \in bufs : End(h, b) <= BufLow(p) \/ BufHigh(p) <= b
    /\ End(h, b) # Limit(h, b, brk) =>
          \E p \in bufs : End(h, b) <= BufLow(p) /\ BufLow(p) < Limit(h, b, brk)

\* Spaced is Roomy for every block, with the buffers below the break.
LEMMA SpacedRoomy ==
    ASSUME NEW h, NEW brk, NEW bufs
    PROVE  Spaced(h, brk, bufs) <=>
              /\ \A p \in bufs : p \in Nat /\ BufHigh(p) <= brk
              /\ \A b \in DOMAIN h : Roomy(h, b, brk, bufs)
  BY DEF Spaced, Roomy

\* A block that begins where another did, and ends and is followed as another was,
\* has room if those two had.
LEMMA SameRoom ==
    ASSUME NEW h, NEW c, NEW g, NEW d, NEW brk, NEW bufs,
           Roomy(h, c, brk, bufs), End(g, d) = End(h, c),
           Limit(g, d, brk) = Limit(h, c, brk),
           \A p \in bufs : End(h, c) <= BufLow(p) \/ BufHigh(p) <= d
    PROVE  Roomy(g, d, brk, bufs)
  BY DEF Roomy

\* Adjacent blocks may be merged.
LEMMA MergeSpaced ==
    ASSUME NEW h, NEW head, Linked(h, head), NEW brk, NEW bufs, Spaced(h, brk, bufs),
           NEW b \in DOMAIN h, NEW n, NEW g, h[b].next = n, n # NULL, Merged(h, b, n, g),
           End(h, b) = n
    PROVE  Spaced(g, brk, bufs)
<1>1. n \in DOMAIN h /\ b < n /\ b \in Nat /\ n \in Nat /\ n # b
  BY LinkedFacts
<1>2. /\ \A p \in bufs : p \in Nat /\ BufHigh(p) <= brk
      /\ \A c \in DOMAIN h : Roomy(h, c, brk, bufs)
  BY SpacedRoomy
<1>3. DOMAIN g = DOMAIN h \ {n}
  BY DEF Merged
<1>4. ASSUME NEW c \in DOMAIN g  PROVE Roomy(g, c, brk, bufs)
  <2>1. c \in DOMAIN h /\ c # n /\ c \in Nat
    BY <1>3, LinkedFacts
  <2>2. /\ g[c].size = IF c = b THEN h[b].size + HeaderSize + h[n].size ELSE h[c].size
        /\ g[c].next = IF c = b THEN h[n].next ELSE h[c].next
    BY DEF Merged
  <2>3. CASE c = b
    <3>1. /\ h[b].size \in Nat /\ h[n].size \in Nat /\ HeaderSize \in Nat
          /\ n = b + HeaderSize + h[b].size
      BY <1>1, LinkedFacts, UserHeapConstants
    <3>2. End(g, c) = End(h, n)
      BY <1>1, <2>2, <2>3, <3>1 DEF End
    <3>3. Limit(g, c, brk) = Limit(h, n, brk)
      BY <2>2, <2>3 DEF Limit
    <3>4. ASSUME NEW p \in bufs  PROVE End(h, n) <= BufLow(p) \/ BufHigh(p) <= c
      <4>1. /\ End(h, n) <= BufLow(p) \/ BufHigh(p) <= n
            /\ n <= BufLow(p) \/ BufHigh(p) <= b
        BY <1>1, <1>2 DEF Roomy
      <4>2. BufLow(p) \in Nat /\ BufHigh(p) \in Nat /\ BufLow(p) < BufHigh(p)
        BY <1>2, BufBounds
      <4> QED
        BY <1>1, <2>3, <4>1, <4>2
    <3> QED
      BY <1>1, <1>2, <3>2, <3>3, <3>4, SameRoom
  <2>4. CASE c # b
    <3>1. End(g, c) = End(h, c) /\ Limit(g, c, brk) = Limit(h, c, brk)
      BY <2>2, <2>4 DEF End, Limit
    <3>2. Roomy(h, c, brk, bufs)
      BY <1>2, <2>1
    <3>3. \A p \in bufs : End(h, c) <= BufLow(p) \/ BufHigh(p) <= c
      BY <3>2 DEF Roomy
    <3> QED
      BY <3>1, <3>2, <3>3, SameRoom
  <2> QED
    BY <2>3, <2>4
<1> QED
  BY <1>2, <1>4, SpacedRoomy

\* A list with the same blocks leaves the same room.
LEMMA SameSpaced ==
    ASSUME NEW h, NEW brk, NEW bufs, Spaced(h, brk, bufs), NEW g, DOMAIN g = DOMAIN h,
           \A c \in DOMAIN h : g[c].size = h[c].size /\ g[c].next = h[c].next
    PROVE  Spaced(g, brk, bufs)
<1>1. \A c \in DOMAIN h : End(g, c) = End(h, c) /\ Limit(g, c, brk) = Limit(h, c, brk)
  BY DEF End, Limit
<1> QED
  BY <1>1 DEF Spaced

\* Whatever is cut off a block lies in it.
LEMMA SplitSpaced ==
    ASSUME NEW h, NEW head, Linked(h, head), NEW brk, NEW bufs, Spaced(h, brk, bufs),
           NEW b \in DOMAIN h, NEW n \in Nat, NEW new, new = b + HeaderSize + n,
           new <= End(h, b), new \notin DOMAIN h, NEW g, Cut(h, b, n, new, g), brk \in Nat
    PROVE  Spaced(g, brk, bufs)
<1>1. /\ b \in Nat /\ h[b].size \in Nat /\ HeaderSize \in Nat \ {0}
      /\ End(h, b) = b + HeaderSize + h[b].size
  BY LinkedFacts, UserHeapConstants
<1>2. /\ \A p \in bufs : p \in Nat /\ BufHigh(p) <= brk
      /\ \A c \in DOMAIN h : Roomy(h, c, brk, bufs)
  BY SpacedRoomy
<1>3. new \in Nat /\ b < new /\ b # new /\ End(h, b) \in Nat
  BY <1>1
<1>4. DOMAIN g = DOMAIN h \cup {new}
  BY DEF Cut
<1>5. /\ \A p \in bufs : End(h, b) <= BufLow(p) \/ BufHigh(p) <= b
      /\ \A p \in bufs : BufLow(p) \in Nat /\ BufHigh(p) \in Nat
      /\ End(h, b) <= Limit(h, b, brk) /\ Limit(h, b, brk) <= brk
  BY <1>2, BufBounds DEF Roomy
<1>6. Limit(h, b, brk) \in Nat
  BY LinkedFacts DEF Limit
<1>7. ASSUME NEW c \in DOMAIN g  PROVE Roomy(g, c, brk, bufs)
  <2>1. /\ g[c].size = IF c = b THEN n
                       ELSE IF c = new THEN h[b].size - n - HeaderSize ELSE h[c].size
        /\ g[c].next = IF c = b THEN new ELSE IF c = new THEN h[b].next ELSE h[c].next
    BY DEF Cut
  <2>2. CASE c = b
    <3>1. new # NULL
      BY <1>3, UserHeapConstants
    <3>2. End(g, c) = new /\ Limit(g, c, brk) = new
      BY <2>1, <2>2, <3>1 DEF End, Limit
    <3>3. \A p \in bufs : new <= BufLow(p) \/ BufHigh(p) <= b
      BY <1>3, <1>5
    <3>4. new <= brk /\ new <= new
      BY <1>3, <1>5, <1>6
    <3> QED
      BY <2>2, <3>2, <3>3, <3>4 DEF Roomy
  <2>3. CASE c = new
    <3>1. End(g, c) = End(h, b)
      <4>1. g[c].size = h[b].size - n - HeaderSize
        BY <1>3, <2>1, <2>3
      <4> QED
        BY <1>1, <2>3, <4>1 DEF End
    <3>2. Limit(g, c, brk) = Limit(h, b, brk)
      BY <1>3, <2>1, <2>3 DEF Limit
    <3>3. \A p \in bufs : End(h, b) <= BufLow(p) \/ BufHigh(p) <= c
      BY <1>1, <1>3, <1>5, <2>3
    <3> QED
      BY <1>2, <3>1, <3>2, <3>3, SameRoom
  <2>4. CASE c # b /\ c # new
    <3>1. End(g, c) = End(h, c) /\ Limit(g, c, brk) = Limit(h, c, brk)
      BY <2>1, <2>4 DEF End, Limit
    <3>2. Roomy(h, c, brk, bufs)
      BY <1>2, <1>4, <2>4
    <3>3. \A p \in bufs : End(h, c) <= BufLow(p) \/ BufHigh(p) <= c
      BY <3>2 DEF Roomy
    <3> QED
      BY <3>1, <3>2, <3>3, SameRoom
  <2> QED
    BY <2>2, <2>3, <2>4
<1> QED
  BY <1>2, <1>7, SpacedRoomy

\* A block that begins at the break moves the break behind itself.
LEMMA AppendSpaced ==
    ASSUME NEW h, NEW head, Linked(h, head), NEW brk \in Nat, NEW bufs,
           Spaced(h, brk, bufs), NEW last, IsLast(h, last), NEW s \in Nat, NEW g,
           Appended(h, last, brk, s, g)
    PROVE  Spaced(g, brk + HeaderSize + s, bufs)
<1>1. HeaderSize \in Nat \ {0} /\ NULL \notin Nat
  BY UserHeapConstants
<1>2. PICK top \in Nat : top = brk + HeaderSize + s
  BY <1>1
<1>3. /\ \A p \in bufs : p \in Nat /\ BufHigh(p) <= brk
      /\ \A c \in DOMAIN h : Roomy(h, c, brk, bufs)
  BY SpacedRoomy
<1>4. \A p \in bufs : BufLow(p) \in Nat /\ BufHigh(p) \in Nat
  BY <1>3, BufBounds
<1>5. DOMAIN g = DOMAIN h \cup {brk}
  BY DEF Appended
<1>6. \A p \in bufs : p \in Nat /\ BufHigh(p) <= top
  BY <1>1, <1>2, <1>3, <1>4
<1>7. ASSUME NEW c \in DOMAIN g  PROVE Roomy(g, c, top, bufs)
  <2>1. /\ g[c].size = IF c = brk THEN s ELSE h[c].size
        /\ g[c].next = IF c = brk THEN NULL ELSE IF c = last THEN brk ELSE h[c].next
    BY DEF Appended
  <2>2. CASE c = brk
    <3>1. End(g, c) = top /\ Limit(g, c, top) = top
      BY <1>2, <2>1, <2>2 DEF End, Limit
    <3> QED
      BY <1>2, <1>3, <2>2, <3>1 DEF Roomy
  <2>3. CASE c # brk
    <3>1. c \in DOMAIN h /\ Roomy(h, c, brk, bufs) /\ End(g, c) = End(h, c)
      BY <1>3, <1>5, <2>1, <2>3 DEF End
    <3>2. Limit(g, c, top) = Limit(h, c, brk)
      <4>1. CASE c = last
        <5>1. h[c].next = NULL
          BY <3>1, <4>1 DEF IsLast
        <5> QED
          BY <1>1, <2>1, <2>3, <4>1, <5>1 DEF Limit
      <4>2. CASE c # last
        <5>1. last \in DOMAIN h /\ h[last].next = NULL
          BY <3>1 DEF IsLast
        <5>2. c <= last /\ c \in Nat /\ last \in Nat
          BY <3>1, <5>1, LinkedFacts
        <5>3. h[c].next # NULL
          BY <3>1, <4>2, <5>1, <5>2, LinkedFacts
        <5> QED
          BY <2>1, <2>3, <4>2, <5>3 DEF Limit
      <4> QED
        BY <4>1, <4>2
    <3>3. Limit(h, c, brk) \in Nat /\ Limit(h, c, brk) <= brk
      BY <3>1, LinkedFacts DEF Limit, Roomy
    <3>4. Limit(h, c, brk) <= top
      BY <1>1, <1>2, <3>3
    <3> QED
      BY <3>1, <3>2, <3>4 DEF Roomy
  <2> QED
    BY <2>2, <2>3
<1>8. Spaced(g, top, bufs)
  BY <1>6, <1>7, SpacedRoomy
<1> QED
  BY <1>2, <1>8

\* A buffer at the break moves the break behind itself.
LEMMA ShareSpaced ==
    ASSUME NEW h, NEW head, Linked(h, head), NEW brk \in Nat, NEW bufs,
           Spaced(h, brk, bufs), NEW k \in Nat, brk <= BufLow(k)
    PROVE  Spaced(h, BufHigh(k), bufs \cup {k})
<1>1. PICK top \in Nat : top = BufHigh(k)
  BY BufBounds
<1>2. BufLow(k) \in Nat /\ BufLow(k) < top
  BY <1>1, BufBounds
<1>3. /\ \A p \in bufs : p \in Nat /\ BufHigh(p) <= brk
      /\ \A c \in DOMAIN h : Roomy(h, c, brk, bufs)
  BY SpacedRoomy
<1>4. \A p \in bufs \cup {k} : p \in Nat /\ BufHigh(p) <= top
  <2>1. \A p \in bufs : BufHigh(p) \in Nat
    BY <1>3, BufBounds
  <2> QED
    BY <1>1, <1>2, <1>3, <2>1
<1>5. ASSUME NEW c \in DOMAIN h  PROVE Roomy(h, c, top, bufs \cup {k})
  <2>1. Roomy(h, c, brk, bufs)
    BY <1>3
  <2>2. /\ End(h, c) \in Nat /\ Limit(h, c, brk) \in Nat
        /\ End(h, c) <= Limit(h, c, brk) /\ Limit(h, c, brk) <= brk
    BY <2>1, LinkedFacts DEF Limit, Roomy
  <2>3. End(h, c) <= BufLow(k)
    BY <1>2, <2>2
  <2>4. \A p \in bufs \cup {k} : End(h, c) <= BufLow(p) \/ BufHigh(p) <= c
    BY <2>1, <2>3 DEF Roomy
  <2>5. CASE h[c].next = NULL
    <3>1. Limit(h, c, top) = top
      BY <2>5 DEF Limit
    <3> QED
      BY <1>2, <2>2, <2>3, <2>4, <3>1 DEF Roomy
  <2>6. CASE h[c].next # NULL
    <3>1. Limit(h, c, top) = Limit(h, c, brk)
      BY <2>6 DEF Limit
    <3>2. Limit(h, c, brk) <= top
      BY <1>2, <2>2
    <3> QED
      BY <2>1, <2>2, <2>4, <3>1, <3>2 DEF Roomy
  <2> QED
    BY <2>5, <2>6
<1>6. Spaced(h, top, bufs \cup {k})
  BY <1>4, <1>5, SpacedRoomy
<1> QED
  BY <1>1, <1>6

-----------------------------------------------------------------------------
(***************************************************************************)
(* free                                                                    *)
(***************************************************************************)

\* The last block of h below a buffer is in use.
NotBelow(h, bufs) ==
    \A p \in bufs, q \in DOMAIN h :
        q < BufLow(p) /\ (\A c \in DOMAIN h : c < BufLow(p) => c <= q) => ~ h[q].free

\* FreeBelow, of any list and any buffers.
Below(h, bufs) ==
    \E p \in bufs : LET below == {b \in DOMAIN h : b < p * PAGE_SIZE}
                    IN  below # {} /\ h[Max(below)].free

\* Where FreeBelow is false, the last block below each buffer is in use.
LEMMA Careful ==
    ASSUME NEW h, NEW bufs, ~ Below(h, bufs), NEW head, Linked(h, head)
    PROVE  NotBelow(h, bufs)
<1> SUFFICES ASSUME NEW p \in bufs, NEW q \in DOMAIN h, q < BufLow(p),
                    \A c \in DOMAIN h : c < BufLow(p) => c <= q
             PROVE  ~ h[q].free
  BY DEF NotBelow
<1> DEFINE below == {b \in DOMAIN h : b < p * PAGE_SIZE}
<1>1. q \in below /\ \A c \in below : q >= c
  BY DEF BufLow
<1>2. below \subseteq Nat
  BY DEF Linked
<1>3. ~ (below # {} /\ h[Max(below)].free)
  BY DEF Below
<1> HIDE DEF below
<1>4. Max(below) \in below /\ \A c \in below : Max(below) >= c
  BY <1>1 DEF Max
<1>5. Max(below) = q
  BY <1>1, <1>2, <1>4
<1> QED
  BY <1>1, <1>3, <1>5

\* Where the block that swallows b is free at the end, and no free block is below a
\* buffer, there was no gap behind b.
LEMMA NoGap ==
    ASSUME NEW h, NEW head, Linked(h, head), NEW brk, NEW bufs, Spaced(h, brk, bufs),
           NEW b \in DOMAIN h, NEW n, h[b].next = n, n # NULL,
           NEW g, NEW q \in DOMAIN g, q \in DOMAIN h, q <= b, g[q].free, NotBelow(g, bufs),
           \A c \in DOMAIN g : c \in DOMAIN h /\ (c <= b => c <= q)
    PROVE  End(h, b) = n
<1> SUFFICES ASSUME End(h, b) # n  PROVE FALSE
  OBVIOUS
<1>1. /\ n \in DOMAIN h /\ n \in Nat /\ b \in Nat /\ q \in Nat /\ End(h, b) \in Nat
      /\ b < End(h, b)
      /\ \A c \in DOMAIN h : c \in Nat /\ (b < c => n <= c)
  BY LinkedFacts
<1>2. Limit(h, b, brk) = n
  BY DEF Limit
<1>3. PICK p \in bufs : End(h, b) <= BufLow(p) /\ BufLow(p) < n
  BY <1>2 DEF Spaced
<1>4. BufLow(p) \in Nat
  BY <1>3, BufBounds DEF Spaced
<1>5. q < BufLow(p)
  BY <1>1, <1>3, <1>4
<1>6. ASSUME NEW c \in DOMAIN g, c < BufLow(p)  PROVE c <= q
  <2>1. c \in Nat /\ (b < c => n <= c)
    BY <1>1
  <2>2. c <= b
    BY <1>1, <1>3, <1>4, <1>6, <2>1
  <2> QED
    BY <2>2
<1> QED
  BY <1>3, <1>5, <1>6 DEF NotBelow

\* h is the list f with block b marked free or in use.
Marked(f, b, v, h) ==
    /\ DOMAIN h = DOMAIN f
    /\ \A c \in DOMAIN f : /\ h[c] \in Header(DOMAIN f)
                           /\ h[c].size = f[c].size /\ h[c].next = f[c].next
                           /\ h[c].prev = f[c].prev
                           /\ h[c].free = IF c = b THEN v ELSE f[c].free

\* What the assignment to the flag of a header changes, and what it leaves alone.
LEMMA MarkFields ==
    ASSUME NEW f, NEW head, Linked(f, head), NEW b \in DOMAIN f, NEW v \in BOOLEAN
    PROVE  Marked(f, b, v, [f EXCEPT ![b].free = v])
<1> DEFINE h == [f EXCEPT ![b].free = v]
<1>1. \A c \in DOMAIN f : f[c] \in Header(DOMAIN f)
  BY DEF Linked
<1>2. DOMAIN h = DOMAIN f
  OBVIOUS
<1>3. ASSUME NEW c \in DOMAIN f
      PROVE  /\ h[c] \in Header(DOMAIN f)
             /\ h[c].size = f[c].size /\ h[c].next = f[c].next /\ h[c].prev = f[c].prev
             /\ h[c].free = IF c = b THEN v ELSE f[c].free
  <2>1. CASE c = b
    <3>1. h[c] = [f[b] EXCEPT !.free = v]
      BY <2>1
    <3>2. f[b] \in Header(DOMAIN f)
      BY <1>1
    <3> HIDE DEF h
    <3> QED
      BY <2>1, <3>1, <3>2 DEF Header
  <2>2. CASE c # b
    <3>1. h[c] = f[c]
      BY <2>2
    <3> HIDE DEF h
    <3> QED
      BY <1>1, <2>2, <3>1
  <2> QED
    BY <2>1, <2>2
<1> HIDE DEF h
<1>4. Marked(f, b, v, h)
  BY <1>2, <1>3 DEF Marked
<1> QED
  BY <1>4 DEF h

\* A mark leaves the links and the room alone.
LEMMA MarkKeeps ==
    ASSUME NEW f, NEW head, Linked(f, head), NEW brk, NEW bufs, Spaced(f, brk, bufs),
           NEW b, NEW v, NEW h, Marked(f, b, v, h)
    PROVE  Linked(h, head) /\ Spaced(h, brk, bufs)
<1>1. Linked(h, head)
  BY SameLinks DEF Marked
<1>2. Spaced(h, brk, bufs)
  BY SameSpaced DEF Marked
<1> QED
  BY <1>1, <1>2

\* m is the list f after block b, which was in use, has been freed and has swallowed
\* the next one if that was free: b and the block before it may both be free.
Half(f, b, m) ==
    /\ b \in DOMAIN m /\ m[b].free /\ DOMAIN m \subseteq DOMAIN f
    /\ \A c \in DOMAIN f : ~ f[c].free \/ f[c].next = b => c \in DOMAIN m
    /\ \A c \in DOMAIN m \ {b} :
          m[c].free = f[c].free /\ m[c].size = f[c].size /\ m[c].next = f[c].next
    /\ m[b].prev = f[b].prev
    /\ m[b].next # NULL => m[b].next \in DOMAIN m /\ ~ m[m[b].next].free

\* The first of the two merges of free: the freed block and the one behind it.
LEMMA HalfWay ==
    ASSUME NEW f, NEW head, Linked(f, head), Coalesced(f), NEW b \in DOMAIN f,
           ~ f[b].free, NEW h, Marked(f, b, TRUE, h), Linked(h, head), NEW m, m = MergeNext(h, b)
    PROVE  /\ Half(f, b, m) /\ Linked(m, head)
           /\ m = h \/ (h[b].next # NULL /\ Merged(h, b, h[b].next, m))
<1>1. DOMAIN h = DOMAIN f
  BY DEF Marked
<1>2. \A c \in DOMAIN f : /\ h[c].size = f[c].size /\ h[c].next = f[c].next
                          /\ h[c].prev = f[c].prev
                          /\ h[c].free = IF c = b THEN TRUE ELSE f[c].free
  BY DEF Marked
<1>3. PICK n : n = h[b].next
  OBVIOUS
<1>4. n # NULL => n \in DOMAIN f /\ n # b /\ h[n].free = f[n].free
  <2> SUFFICES ASSUME n # NULL  PROVE n \in DOMAIN f /\ n # b
    BY <1>2
  <2>1. n \in DOMAIN h /\ b < n /\ b \in Nat /\ n \in Nat
    BY <1>1, <1>3, LinkedFacts
  <2> QED
    BY <1>1, <2>1
<1>5. CASE n = NULL \/ ~ h[n].free
  <2>1. m = h
    BY <1>3, <1>5 DEF MergeNext
  <2> QED
    BY <1>1, <1>2, <1>3, <1>4, <1>5, <2>1 DEF Half
<1>6. CASE n # NULL /\ h[n].free
  <2>1. Merged(h, b, n, m)
    BY <1>1, <1>3, <1>6, MergeFields
  <2>2. Linked(m, head)
    BY <1>1, <1>3, <1>6, <2>1, MergeLinked
  <2>3. DOMAIN m = DOMAIN f \ {n}
    BY <1>1, <2>1 DEF Merged
  <2>4. \A c \in DOMAIN m : /\ m[c].free = h[c].free
                            /\ c # b => m[c].size = h[c].size /\ m[c].next = h[c].next
                            /\ m[c].prev = IF c = h[n].next THEN b ELSE h[c].prev
    BY <2>1 DEF Merged
  <2>5. b \in DOMAIN m /\ m[b].next = h[n].next
    BY <1>4, <1>6, <2>1, <2>3 DEF Merged
  <2>6. h[n].next # b
    <3>1. b < n /\ b \in Nat /\ n \in Nat
      BY <1>1, <1>3, <1>6, LinkedFacts
    <3>2. h[n].next = NULL \/ n < h[n].next
      BY <1>1, <1>4, <1>6, LinkedFacts
    <3>3. b # NULL
      BY <3>1, UserHeapConstants
    <3> QED
      BY <3>1, <3>2, <3>3
  <2>7. m[b].prev = f[b].prev
    BY <1>2, <2>4, <2>5, <2>6
  <2>8. m[b].next # NULL => m[b].next \in DOMAIN m /\ ~ m[m[b].next].free
    <3> SUFFICES ASSUME h[n].next # NULL
                 PROVE  h[n].next \in DOMAIN m /\ ~ m[h[n].next].free
      BY <2>5
    <3>1. h[n].next \in DOMAIN h /\ n < h[n].next /\ n \in Nat /\ h[n].next \in Nat
      BY <1>1, <1>4, <1>6, LinkedFacts
    <3>2. h[n].next # n
      BY <3>1
    <3>3. h[n].next \in DOMAIN m
      BY <1>1, <2>3, <3>1, <3>2
    <3>4. ~ f[f[n].next].free /\ f[n].next = h[n].next
      BY <1>2, <1>4, <1>6 DEF Coalesced
    <3> QED
      BY <1>1, <1>2, <2>4, <2>6, <3>1, <3>3, <3>4
  <2>9. \A c \in DOMAIN f : ~ f[c].free \/ f[c].next = b => c \in DOMAIN m
    <3>1. f[n].free /\ f[n].next # b
      BY <1>2, <1>4, <1>6, <2>6
    <3> QED
      BY <2>3, <3>1
  <2>10. \A c \in DOMAIN m \ {b} :
            m[c].free = f[c].free /\ m[c].size = f[c].size /\ m[c].next = f[c].next
    <3> SUFFICES ASSUME NEW c \in DOMAIN m, c # b
                 PROVE  /\ m[c].free = f[c].free /\ m[c].size = f[c].size
                        /\ m[c].next = f[c].next
      OBVIOUS
    <3>1. c \in DOMAIN f
      BY <2>3
    <3>2. h[c].free = f[c].free /\ h[c].size = f[c].size /\ h[c].next = f[c].next
      BY <1>2, <3>1
    <3> QED
      BY <2>4, <3>2
  <2>11. m[b].free
    BY <1>2, <2>4, <2>5
  <2> QED
    BY <1>3, <1>6, <2>1, <2>2, <2>3, <2>5, <2>7, <2>8, <2>9, <2>10, <2>11 DEF Half
<1> QED
  BY <1>5, <1>6

\* What free does to the list and to the requests.
FreedList(f, b, g) == g = coalesce([f EXCEPT ![b].free = TRUE], b)
Dropped(l, b, k) == k = [c \in DOMAIN l \ {b} |-> l[c]]

\* What coalesce leaves, when block b was in use before.
LEMMA FreeList ==
    ASSUME NEW f, NEW head, NEW brk \in Nat, NEW bufs, NEW l,
           SoundHeap(f, head, brk, bufs, l), NEW b \in DOMAIN l,
           NEW g, FreedList(f, b, g), ~ Below(g, bufs), NEW l2, Dropped(l, b, l2)
    PROVE  SoundHeap(g, head, brk, bufs, l2)
<1>1. Linked(f, head) /\ Spaced(f, brk, bufs) /\ Coalesced(f) /\ Held(f, l)
  BY DEF SoundHeap
<1>2. PICK h : h = [f EXCEPT ![b].free = TRUE]
  OBVIOUS
<1>3. g = coalesce(h, b)
  BY <1>2 DEF FreedList
<1>4. b \in DOMAIN f /\ ~ f[b].free
  BY <1>1 DEF Held
<1>5. Marked(f, b, TRUE, h)
  BY <1>1, <1>4, <1>2, MarkFields
<1>6. Linked(h, head)
  BY <1>1, <1>5, MarkKeeps
<1>7. Spaced(h, brk, bufs)
  BY <1>1, <1>5, MarkKeeps
<1>8. DOMAIN h = DOMAIN f /\ b \in DOMAIN h
  BY <1>4, <1>5 DEF Marked
<1>9. \A c \in DOMAIN f : /\ h[c].size = f[c].size /\ h[c].next = f[c].next
                          /\ h[c].prev = f[c].prev
                          /\ h[c].free = IF c = b THEN TRUE ELSE f[c].free
  BY <1>5 DEF Marked
<1>10. \A c \in DOMAIN h : c < brk
  <2> SUFFICES ASSUME NEW c \in DOMAIN h  PROVE c < brk
    OBVIOUS
  <2>1. End(h, c) <= Limit(h, c, brk) /\ Limit(h, c, brk) <= brk
    BY <1>7 DEF Spaced
  <2>2. c \in Nat /\ End(h, c) \in Nat /\ c < End(h, c) /\ Limit(h, c, brk) \in Nat
    BY <1>6, LinkedFacts DEF Limit
  <2> QED
    BY <2>1, <2>2
<1>11. PICK p : p = h[b].prev
  OBVIOUS
<1>12. p # NULL => /\ p \in DOMAIN f /\ p \in Nat /\ b \in Nat /\ p < b /\ f[p].next = b
  <2> SUFFICES ASSUME p # NULL
               PROVE  p \in DOMAIN f /\ p \in Nat /\ b \in Nat /\ p < b /\ f[p].next = b
    OBVIOUS
  <2>1. p \in DOMAIN h /\ p < b /\ h[p].next = b /\ b \in Nat /\ p \in Nat
    BY <1>6, <1>8, <1>11, LinkedFacts
  <2> QED
    BY <1>8, <1>9, <2>1
<1>13. p # NULL => p # b /\ h[p].free = f[p].free
  <2> SUFFICES ASSUME p # NULL  PROVE p # b /\ h[p].free = f[p].free
    OBVIOUS
  <2>1. p # b
    BY <1>12
  <2>2. p \in DOMAIN f
    BY <1>12
  <2> QED
    BY <1>9, <2>1, <2>2
<1>14. p # NULL /\ f[p].free /\ f[p].prev # NULL =>
          /\ f[p].prev \in DOMAIN f /\ f[p].prev # b /\ f[f[p].prev].next = p
          /\ ~ f[f[p].prev].free
  <2> SUFFICES ASSUME p # NULL, f[p].free, f[p].prev # NULL
               PROVE  /\ f[p].prev \in DOMAIN f /\ f[p].prev # b /\ f[f[p].prev].next = p
                      /\ ~ f[f[p].prev].free
    OBVIOUS
  <2>1. /\ f[p].prev \in DOMAIN f /\ f[f[p].prev].next = p /\ f[p].prev < p
        /\ f[p].prev \in Nat
    BY <1>1, <1>12, LinkedFacts
  <2>2. f[p].prev # b
    BY <1>12, <2>1
  <2> QED
    BY <1>1, <2>1, <2>2 DEF Coalesced
<1>15. coalesce(h, b) = IF p = NULL \/ ~ h[p].free THEN MergeNext(h, b)
                        ELSE MergeNext(MergeNext(h, b), p)
  <2>1. p # NULL /\ h[p].free /\ h[p].prev # NULL => ~ h[h[p].prev].free
    BY <1>9, <1>12, <1>13, <1>14
  <2> QED
    BY <1>6, <1>8, <1>10, <1>11, <2>1, CoalesceForm
<1>16. PICK m : m = MergeNext(h, b)
  OBVIOUS
<1>17. /\ Half(f, b, m) /\ Linked(m, head)
       /\ m = h \/ (h[b].next # NULL /\ Merged(h, b, h[b].next, m))
  BY <1>4, <1>6, <1>16, <1>1, <1>5, HalfWay
<1>18. DOMAIN l2 = DOMAIN l \ {b} /\ \A c \in DOMAIN l2 : l2[c] = l[c]
  BY DEF Dropped
<1>19. \A c \in DOMAIN l2 : /\ c \in DOMAIN m /\ ~ m[c].free /\ c # b
                            /\ l2[c] \in Nat /\ l2[c] <= m[c].size
  BY <1>1, <1>18, <1>17 DEF Held, Half
<1>20. CASE p = NULL \/ ~ h[p].free
  <2>1. g = m
    BY <1>3, <1>15, <1>16, <1>20
  <2>2. NotBelow(g, bufs)
    BY <1>17, <2>1, Careful
  <2>3. Spaced(m, brk, bufs)
    <3>1. CASE m = h
      BY <1>7, <3>1
    <3>2. CASE h[b].next # NULL /\ Merged(h, b, h[b].next, m)
      <4>1. b \in DOMAIN g /\ g[b].free /\ \A c \in DOMAIN g : c \in DOMAIN h
        BY <1>8, <1>17, <2>1 DEF Half
      <4>2. b <= b
        BY <1>6, <1>8, LinkedFacts
      <4>3. End(h, b) = h[b].next
        BY <2>1, <2>2, <1>6, <1>7, <1>8, <3>2, <4>1, <4>2, NoGap
      <4> QED
        BY <1>6, <1>7, <1>8, <3>2, <4>3, MergeSpaced
    <3> QED
      BY <1>17, <3>1, <3>2
  <2>4. Coalesced(m)
    <3> SUFFICES ASSUME NEW c \in DOMAIN m, m[c].free, m[c].next # NULL
                 PROVE  ~ m[m[c].next].free
      BY DEF Coalesced
    <3>1. CASE c = b
      BY <1>17, <3>1 DEF Half
    <3>2. CASE c # b
      <4>1. c \in DOMAIN f /\ f[c].free /\ m[c].next = f[c].next
        BY <1>17, <3>2 DEF Half
      <4>2. m[c].next \in DOMAIN m
        BY <1>17, LinkedFacts
      <4>3. ~ f[f[c].next].free
        BY <1>1, <4>1 DEF Coalesced
      <4>4. f[c].next # b
        <5> SUFFICES ASSUME f[c].next = b  PROVE FALSE
          OBVIOUS
        <5>1. m[b].prev = c
          BY <1>17, <4>1, LinkedFacts
        <5>2. p = c
          BY <1>4, <1>9, <1>11, <1>17, <5>1 DEF Half
        <5>3. p # NULL
          BY <1>17, <5>2, LinkedFacts
        <5> QED
          BY <1>13, <1>20, <4>1, <5>2, <5>3
      <4> QED
        BY <1>17, <4>1, <4>2, <4>3, <4>4 DEF Half
    <3> QED
      BY <3>1, <3>2
  <2>5. Held(m, l2)
    BY <1>19 DEF Held
  <2> QED
    BY <1>17, <2>1, <2>3, <2>4, <2>5 DEF SoundHeap
<1>21. CASE ~ (p = NULL \/ ~ h[p].free)
  <2>1. p # NULL /\ f[p].free /\ p # b /\ p \in DOMAIN f
    BY <1>12, <1>13, <1>21
  <2>2. /\ p \in DOMAIN m /\ m[p].free /\ m[p].next = b /\ b \in DOMAIN m /\ m[b].free
        /\ b # NULL
    <3>1. p \in DOMAIN m /\ b \in DOMAIN m /\ m[b].free
      BY <1>12, <1>17, <2>1 DEF Half
    <3>2. m[p].free /\ m[p].next = b
      BY <1>12, <1>17, <2>1, <3>1 DEF Half
    <3>3. b # NULL
      BY <1>17, <3>1, LinkedFacts
    <3> QED
      BY <3>1, <3>2, <3>3
  <2>3. g = MergeNext(m, p)
    BY <1>3, <1>15, <1>16, <1>21
  <2>4. Merged(m, p, b, g)
    BY <1>17, <2>2, <2>3, MergeFields
  <2>5. Linked(g, head)
    BY <1>17, <2>2, <2>4, MergeLinked
  <2>6. NotBelow(g, bufs)
    BY <2>5, Careful
  <2>7. DOMAIN g = DOMAIN m \ {b} /\ p \in DOMAIN g /\ g[p].free /\ g[p].next = m[b].next
    BY <2>1, <2>2, <2>4 DEF Merged
  <2>8. p \in DOMAIN h /\ p <= b /\ p <= p
    BY <1>8, <1>12, <2>1
  <2>9. ASSUME NEW c \in DOMAIN g
        PROVE  c \in DOMAIN m /\ c \in DOMAIN h /\ (c <= b => c <= p)
    <3>1. c \in DOMAIN m /\ c # b /\ c \in DOMAIN h
      BY <1>8, <1>17, <2>7 DEF Half
    <3>2. c \in Nat /\ p \in Nat /\ b \in Nat /\ (p < c => b <= c)
      BY <1>17, <2>2, <3>1, LinkedFacts
    <3> QED
      BY <3>1, <3>2
  <2>10. Spaced(m, brk, bufs)
    <3>1. CASE m = h
      BY <1>7, <3>1
    <3>2. CASE h[b].next # NULL /\ Merged(h, b, h[b].next, m)
      <4>1. End(h, b) = h[b].next
        BY <2>6, <1>6, <1>7, <1>8, <2>7, <2>8, <2>9, <3>2, NoGap
      <4> QED
        BY <1>6, <1>7, <1>8, <3>2, <4>1, MergeSpaced
    <3> QED
      BY <1>17, <3>1, <3>2
  <2>11. Spaced(g, brk, bufs)
    <3>1. \A c \in DOMAIN g : c \in DOMAIN m /\ (c <= p => c <= p)
      BY <2>9
    <3>2. End(m, p) = b
      BY <2>6, <1>17, <2>2, <2>7, <2>8, <2>10, <3>1, NoGap
    <3> QED
      BY <1>17, <2>2, <2>4, <2>10, <3>2, MergeSpaced
  <2>12. Coalesced(g)
    <3> SUFFICES ASSUME NEW c \in DOMAIN g, g[c].free, g[c].next # NULL
                 PROVE  ~ g[g[c].next].free
      BY DEF Coalesced
    <3>1. \A d \in DOMAIN g : /\ d \in DOMAIN m /\ d # b /\ g[d].free = m[d].free
                              /\ d # p => g[d].next = m[d].next
      BY <2>4, <2>7 DEF Merged
    <3>2. g[c].next \in DOMAIN g
      BY <2>5, LinkedFacts
    <3>3. CASE c = p
      BY <1>17, <2>7, <3>1, <3>2, <3>3 DEF Half
    <3>4. CASE c # p
      <4>1. c \in DOMAIN f /\ f[c].free /\ g[c].next = f[c].next /\ g[c].next # b
        BY <1>17, <3>1, <3>2, <3>4 DEF Half
      <4>2. ~ f[f[c].next].free
        BY <1>1, <4>1 DEF Coalesced
      <4> QED
        BY <1>17, <3>1, <3>2, <4>1, <4>2 DEF Half
    <3> QED
      BY <3>3, <3>4
  <2>13. Held(g, l2)
    <3> SUFFICES ASSUME NEW c \in DOMAIN l2
                 PROVE  /\ c \in DOMAIN g /\ ~ g[c].free
                        /\ l2[c] \in Nat /\ l2[c] <= g[c].size
      BY DEF Held
    <3>1. /\ c \in DOMAIN m /\ ~ m[c].free /\ c # b /\ c # p
          /\ l2[c] \in Nat /\ l2[c] <= m[c].size
      BY <1>19, <2>2
    <3>2. c \in DOMAIN g /\ g[c].free = m[c].free /\ g[c].size = m[c].size
      BY <2>4, <2>7, <3>1 DEF Merged
    <3> QED
      BY <3>1, <3>2
  <2> QED
    BY <2>5, <2>11, <2>12, <2>13 DEF SoundHeap
<1> QED
  BY <1>20, <1>21

-----------------------------------------------------------------------------
(***************************************************************************)
(* malloc                                                                  *)
(***************************************************************************)

\* Rounding up neither loses a byte of the request nor leaves Nat.
LEMMA AlignCovers ==
    ASSUME NEW n \in Requests
    PROVE  n \in Nat /\ Align(n) \in Nat /\ n <= Align(n)
<1> DEFINE q == (n + ALIGNMENT - 1) \div ALIGNMENT
           r == (n + ALIGNMENT - 1) % ALIGNMENT
<1>1. n \in Nat \ {0} /\ ALIGNMENT \in Nat \ {0}
  BY UserHeapConstants
<1>2. q \in Nat /\ r \in 0 .. ALIGNMENT - 1 /\ n + ALIGNMENT - 1 = ALIGNMENT * q + r
  BY <1>1
<1>3. ALIGNMENT * q = q * ALIGNMENT /\ ALIGNMENT * q \in Nat
  BY <1>1, <1>2
<1>4. Align(n) = q * ALIGNMENT
  BY DEF Align
<1> HIDE DEF q, r
<1> QED
  BY <1>1, <1>2, <1>3, <1>4

\* The first fit is a free block of the list that is large enough.
LEMMA FitFacts ==
    ASSUME List \in Seq(DOMAIN block), NEW N, Fits(N) # {}
    PROVE  /\ List[FirstFit(N)] \in DOMAIN block
           /\ block[List[FirstFit(N)]].free /\ block[List[FirstFit(N)]].size >= N
<1> DEFINE I == {i \in 1 .. Len(List) : List[i] \in Fits(N)}
<1>1. FirstFit(N) = IF I # {} THEN Min(I) ELSE 0
  BY DEF FirstFit, SelectInSeq
<1>2. PICK b : b \in Fits(N)
  OBVIOUS
<1>3. PICK i \in DOMAIN List : b = List[i]
  BY <1>2 DEF Fits, Range
<1>4. DOMAIN List = 1 .. Len(List) /\ Len(List) \in Nat
  OBVIOUS
<1>5. I \subseteq Nat /\ I # {}
  BY <1>2, <1>3, <1>4
<1>6. I \subseteq 1 .. Len(List) /\ \A j \in I : List[j] \in Fits(N)
  OBVIOUS
<1> HIDE DEF I
<1>7. \E x \in I : \A y \in I : x <= y
  BY <1>5, LeastNat
<1>8. Min(I) \in I
  BY <1>7 DEF Min
<1>9. FirstFit(N) \in DOMAIN List /\ List[FirstFit(N)] \in Fits(N)
  BY <1>1, <1>4, <1>5, <1>6, <1>8
<1>10. List[FirstFit(N)] \in DOMAIN block
  BY <1>9
<1> QED
  BY <1>9, <1>10 DEF Fits

\* What malloc does to the requests, and to the list where a block fits.
Given(l, b, n, k) == k = [c \in DOMAIN l \cup {b} |-> IF c = b THEN n ELSE l[c]]
TakenList(h, b, N, g) == g = [split_block(h, b, N) EXCEPT ![b].free = FALSE]

\* malloc takes a free block and cuts off what it does not need.
LEMMA FitList ==
    ASSUME NEW h, NEW head, NEW brk \in Nat, NEW bufs, NEW l,
           SoundHeap(h, head, brk, bufs, l), NEW b \in DOMAIN h, NEW n \in Nat, NEW N \in Nat,
           n <= N, h[b].free, h[b].size >= N,
           NEW g, TakenList(h, b, N, g), NEW l2, Given(l, b, n, l2)
    PROVE  SoundHeap(g, head, brk, bufs, l2)
<1>1. PICK m : m = split_block(h, b, N)
  OBVIOUS
<1>2. Linked(h, head) /\ Spaced(h, brk, bufs) /\ Coalesced(h) /\ Held(h, l)
  BY DEF SoundHeap
<1>3. /\ HeaderSize \in Nat \ {0} /\ MIN_SPLIT \in Nat \ {0} /\ NULL \notin Nat
  BY UserHeapConstants
<1>4. /\ b \in Nat /\ h[b].size \in Nat /\ End(h, b) = b + HeaderSize + h[b].size
      /\ \A c \in DOMAIN h : c \in Nat
  BY <1>2, LinkedFacts
\* Split or not, the list is sound, b is still free and has room, and its successor
\* may be free now only if b was split.
<1>5. /\ Linked(m, head) /\ Spaced(m, brk, bufs) /\ b \in DOMAIN m /\ N <= m[b].size
      /\ m[b].size \in Nat
      /\ \A c \in DOMAIN m \ {b} : m[c].free /\ m[c].next # NULL => ~ m[m[c].next].free
      /\ \A c \in DOMAIN h \ {b} :
            c \in DOMAIN m /\ m[c].free = h[c].free /\ m[c].size = h[c].size
  <2>1. CASE h[b].size < N + HeaderSize + MIN_SPLIT
    <3>1. m = h
      BY <1>1, <2>1 DEF split_block
    <3>2. \A c \in DOMAIN h \ {b} : h[c].free /\ h[c].next # NULL => ~ h[h[c].next].free
      BY <1>2 DEF Coalesced
    <3>3. N <= h[b].size
      BY <1>4
    <3> QED
      BY <1>2, <1>4, <3>1, <3>2, <3>3
  <2>2. CASE ~ (h[b].size < N + HeaderSize + MIN_SPLIT)
    <3>1. PICK new : new = b + HeaderSize + N
      OBVIOUS
    <3>2. new \in Nat /\ b < new /\ new < End(h, b) /\ new <= End(h, b) /\ b # new
      BY <1>3, <1>4, <2>2, <3>1
    <3>3. ASSUME NEW c \in DOMAIN h, b < c  PROVE new < c
      <4>1. h[b].next # NULL /\ h[b].next <= c /\ h[b].next \in Nat
        BY <1>2, <1>4, <3>3, LinkedFacts
      <4>2. End(h, b) <= h[b].next
        BY <1>2, <4>1 DEF Spaced, Limit
      <4>3. c \in Nat /\ End(h, b) \in Nat
        BY <1>2, LinkedFacts
      <4> QED
        BY <3>2, <4>1, <4>2, <4>3
    <3>4. new \notin DOMAIN h
      BY <3>2, <3>3
    <3>5. Cut(h, b, N, new, m)
      BY <1>1, <1>2, <2>2, <3>1, <3>4, SplitFields
    <3>6. Linked(m, head)
      BY <1>2, <3>2, <3>3, <3>5, SplitLinked
    <3>7. Spaced(m, brk, bufs)
      BY <1>2, <3>1, <3>2, <3>4, <3>5, SplitSpaced
    <3>8. /\ DOMAIN m = DOMAIN h \cup {new}
          /\ \A c \in DOMAIN m :
                /\ m[c].free = IF c = new THEN TRUE ELSE h[c].free
                /\ m[c].size = IF c = b THEN N
                               ELSE IF c = new THEN h[b].size - N - HeaderSize ELSE h[c].size
                /\ m[c].next = IF c = b THEN new
                               ELSE IF c = new THEN h[b].next ELSE h[c].next
      BY <3>5 DEF Cut
    <3>9. m[b].size = N /\ b \in DOMAIN m /\ N <= m[b].size /\ m[b].size \in Nat
      <4>1. b \in DOMAIN m
        BY <3>8
      <4>2. m[b].size = N
        BY <3>8, <4>1
      <4> QED
        BY <4>1, <4>2
    <3>10. ASSUME NEW c \in DOMAIN m, c # b, m[c].free, m[c].next # NULL
           PROVE  ~ m[m[c].next].free
      <4>1. PICK x \in DOMAIN h : m[c].next = h[x].next /\ h[x].free
        <5>1. CASE c = new
          BY <3>2, <3>8, <3>10, <5>1
        <5>2. CASE c # new
          BY <3>8, <3>10, <5>2
        <5> QED
          BY <5>1, <5>2
      <4>2. ~ h[m[c].next].free
        BY <1>2, <3>10, <4>1 DEF Coalesced
      <4>3. m[c].next \in DOMAIN h
        BY <1>2, <3>10, <4>1, LinkedFacts
      <4> QED
        BY <3>4, <3>8, <4>2, <4>3
    <3>11. ASSUME NEW c \in DOMAIN h, c # b
           PROVE  c \in DOMAIN m /\ m[c].free = h[c].free /\ m[c].size = h[c].size
      BY <3>4, <3>8, <3>11
    <3> QED
      BY <3>6, <3>7, <3>9, <3>10, <3>11
  <2> QED
    BY <2>1, <2>2
<1>6. Marked(m, b, FALSE, g)
  <2>1. g = [m EXCEPT ![b].free = FALSE]
    BY <1>1 DEF TakenList
  <2> QED
    BY <1>5, <2>1, MarkFields
<1>7. /\ DOMAIN g = DOMAIN m
      /\ \A c \in DOMAIN m : /\ g[c].size = m[c].size /\ g[c].next = m[c].next
                             /\ g[c].free = IF c = b THEN FALSE ELSE m[c].free
  BY <1>6 DEF Marked
<1>8. Linked(g, head)
  BY <1>5, <1>6, MarkKeeps
<1>9. Spaced(g, brk, bufs)
  BY <1>5, <1>6, MarkKeeps
<1>10. Coalesced(g)
  <2> SUFFICES ASSUME NEW c \in DOMAIN g, g[c].free, g[c].next # NULL
               PROVE  ~ g[g[c].next].free
    BY DEF Coalesced
  <2>1. c \in DOMAIN m /\ c # b /\ m[c].free /\ m[c].next = g[c].next
    BY <1>7
  <2>2. ~ m[m[c].next].free
    BY <1>5, <2>1
  <2>3. m[c].next \in DOMAIN m
    BY <1>5, <2>1, LinkedFacts
  <2> QED
    BY <1>7, <2>1, <2>2, <2>3
<1>11. Held(g, l2)
  <2> SUFFICES ASSUME NEW c \in DOMAIN l2
               PROVE  c \in DOMAIN g /\ ~ g[c].free /\ l2[c] \in Nat /\ l2[c] <= g[c].size
    BY DEF Held
  <2>1. CASE c = b
    <3>1. l2[c] = n /\ c \in DOMAIN g /\ ~ g[c].free /\ g[c].size = m[b].size
      BY <1>5, <1>7, <2>1 DEF Given
    <3> QED
      BY <1>5, <3>1
  <2>2. CASE c # b
    <3>1. l2[c] = l[c] /\ c \in DOMAIN l
      BY <2>2 DEF Given
    <3>2. c \in DOMAIN h /\ ~ h[c].free /\ l[c] \in Nat /\ l[c] <= h[c].size
      BY <1>2, <3>1 DEF Held
    <3>3. c \in DOMAIN m /\ m[c].free = h[c].free /\ m[c].size = h[c].size
      BY <1>5, <2>2, <3>2
    <3> QED
      BY <1>7, <2>2, <3>1, <3>2, <3>3
  <2> QED
    BY <2>1, <2>2
<1> QED
  BY <1>8, <1>9, <1>10, <1>11 DEF SoundHeap

\* The list with a block of N bytes at address e.
GrownList(h, last, e, N, g) ==
    g = [c \in DOMAIN h \cup {e} |->
           CASE c = e -> [size |-> N, free |-> FALSE, next |-> NULL, prev |-> last]
             [] c = last -> [h[c] EXCEPT !.next = e]
             [] OTHER -> h[c]]

\* malloc puts a block at the break.
LEMMA GrowList ==
    ASSUME NEW h, NEW head, NEW brk \in Nat, NEW bufs, NEW l,
           SoundHeap(h, head, brk, bufs, l), NEW last, IsLast(h, last),
           \A c \in DOMAIN h : c < brk, NEW n \in Nat, NEW N \in Nat, n <= N,
           NEW g, GrownList(h, last, brk, N, g), NEW l2, Given(l, brk, n, l2),
           NEW head2, head2 = IF last = NULL THEN brk ELSE head
    PROVE  SoundHeap(g, head2, brk + HeaderSize + N, bufs, l2)
<1>1. Linked(h, head) /\ Spaced(h, brk, bufs) /\ Coalesced(h) /\ Held(h, l)
  BY DEF SoundHeap
<1>2. NULL \notin Nat /\ last \in DOMAIN h \cup {NULL} /\ brk \notin DOMAIN h /\ brk # last
  BY UserHeapConstants DEF IsLast
<1>3. DOMAIN g = DOMAIN h \cup {brk}
  BY DEF GrownList
<1>4. \A c \in DOMAIN h : h[c] \in Header(DOMAIN h)
  BY <1>1 DEF Linked
<1>5. Appended(h, last, brk, N, g)
  <2> SUFFICES ASSUME NEW c \in DOMAIN g
               PROVE  /\ g[c] \in Header(DOMAIN g)
                      /\ g[c].free = IF c = brk THEN FALSE ELSE h[c].free
                      /\ g[c].size = IF c = brk THEN N ELSE h[c].size
                      /\ g[c].next = IF c = brk THEN NULL
                                     ELSE IF c = last THEN brk ELSE h[c].next
                      /\ g[c].prev = IF c = brk THEN last ELSE h[c].prev
    BY <1>3 DEF Appended
  <2>1. CASE c = brk
    <3>1. g[c] = [size |-> N, free |-> FALSE, next |-> NULL, prev |-> last]
      BY <1>2, <1>3, <2>1 DEF GrownList
    <3> QED
      BY <1>2, <1>3, <2>1, <3>1 DEF Header
  <2>2. CASE c # brk /\ c = last
    <3>1. g[c] = [h[c] EXCEPT !.next = brk] /\ c \in DOMAIN h
      BY <1>2, <1>3, <2>2 DEF GrownList
    <3>2. h[c] \in Header(DOMAIN h)
      BY <1>4, <3>1
    <3> QED
      BY <1>3, <2>2, <3>1, <3>2 DEF Header
  <2>3. CASE c # brk /\ c # last
    <3>1. g[c] = h[c] /\ c \in DOMAIN h
      BY <1>3, <2>3 DEF GrownList
    <3>2. h[c] \in Header(DOMAIN h)
      BY <1>4, <3>1
    <3> QED
      BY <1>3, <2>3, <3>1, <3>2 DEF Header
  <2> QED
    BY <2>1, <2>2, <2>3
<1>6. Linked(g, head2)
  BY <1>1, <1>5, AppendLinked
<1>7. Spaced(g, brk + HeaderSize + N, bufs)
  BY <1>1, <1>5, AppendSpaced
<1>8. \A c \in DOMAIN g :
          /\ g[c].free = IF c = brk THEN FALSE ELSE h[c].free
          /\ g[c].size = IF c = brk THEN N ELSE h[c].size
          /\ g[c].next = IF c = brk THEN NULL ELSE IF c = last THEN brk ELSE h[c].next
  BY <1>5 DEF Appended
<1>9. Coalesced(g)
  <2> SUFFICES ASSUME NEW c \in DOMAIN g, g[c].free, g[c].next # NULL
               PROVE  ~ g[g[c].next].free
    BY DEF Coalesced
  <2>1. c # brk /\ c \in DOMAIN h /\ h[c].free
    BY <1>3, <1>8
  <2>2. CASE c = last
    BY <1>3, <1>8, <2>1, <2>2
  <2>3. CASE c # last
    <3>1. g[c].next = h[c].next
      BY <1>8, <2>1, <2>3
    <3>2. h[c].next \in DOMAIN h /\ ~ h[h[c].next].free
      BY <1>1, <2>1, <3>1, LinkedFacts DEF Coalesced
    <3> QED
      BY <1>2, <1>3, <1>8, <3>1, <3>2
  <2> QED
    BY <2>2, <2>3
<1>10. Held(g, l2)
  <2> SUFFICES ASSUME NEW c \in DOMAIN l2
               PROVE  c \in DOMAIN g /\ ~ g[c].free /\ l2[c] \in Nat /\ l2[c] <= g[c].size
    BY DEF Held
  <2>1. CASE c = brk
    BY <1>3, <1>8, <2>1 DEF Given
  <2>2. CASE c # brk
    <3>1. l2[c] = l[c] /\ c \in DOMAIN l
      BY <2>2 DEF Given
    <3>2. c \in DOMAIN h /\ ~ h[c].free /\ l[c] \in Nat /\ l[c] <= h[c].size
      BY <1>1, <3>1 DEF Held
    <3> QED
      BY <1>3, <1>8, <2>2, <3>1, <3>2
  <2> QED
    BY <2>1, <2>2
<1> QED
  BY <1>6, <1>7, <1>9, <1>10 DEF SoundHeap

-----------------------------------------------------------------------------
(***************************************************************************)
(* The client's heap in the system.                                        *)
(***************************************************************************)

\* An empty heap is sound.
LEMMA EmptyHeap ==
    ASSUME NEW h, NEW head, NEW brk, NEW l, DOMAIN h = {}, DOMAIN l = {}
    PROVE  SoundHeap(h, head, brk, {}, l)
  BY DEF SoundHeap, Linked, Spaced, Coalesced, Held

\* Every block of a sound heap begins below the break.
LEMMA BelowBreak ==
    ASSUME NEW h, NEW head, NEW brk \in Nat, NEW bufs, NEW l,
           SoundHeap(h, head, brk, bufs, l)
    PROVE  \A c \in DOMAIN h : c \in Nat /\ c < brk
<1> SUFFICES ASSUME NEW c \in DOMAIN h  PROVE c \in Nat /\ c < brk
  OBVIOUS
<1>1. Linked(h, head) /\ Spaced(h, brk, bufs)
  BY DEF SoundHeap
<1>2. End(h, c) <= Limit(h, c, brk) /\ Limit(h, c, brk) <= brk
  BY <1>1 DEF Spaced
<1>3. c \in Nat /\ End(h, c) \in Nat /\ c < End(h, c) /\ Limit(h, c, brk) \in Nat
  BY <1>1, LinkedFacts DEF Limit
<1> QED
  BY <1>2, <1>3

\* What the kernel does without the client's heap leaves its break alone, unless it
\* creates the client.
LEMMA KernelKeeps ==
    ASSUME MemInv, Kernel, user \in Proc \ {WM}
    PROVE  /\ state'[user] = "unborn" => state[user] = "unborn"
           /\ state'[user] = "alive" =>
                 \/ state[user] = "unborn"
                 \/ state[user] = "alive" /\ program_break'[user] = program_break[user]
<1>1. TypeOK
  BY DEF MemInv, Typed
<1>2. /\ state \in [Proc -> {"unborn", "alive", "exited", "reaped"}]
      /\ program_break \in [Proc -> Nat] /\ zombie_task \in Proc \cup {None}
      /\ user \in Proc /\ user # WM
  BY <1>1, TypeFacts
<1>3. CASE \E p \in Proc : Create(p)
  BY <1>2, <1>3 DEF Create
<1>4. CASE \E p \in Proc : Exit(p)
  BY <1>2, <1>4 DEF Exit, history
<1>5. CASE \E p \in Proc \ {user}, inc \in Increments : Sbrk(p, inc)
  BY <1>2, <1>5 DEF Sbrk
<1>6. CASE \E p \in Proc \ {user}, inc \in Increments : SbrkFails(p, inc)
  BY <1>2, <1>6 DEF SbrkFails
<1>7. CASE \E q \in Proc \ {user} : ShareMem(q)
  BY <1>2, <1>7 DEF ShareMem
<1>8. CASE \E l \in windows, n \in 1 .. SharedPages : Unmap(l, n)
  BY <1>2, <1>8 DEF Unmap
<1>9. CASE Reap
  BY <1>2, <1>9 DEF Reap
<1> QED
  BY <1>3, <1>4, <1>5, <1>6, <1>7, <1>8, <1>9 DEF Kernel

\* The parts of HeapInv', from those of a step that changes the client's heap.
LEMMA HeapInvNext ==
    ASSUME HeapInv, user' = user, state' = state, user \in Alive,
           ~ careless' => SoundHeap(block', heap_head', program_break'[user], buffers', live')
    PROVE  HeapInv'
<1>1. user \in Proc /\ state[user] = "alive"
  BY DEF Alive
<1>2. SoundHeap(block, heap_head, program_break[user], buffers, live)'
         <=> SoundHeap(block', heap_head', program_break'[user], buffers', live')
  BY DEF SoundHeap, Linked, Spaced, Coalesced, Held, Header, End, Limit, BufLow, BufHigh
<1> QED
  BY <1>1, <1>2 DEF HeapInv

\* The invariant holds before the client is created.
LEMMA InitHeapInv == HeapInit => HeapInv
<1> SUFFICES ASSUME HeapInit
             PROVE  HeapInv
  OBVIOUS
<1>1. PICK m \in Machines : Init(m) /\ user = m.user
  BY DEF HeapInit
<1>2. user \in (Proc \ {WM}) \cup {None}
  BY <1>1, UserMemoryConstants
<1>3. DOMAIN block = {} /\ DOMAIN live = {} /\ buffers = {}
  BY DEF HeapInit
<1>4. user \notin Alive
  BY <1>1 DEF Init, Alive
<1> QED
  BY <1>2, <1>3, <1>4 DEF HeapInv

\* Every step keeps it.
LEMMA HeapStep ==
    MemInv /\ HeapInv /\ [HeapNext]_<<vars, heapVars, heap_history>> => HeapInv'
<1> SUFFICES ASSUME MemInv, HeapInv, [HeapNext]_<<vars, heapVars, heap_history>>
             PROVE  HeapInv'
  OBVIOUS
<1>1. TypeOK
  BY DEF MemInv, Typed
<1>2. ASSUME user \in Alive
      PROVE  /\ user \in Proc /\ user # WM /\ program_break[user] \in Nat
             /\ ~ careless => SoundHeap(block, heap_head, program_break[user], buffers, live)
  BY <1>1, <1>2, TypeFacts, UserMemoryConstants DEF HeapInv, Alive
<1>3. CASE UNCHANGED <<vars, heapVars, heap_history>>
  <2>1. /\ user' = user /\ heap_head' = heap_head /\ block' = block /\ live' = live
        /\ buffers' = buffers /\ careless' = careless
        /\ state' = state /\ program_break' = program_break
    BY <1>3 DEF vars, heapVars, heap_history
  <2>2. CASE user \in Alive
    <3>1. ~ careless' => SoundHeap(block', heap_head', program_break'[user], buffers', live')
      BY <1>2, <2>1, <2>2
    <3> QED
      BY <2>1, <2>2, <3>1, HeapInvNext
  <2>3. CASE user \notin Alive
    BY <2>1, <2>3 DEF HeapInv, Alive
  <2> QED
    BY <2>2, <2>3
<1>4. CASE Kernel
  <2>1. /\ user' = user /\ heap_head' = heap_head /\ block' = block /\ live' = live
        /\ buffers' = buffers /\ careless' = careless
    BY <1>4 DEF Kernel, heapVars
  <2>2. CASE user = None
    <3>1. user' \notin Proc /\ user' \notin Alive'
      BY <2>1, <2>2, UserMemoryConstants DEF Alive
    <3> QED
      BY <2>1, <2>2, <3>1 DEF HeapInv
  <2>3. CASE user # None
    <3>1. user \in Proc \ {WM}
      BY <2>3 DEF HeapInv
    <3>2. /\ state'[user] = "unborn" => state[user] = "unborn"
          /\ state'[user] = "alive" =>
                \/ state[user] = "unborn"
                \/ state[user] = "alive" /\ program_break'[user] = program_break[user]
      BY <1>4, <3>1, KernelKeeps
    <3>3. state[user] = "unborn" => DOMAIN block = {} /\ DOMAIN live = {} /\ buffers = {}
      BY <3>1 DEF HeapInv
    <3>4. ASSUME ~ careless', state'[user] = "alive"
          PROVE  SoundHeap(block, heap_head, program_break'[user], buffers, live)
      <4>1. CASE state[user] = "unborn"
        BY <3>3, <4>1, EmptyHeap
      <4>2. CASE state[user] = "alive" /\ program_break'[user] = program_break[user]
        <5>1. user \in Alive
          BY <3>1, <4>2 DEF Alive
        <5> QED
          BY <1>2, <2>1, <3>4, <4>2, <5>1
      <4> QED
        BY <3>2, <3>4, <4>1, <4>2
    <3>5. user' \in (Proc \ {WM}) \cup {None}
      BY <2>1, <3>1
    <3>6. user' \in Proc /\ state'[user'] = "unborn" =>
             DOMAIN block' = {} /\ DOMAIN live' = {} /\ buffers' = {}
      BY <2>1, <3>2, <3>3
    <3>7. (~ careless /\ user \in Alive)' =>
             SoundHeap(block, heap_head, program_break[user], buffers, live)'
      <4> SUFFICES ASSUME ~ careless', user \in Alive'
                   PROVE  SoundHeap(block', heap_head', program_break'[user], buffers', live')
        BY <2>1 DEF SoundHeap, Linked, Spaced, Coalesced, Held, Header, End, Limit, BufLow,
                    BufHigh
      <4>1. state'[user] = "alive"
        BY DEF Alive
      <4> QED
        BY <2>1, <3>4, <4>1
    <3> QED
      BY <3>5, <3>6, <3>7 DEF HeapInv
  <2> QED
    BY <2>2, <2>3
<1>5. CASE ShareWithUser
  <2>1. PICK k : k = PageTop(program_break[user])
    OBVIOUS
  <2>2. /\ user \in Alive /\ ShareMem(user) /\ buffers' = buffers \cup {k}
        /\ user' = user /\ heap_head' = heap_head /\ block' = block /\ live' = live
        /\ careless' = (careless \/ FreeBelow')
    BY <1>5, <2>1 DEF ShareWithUser, heapVars, Noted
  <2>3. user \in Proc /\ user # WM /\ program_break[user] \in Nat /\ program_break \in [Proc -> Nat]
    BY <1>1, <1>2, <2>2, TypeFacts
  <2>4. state' = state /\ program_break'[user] = BufHigh(k)
    <3>1. program_break'[user] = SharedBreak(user) /\ state' = state
      BY <2>2, <2>3 DEF ShareMem
    <3>2. k \in Nat /\ PAGE_SIZE \in Nat /\ SharedPages \in Nat
      BY <2>1, <2>3, PageTopBounds, UserMemoryConstants
    <3>3. SharedBreak(user) = k * PAGE_SIZE + SharedPages * PAGE_SIZE
      BY <2>1 DEF SharedBreak, Aligned
    <3>4. (k + SharedPages) * PAGE_SIZE = k * PAGE_SIZE + SharedPages * PAGE_SIZE
      BY <3>2
    <3> QED
      BY <3>1, <3>3, <3>4 DEF BufHigh
  <2>5. k \in Nat /\ program_break[user] <= BufLow(k)
    BY <2>1, <2>3, PageTopBounds DEF BufLow
  <2>6. ASSUME ~ careless'
        PROVE  SoundHeap(block', heap_head', program_break'[user], buffers', live')
    <3>1. SoundHeap(block, heap_head, program_break[user], buffers, live)
      BY <1>2, <2>2, <2>6
    <3>2. Spaced(block, BufHigh(k), buffers \cup {k})
      BY <2>3, <2>5, <3>1, ShareSpaced DEF SoundHeap
    <3> QED
      BY <2>2, <2>4, <3>1, <3>2 DEF SoundHeap
  <2> QED
    BY <2>2, <2>4, <2>6, HeapInvNext
<1>6. CASE \E n \in Requests : MallocFit(n)
  <2>1. PICK n \in Requests : MallocFit(n)
    BY <1>6
  <2>2. PICK N : N = Align(n)
    OBVIOUS
  <2>3. PICK b : b = List[FirstFit(N)]
    OBVIOUS
  <2>4. /\ user \in Alive /\ Fits(N) # {}
        /\ TakenList(block, b, N, block') /\ Given(live, b, n, live')
        /\ UNCHANGED vars /\ user' = user /\ heap_head' = heap_head /\ buffers' = buffers
        /\ careless' = (careless \/ FreeBelow')
    BY <2>1, <2>2, <2>3 DEF MallocFit, Noted, TakenList, Given
  <2>5. state' = state /\ program_break' = program_break
    BY <2>4 DEF vars
  <2>6. n \in Nat /\ N \in Nat /\ n <= N
    BY <2>2, AlignCovers
  <2>7. ASSUME ~ careless'
        PROVE  SoundHeap(block', heap_head', program_break'[user], buffers', live')
    <3>1. program_break[user] \in Nat
      BY <1>2, <2>4
    <3>2. SoundHeap(block, heap_head, program_break[user], buffers, live)
      BY <1>2, <2>4, <2>7
    <3>3. \A c \in DOMAIN block : c \in Nat /\ c < program_break[user]
      BY <3>1, <3>2, BelowBreak
    <3>4. List \in Seq(DOMAIN block)
      BY <3>1, <3>2, <3>3, ListFacts DEF SoundHeap
    <3>5. b \in DOMAIN block /\ block[b].free /\ block[b].size >= N
      BY <2>3, <2>4, <3>4, FitFacts
    <3>6. SoundHeap(block', heap_head, program_break[user], buffers, live')
      BY <2>4, <2>6, <3>1, <3>2, <3>5, FitList
    <3> QED
      BY <2>4, <2>5, <3>6
  <2> QED
    BY <2>4, <2>5, <2>7, HeapInvNext
<1>7. CASE \E n \in Requests : MallocGrow(n)
  <2>1. PICK n \in Requests : MallocGrow(n)
    BY <1>7
  <2>2. PICK N : N = Align(n)
    OBVIOUS
  <2>3. PICK last : last = IF List = <<>> THEN NULL ELSE Last(List)
    OBVIOUS
  <2>4. PICK brk : brk = program_break[user]
    OBVIOUS
  <2>5. /\ user \in Alive /\ Sbrk(user, N + HeaderSize)
        /\ GrownList(block, last, brk, N, block') /\ Given(live, brk, n, live')
        /\ heap_head' = (IF last = NULL THEN brk ELSE heap_head)
        /\ user' = user /\ buffers' = buffers
        /\ careless' = (careless \/ FreeBelow')
    BY <2>1, <2>2, <2>3, <2>4 DEF MallocGrow, Noted, GrownList, Given
  <2>6. n \in Nat /\ N \in Nat /\ n <= N /\ HeaderSize \in Nat
    BY <2>2, AlignCovers, UserHeapConstants
  <2>7. user \in Proc /\ brk \in Nat /\ program_break \in [Proc -> Nat]
    BY <1>1, <1>2, <2>4, <2>5, TypeFacts
  <2>8. state' = state /\ program_break'[user] = brk + HeaderSize + N
    <3>1. state' = state /\ program_break'[user] = brk + (N + HeaderSize)
      BY <2>4, <2>5, <2>7 DEF Sbrk
    <3> QED
      BY <2>6, <2>7, <3>1
  <2>9. ASSUME ~ careless'
        PROVE  SoundHeap(block', heap_head', program_break'[user], buffers', live')
    <3>1. SoundHeap(block, heap_head, brk, buffers, live)
      BY <1>2, <2>4, <2>5, <2>9
    <3>2. \A c \in DOMAIN block : c \in Nat /\ c < brk
      BY <2>7, <3>1, BelowBreak
    <3>3. IsLast(block, last)
      BY <2>3, <2>7, <3>1, <3>2, ListFacts DEF SoundHeap
    <3>4. SoundHeap(block', heap_head', brk + HeaderSize + N, buffers, live')
      BY <2>5, <2>6, <2>7, <3>1, <3>2, <3>3, GrowList
    <3> QED
      BY <2>5, <2>8, <3>4
  <2> QED
    BY <2>5, <2>8, <2>9, HeapInvNext
<1>8. CASE \E n \in Requests : MallocFails(n)
  <2>1. PICK n \in Requests : MallocFails(n)
    BY <1>8
  <2>2. /\ user \in Alive /\ SbrkFails(user, Align(n) + HeaderSize)
        /\ heap_head' = (IF heap_head = NULL THEN program_break[user] ELSE heap_head)
        /\ user' = user /\ block' = block /\ live' = live /\ buffers' = buffers
        /\ careless' = (careless \/ FreeBelow')
    BY <2>1 DEF MallocFails, Noted
  <2>3. user \in Proc /\ program_break \in [Proc -> Nat]
    BY <1>1, <1>2, <2>2, TypeFacts
  <2>4. state' = state /\ program_break'[user] = program_break[user]
    BY <2>2, <2>3 DEF SbrkFails, BreakAfterFailure
  <2>5. ASSUME ~ careless'
        PROVE  SoundHeap(block', heap_head', program_break'[user], buffers', live')
    <3>1. SoundHeap(block, heap_head, program_break[user], buffers, live)
      BY <1>2, <2>2, <2>5
    <3>2. CASE DOMAIN block = {}
      <4>1. Linked(block, heap_head')
        BY <3>2 DEF Linked
      <4> QED
        BY <2>2, <2>4, <3>1, <4>1 DEF SoundHeap
    <3>3. CASE DOMAIN block # {}
      <4>1. heap_head \in Nat
        BY <3>1, <3>3 DEF SoundHeap, Linked
      <4>2. heap_head' = heap_head
        BY <2>2, <4>1, UserHeapConstants
      <4> QED
        BY <2>2, <2>4, <3>1, <4>2
    <3> QED
      BY <3>2, <3>3
  <2> QED
    BY <2>2, <2>4, <2>5, HeapInvNext
<1>9. CASE \E b \in DOMAIN live : Free(b)
  <2>1. PICK b \in DOMAIN live : Free(b)
    BY <1>9
  <2>2. /\ user \in Alive
        /\ FreedList(block, b, block') /\ Dropped(live, b, live')
        /\ UNCHANGED vars /\ user' = user /\ heap_head' = heap_head /\ buffers' = buffers
        /\ careless' = (careless \/ FreeBelow')
    BY <2>1 DEF Free, Noted, FreedList, Dropped
  <2>3. state' = state /\ program_break' = program_break
    BY <2>2 DEF vars
  <2>4. ASSUME ~ careless'
        PROVE  SoundHeap(block', heap_head', program_break'[user], buffers', live')
    <3>1. program_break[user] \in Nat
      BY <1>2, <2>2
    <3>2. SoundHeap(block, heap_head, program_break[user], buffers, live)
      BY <1>2, <2>2, <2>4
    <3>3. ~ Below(block', buffers)
      BY <2>2, <2>4 DEF FreeBelow, Below
    <3>4. SoundHeap(block', heap_head, program_break[user], buffers, live')
      BY <2>2, <3>1, <3>2, <3>3, FreeList
    <3> QED
      BY <2>2, <2>3, <3>4
  <2> QED
    BY <2>2, <2>3, <2>4, HeapInvNext
<1> QED
  BY <1>3, <1>4, <1>5, <1>6, <1>7, <1>8, <1>9 DEF HeapNext

\* Every reachable state satisfies the invariant of the heap.
THEOREM HeapInvariant == HeapSpec => []HeapInv
  BY InitHeapInv, HeapStep, MemInvariant, PTL DEF HeapSpec

\* A byte below the break is on a mapped page, and one outside a buffer is on none of
\* the buffer's pages.
LEMMA ByteOnPage ==
    ASSUME NEW i \in Nat, NEW brk \in Nat, i < brk
    PROVE  /\ i \div PAGE_SIZE \in Nat /\ i \div PAGE_SIZE < PageTop(brk)
           /\ \A p \in Nat : i < BufLow(p) \/ BufHigh(p) <= i =>
                 i \div PAGE_SIZE \notin p .. p + SharedPages - 1
<1>1. PAGE_SIZE \in Nat \ {0} /\ SharedPages \in Nat \ {0}
  BY UserMemoryConstants
<1>2. PICK v, r \in Nat : v = i \div PAGE_SIZE /\ r < PAGE_SIZE /\ i = v * PAGE_SIZE + r
  <2> DEFINE q == i \div PAGE_SIZE
             t == i % PAGE_SIZE
  <2>1. q \in Nat /\ t \in 0 .. PAGE_SIZE - 1 /\ i = PAGE_SIZE * q + t
    BY <1>1
  <2>2. PAGE_SIZE * q = q * PAGE_SIZE /\ t \in Nat /\ t < PAGE_SIZE
    BY <1>1, <2>1
  <2>3. q = i \div PAGE_SIZE
    OBVIOUS
  <2> HIDE DEF q, t
  <2> QED
    BY <2>1, <2>2, <2>3
<1>3. v * PAGE_SIZE \in Nat
  BY <1>1
<1>4. v < PageTop(brk)
  <2>1. PageTop(brk) \in Nat /\ brk <= PageTop(brk) * PAGE_SIZE /\ PageTop(brk) * PAGE_SIZE \in Nat
    BY <1>1, PageTopBounds
  <2>2. ~ (PageTop(brk) * PAGE_SIZE <= v * PAGE_SIZE)
    BY <1>2, <1>3, <2>1
  <2>3. ~ (PageTop(brk) <= v)
    BY <1>1, <2>1, <2>2, ProductOrder
  <2> QED
    BY <2>1, <2>3
<1>5. ASSUME NEW p \in Nat, v \in p .. p + SharedPages - 1
      PROVE  ~ (i < BufLow(p)) /\ ~ (BufHigh(p) <= i)
  <2>1. p <= v /\ v + 1 <= p + SharedPages /\ v + 1 \in Nat /\ p + SharedPages \in Nat
    BY <1>1, <1>5
  <2>2. p * PAGE_SIZE <= v * PAGE_SIZE /\ (v + 1) * PAGE_SIZE <= (p + SharedPages) * PAGE_SIZE
    BY <1>1, <2>1, ProductOrder
  <2>3. (v + 1) * PAGE_SIZE = v * PAGE_SIZE + PAGE_SIZE
    BY <1>1
  <2>4. p * PAGE_SIZE \in Nat /\ (p + SharedPages) * PAGE_SIZE \in Nat
    BY <1>1, <2>1
  <2> QED
    BY <1>1, <1>2, <1>3, <2>2, <2>3, <2>4 DEF BufLow, BufHigh
<1> QED
  BY <1>2, <1>4, <1>5

\* As long as no free block was below a buffer, every block that the client holds is
\* as large as it asked for, on mapped pages, apart from every other block with its
\* header and from the buffers that share_mem put in between.
THEOREM HeapTheorem == HeapSpec => []HeapApart
<1>1. MemInv /\ HeapInv => HeapApart
  <2> SUFFICES ASSUME MemInv, HeapInv, ~ careless, user \in Alive, NEW b \in DOMAIN live
               PROVE  /\ block[b].size >= live[b]
                      /\ \A i \in Extent(b) :
                            /\ i < program_break[user] /\ map[user][i \div PAGE_SIZE] # None
                            /\ \A p \in buffers : i \div PAGE_SIZE \notin p .. p + SharedPages - 1
                      /\ \A c \in DOMAIN block \ {b} :
                            Extent(b) \cap (c .. c + HeaderSize + block[c].size - 1) = {}
    BY DEF HeapApart
  <2>1. PICK brk : brk = program_break[user]
    OBVIOUS
  <2>2. /\ Linked(block, heap_head) /\ Spaced(block, brk, buffers) /\ Held(block, live)
        /\ user # WM
    BY <2>1, UserMemoryConstants DEF HeapInv, SoundHeap, Alive
  <2>3. TypeOK /\ Backed
    BY DEF MemInv, Typed
  <2>4. brk \in Nat /\ PageTop(brk) <= MaxPage /\ PageTop(brk) \in Nat
    BY <2>1, <2>3, TypeFacts DEF Alive
  <2>5. /\ b \in DOMAIN block /\ live[b] <= block[b].size /\ live[b] \in Nat
    BY <2>2 DEF Held
  <2>6. HeaderSize \in Nat \ {0}
    BY UserHeapConstants
  <2>7. \A c \in DOMAIN block :
           /\ c \in Nat /\ block[c].size \in Nat
           /\ End(block, c) = c + HeaderSize + block[c].size
           /\ \A d \in DOMAIN block : c < d => End(block, c) <= d
    <3> SUFFICES ASSUME NEW c \in DOMAIN block
                 PROVE  /\ c \in Nat /\ block[c].size \in Nat
                        /\ End(block, c) = c + HeaderSize + block[c].size
                        /\ \A d \in DOMAIN block : c < d => End(block, c) <= d
      OBVIOUS
    <3>1. /\ c \in Nat /\ block[c].size \in Nat /\ End(block, c) \in Nat
          /\ End(block, c) = c + HeaderSize + block[c].size
      BY <2>2, LinkedFacts
    <3>2. ASSUME NEW d \in DOMAIN block, c < d  PROVE End(block, c) <= d
      <4>1. /\ block[c].next # NULL /\ block[c].next <= d /\ block[c].next \in Nat /\ d \in Nat
        BY <2>2, <3>1, <3>2, LinkedFacts
      <4>2. End(block, c) <= block[c].next
        BY <2>2, <4>1 DEF Spaced, Limit
      <4> QED
        BY <3>1, <4>1, <4>2
    <3> QED
      BY <3>1, <3>2
  <2>8. End(block, b) <= brk
    <3>1. End(block, b) <= Limit(block, b, brk) /\ Limit(block, b, brk) <= brk
      BY <2>2, <2>5 DEF Spaced
    <3>2. Limit(block, b, brk) \in Nat /\ End(block, b) \in Nat
      BY <2>2, <2>4, <2>5, LinkedFacts DEF Limit
    <3> QED
      BY <2>4, <3>1, <3>2
  <2>9. ASSUME NEW i \in Extent(b)
        PROVE  i \in Nat /\ b < i /\ i < End(block, b)
    BY <2>5, <2>6, <2>7 DEF Extent
  <2>10. ASSUME NEW i \in Extent(b)
         PROVE  /\ i < brk /\ map[user][i \div PAGE_SIZE] # None
                /\ \A p \in buffers : i \div PAGE_SIZE \notin p .. p + SharedPages - 1
    <3>1. i \in Nat /\ i < brk
      BY <2>4, <2>5, <2>6, <2>7, <2>8, <2>9
    <3>2. PICK v : v = i \div PAGE_SIZE
      OBVIOUS
    <3>3. v \in Nat /\ v < PageTop(brk)
      BY <2>4, <3>1, <3>2, ByteOnPage
    <3>4. v \in VPage
      BY <2>4, <3>3, UserMemoryConstants DEF VPage
    <3>5. map[user][v] # None
      BY <2>1, <2>2, <2>3, <3>3, <3>4 DEF Backed
    <3>6. ASSUME NEW p \in buffers  PROVE v \notin p .. p + SharedPages - 1
      <4>1. p \in Nat /\ (End(block, b) <= BufLow(p) \/ BufHigh(p) <= b)
        BY <2>2, <2>5 DEF Spaced
      <4>2. BufLow(p) \in Nat /\ BufHigh(p) \in Nat /\ b \in Nat /\ End(block, b) \in Nat
        BY <2>5, <2>6, <2>7, <4>1, BufBounds
      <4>3. i < BufLow(p) \/ BufHigh(p) <= i
        BY <2>9, <4>1, <4>2
      <4> QED
        BY <2>4, <3>1, <3>2, <4>1, <4>3, ByteOnPage
    <3> QED
      BY <3>1, <3>2, <3>5, <3>6
  <2>11. ASSUME NEW c \in DOMAIN block, c # b, NEW i \in Extent(b),
                i \in c .. c + HeaderSize + block[c].size - 1
         PROVE  FALSE
    <3>1. i \in Nat /\ b < i /\ i < End(block, b)
      BY <2>9
    <3>2. c <= i /\ i < End(block, c) /\ c \in Nat /\ End(block, c) \in Nat
      BY <2>6, <2>7, <2>11
    <3>3. b \in Nat /\ End(block, b) \in Nat /\ (b < c => End(block, b) <= c)
          /\ (c < b => End(block, c) <= b)
      BY <2>5, <2>6, <2>7
    <3> QED
      BY <2>11, <3>1, <3>2, <3>3
  <2> QED
    BY <2>1, <2>5, <2>7, <2>10, <2>11
<1> QED
  BY <1>1, MemInvariant, HeapInvariant, PTL
=============================================================================

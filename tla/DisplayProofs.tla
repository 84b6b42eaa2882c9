---------------------------- MODULE DisplayProofs ----------------------------
(***************************************************************************)
(* Proofs about the window protocol for queues of any length of two or     *)
(* more, windows of any number of cells, any set of sizes and any number   *)
(* of keys, layout changes and messages: the terminal ends up drawing with *)
(* the size its window has, and no changed cell is forgotten, as long as   *)
(* no full queue refused one of the messages concerned.                    *)
(*                                                                         *)
(* And about the grid that the terminal keeps of its window, for glyphs,   *)
(* windows and pictures of any size, any characters, colours and escape    *)
(* codes, and messages and resizes without a bound.                        *)
(***************************************************************************)
EXTENDS Display, Term, SequenceTheorems, WellFoundedInduction, TLAPS

Sized(m) == m.type \in {"created", "resize"}

\* What a sequence of messages holds: a size, the answer to the request, at most one
\* answer, and the size of the last message that has one.
HasSize(a) == \E i \in DOMAIN a : Sized(a[i])
HasCreated(a) == \E i \in DOMAIN a : a[i].type = "created"
OneCreated(a) ==
    \A i, j \in DOMAIN a : a[i].type = "created" /\ a[j].type = "created" => i = j
LastIs(a, s) ==
    \E i \in DOMAIN a : /\ Sized(a[i]) /\ a[i].size = s
                        /\ \A j \in DOMAIN a : Sized(a[j]) => j <= i

\* The window manager reads the keyboard only when it has sent and drawn everything.
Quiet == phase = "input" => Idle

\* The request for a window: the terminal sends it once, before it has one.
Asked ==
    /\ tpc # "handle" => msg = NoMsg
    /\ tpc = "start" => win = "none"
    /\ tpc = "start" \/ win # "none" => \A i \in DOMAIN wq : wq[i].type # "request"
    /\ \A i, j \in DOMAIN wq : wq[i].type = "request" /\ wq[j].type = "request" => i = j

\* Its answer, which comes at most once: no size is on its way before there is a
\* window, and no second MSG_WINDOW_CREATED after the first.
Answered ==
    /\ win = "none" => ~ initialized /\ ~ HasSize(Ahead)
    /\ initialized => ~ HasCreated(Ahead)
    /\ OneCreated(Ahead)

\* A living terminal with a window, to which no size was refused.
Following == win = "alive" /\ tpc # "dead" /\ lost \cap {"created", "resize"} = {}

\* A terminal that waits for the answer to its request has it ahead of it, so that
\* a size it drops while it waits is not the last one; and the last size ahead of
\* it, or the one it draws with when none is, is the size of the window.
SizeInv ==
    Following =>
        /\ initialized \/ HasCreated(Ahead)
        /\ LastIs(Ahead, size) \/ (tsize = size /\ initialized /\ ~ HasSize(Ahead))

\* The inductive invariant.
DisplayInv == TypeOK /\ Quiet /\ Asked /\ Answered /\ SizeInv /\ NoStaleCell

-----------------------------------------------------------------------------
(***************************************************************************)
(* The message being handled, the queue behind it and what the window      *)
(* manager is about to send.                                               *)
(***************************************************************************)

\* a is the message m, then those of q, then those of r.
Joined(a, m, q, r) == a = <<m>> \o q \o r

\* The message being handled stands in front of the queue, the messages that are
\* about to be sent behind it.
LEMMA AheadIs ==
    ASSUME NEW S, NEW q \in Seq(S), NEW r \in Seq(S), NEW m, NEW a, Joined(a, m, q, r)
    PROVE  /\ DOMAIN a = 1 .. Len(q) + Len(r) + 1
           /\ \A i \in 1 .. Len(q) + Len(r) + 1 :
                 a[i] = IF i = 1 THEN m
                        ELSE IF i <= Len(q) + 1 THEN q[i - 1]
                        ELSE r[i - (Len(q) + 1)]
<1> DEFINE T == S \cup {m}
<1>1. Len(q) \in Nat /\ Len(r) \in Nat
  OBVIOUS
<1>2. <<m>> \in Seq(T) /\ Len(<<m>>) = 1 /\ <<m>>[1] = m
  OBVIOUS
<1>3. q \in Seq(T) /\ r \in Seq(T)
  OBVIOUS
<1> HIDE DEF T
<1>4. PICK c : c = <<m>> \o q
  OBVIOUS
<1>5. /\ c \in Seq(T) /\ Len(c) = Len(q) + 1
      /\ \A i \in 1 .. Len(q) + 1 : c[i] = IF i = 1 THEN m ELSE q[i - 1]
  <2>1. c \in Seq(T) /\ Len(c) = 1 + Len(q)
    BY <1>2, <1>3, <1>4, ConcatProperties
  <2>2. \A i \in 1 .. 1 + Len(q) : c[i] = IF i <= 1 THEN <<m>>[i] ELSE q[i - 1]
    BY <1>2, <1>3, <1>4, ConcatProperties
  <2> QED
    BY <1>1, <1>2, <2>1, <2>2
<1>6. a = c \o r
  BY <1>4 DEF Joined
<1>7. /\ a \in Seq(T) /\ Len(a) = Len(c) + Len(r)
      /\ \A i \in 1 .. Len(c) + Len(r) : a[i] = IF i <= Len(c) THEN c[i] ELSE r[i - Len(c)]
  BY <1>3, <1>5, <1>6, ConcatProperties
<1>8. DOMAIN a = 1 .. Len(q) + Len(r) + 1
  BY <1>1, <1>5, <1>7
<1>9. \A i \in 1 .. Len(q) + Len(r) + 1 :
         a[i] = IF i = 1 THEN m ELSE IF i <= Len(q) + 1 THEN q[i - 1] ELSE r[i - (Len(q) + 1)]
  BY <1>1, <1>5, <1>7
<1> QED
  BY <1>8, <1>9

\* b is a with one message more, at place k.
Inserted(a, b, n, k) ==
    /\ n \in Nat /\ k \in 1 .. n + 1
    /\ DOMAIN a = 1 .. n /\ DOMAIN b = 1 .. n + 1
    /\ \A i \in 1 .. n : i < k => b[i] = a[i]
    /\ \A i \in 1 .. n : i >= k => b[i + 1] = a[i]

\* a and b agree on the sizes that they hold.
Same(a, b) ==
    /\ HasSize(a) <=> HasSize(b)
    /\ HasCreated(a) <=> HasCreated(b)
    /\ OneCreated(a) <=> OneCreated(b)
    /\ \A s : LastIs(a, s) <=> LastIs(b, s)

\* Every message of the longer sequence is the one at place k or one of the other.
LEMMA InsertedBack ==
    ASSUME NEW a, NEW b, NEW n, NEW k, Inserted(a, b, n, k)
    PROVE  \A i \in 1 .. n + 1 :
              \/ i = k
              \/ i < k /\ i \in 1 .. n /\ a[i] = b[i]
              \/ i > k /\ i - 1 \in 1 .. n /\ i - 1 >= k /\ a[i - 1] = b[i]
<1> TAKE i \in 1 .. n + 1
<1>1. n \in Nat /\ k \in 1 .. n + 1
  BY DEF Inserted
<1>2. CASE i < k
  BY <1>1, <1>2 DEF Inserted
<1>3. CASE i > k
  <2>1. i - 1 \in 1 .. n /\ i - 1 >= k /\ (i - 1) + 1 = i
    BY <1>1, <1>3
  <2>2. b[(i - 1) + 1] = a[i - 1]
    BY <2>1 DEF Inserted
  <2> QED
    BY <1>3, <2>1, <2>2
<1> QED
  BY <1>1, <1>2, <1>3

\* The places of the shorter sequence in the longer one.
LEMMA InsertedForth ==
    ASSUME NEW a, NEW b, NEW n, NEW k, Inserted(a, b, n, k)
    PROVE  \A i \in 1 .. n :
              \/ i < k /\ i \in 1 .. n + 1 /\ b[i] = a[i]
              \/ i >= k /\ i + 1 \in 1 .. n + 1 /\ b[i + 1] = a[i]
<1> TAKE i \in 1 .. n
<1>1. n \in Nat /\ k \in 1 .. n + 1
  BY DEF Inserted
<1>2. i \in 1 .. n + 1 /\ i + 1 \in 1 .. n + 1 /\ (i < k \/ i >= k)
  BY <1>1
<1> QED
  BY <1>2 DEF Inserted

\* A message more brings no size and no answer out of sight.
LEMMA InsertedAny ==
    ASSUME NEW a, NEW b, NEW n, NEW k, Inserted(a, b, n, k)
    PROVE  /\ HasSize(a) => HasSize(b)
           /\ HasCreated(a) => HasCreated(b)
           /\ OneCreated(b) => OneCreated(a)
<1>1. DOMAIN a = 1 .. n /\ DOMAIN b = 1 .. n + 1 /\ n \in Nat /\ k \in Int
  BY DEF Inserted
<1>2. \A i \in 1 .. n :
              \/ i < k /\ i \in 1 .. n + 1 /\ b[i] = a[i]
              \/ i >= k /\ i + 1 \in 1 .. n + 1 /\ b[i + 1] = a[i]
  BY InsertedForth
<1>3. HasSize(a) => HasSize(b)
  BY <1>1, <1>2 DEF HasSize
<1>4. HasCreated(a) => HasCreated(b)
  BY <1>1, <1>2 DEF HasCreated
<1>5. ASSUME OneCreated(b)  PROVE OneCreated(a)
  <2> SUFFICES ASSUME NEW i \in 1 .. n, NEW j \in 1 .. n,
                      a[i].type = "created", a[j].type = "created"
               PROVE  i = j
    BY <1>1 DEF OneCreated
  <2>1. PICK x \in 1 .. n + 1 : b[x] = a[i] /\ ((i < k /\ x = i) \/ (i >= k /\ x = i + 1))
    BY <1>2
  <2>2. PICK y \in 1 .. n + 1 : b[y] = a[j] /\ ((j < k /\ y = j) \/ (j >= k /\ y = j + 1))
    BY <1>2
  <2>3. x = y
    BY <1>1, <1>5, <2>1, <2>2 DEF OneCreated
  <2> QED
    BY <1>1, <2>1, <2>2, <2>3
<1> QED
  BY <1>3, <1>4, <1>5

\* A message more that has no size, such as output of the shell or a key, changes
\* nothing about the sizes.
LEMMA InsertedOther ==
    ASSUME NEW a, NEW b, NEW n, NEW k, Inserted(a, b, n, k), ~ Sized(b[k])
    PROVE  Same(a, b)
<1>1. DOMAIN a = 1 .. n /\ DOMAIN b = 1 .. n + 1 /\ n \in Nat /\ k \in Int
  BY DEF Inserted
<1>2. \A i \in 1 .. n :
              \/ i < k /\ i \in 1 .. n + 1 /\ b[i] = a[i]
              \/ i >= k /\ i + 1 \in 1 .. n + 1 /\ b[i + 1] = a[i]
  BY InsertedForth
<1>3. \A i \in 1 .. n + 1 :
              \/ i = k
              \/ i < k /\ i \in 1 .. n /\ a[i] = b[i]
              \/ i > k /\ i - 1 \in 1 .. n /\ i - 1 >= k /\ a[i - 1] = b[i]
  BY InsertedBack
<1>4. b[k].type # "created"
  BY DEF Sized
<1>5. HasSize(b) => HasSize(a)
  BY <1>1, <1>3 DEF HasSize
<1>6. HasCreated(b) => HasCreated(a)
  BY <1>1, <1>3, <1>4 DEF HasCreated
<1>7. ASSUME OneCreated(a)  PROVE OneCreated(b)
  <2> SUFFICES ASSUME NEW i \in 1 .. n + 1, NEW j \in 1 .. n + 1,
                      b[i].type = "created", b[j].type = "created"
               PROVE  i = j
    BY <1>1 DEF OneCreated
  <2>1. PICK x \in 1 .. n : a[x] = b[i] /\ ((i < k /\ x = i) \/ (x >= k /\ x = i - 1))
    BY <1>3, <1>4
  <2>2. PICK y \in 1 .. n : a[y] = b[j] /\ ((j < k /\ y = j) \/ (y >= k /\ y = j - 1))
    BY <1>3, <1>4
  <2>3. x = y
    BY <1>1, <1>7, <2>1, <2>2 DEF OneCreated
  <2> QED
    BY <1>1, <2>1, <2>2, <2>3
<1>8. ASSUME NEW s, LastIs(a, s)  PROVE LastIs(b, s)
  <2>1. PICK i \in 1 .. n : /\ Sized(a[i]) /\ a[i].size = s
                            /\ \A j \in 1 .. n : Sized(a[j]) => j <= i
    BY <1>1, <1>8 DEF LastIs
  <2>2. PICK x \in 1 .. n + 1 : b[x] = a[i] /\ ((i < k /\ x = i) \/ (i >= k /\ x = i + 1))
    BY <1>2
  <2>3. ASSUME NEW j \in 1 .. n + 1, Sized(b[j])  PROVE j <= x
    <3>1. PICK y \in 1 .. n : a[y] = b[j] /\ ((j < k /\ y = j) \/ (y >= k /\ y = j - 1))
      BY <1>3, <2>3
    <3>2. y <= i
      BY <2>1, <2>3, <3>1
    <3> QED
      BY <1>1, <2>2, <3>1, <3>2
  <2> QED
    BY <1>1, <2>1, <2>2, <2>3 DEF LastIs
<1>9. ASSUME NEW s, LastIs(b, s)  PROVE LastIs(a, s)
  <2>1. PICK i \in 1 .. n + 1 : /\ Sized(b[i]) /\ b[i].size = s
                                /\ \A j \in 1 .. n + 1 : Sized(b[j]) => j <= i
    BY <1>1, <1>9 DEF LastIs
  <2>2. PICK x \in 1 .. n : a[x] = b[i] /\ ((i < k /\ x = i) \/ (x >= k /\ x = i - 1))
    BY <1>3, <2>1
  <2>3. ASSUME NEW j \in 1 .. n, Sized(a[j])  PROVE j <= x
    <3>1. PICK y \in 1 .. n + 1 : b[y] = a[j] /\ ((j < k /\ y = j) \/ (j >= k /\ y = j + 1))
      BY <1>2
    <3>2. y <= i
      BY <2>1, <2>3, <3>1
    <3> QED
      BY <1>1, <2>2, <3>1, <3>2
  <2> QED
    BY <1>1, <2>1, <2>2, <2>3 DEF LastIs
<1> QED
  BY <1>5, <1>6, <1>7, <1>8, <1>9, InsertedAny DEF Same

\* A message with a size behind all others is the last size.
LEMMA InsertedLast ==
    ASSUME NEW a, NEW b, NEW n, Inserted(a, b, n, n + 1), Sized(b[n + 1])
    PROVE  /\ LastIs(b, b[n + 1].size)
           /\ HasSize(b)
           /\ b[n + 1].type # "created" => /\ HasCreated(a) <=> HasCreated(b)
                                           /\ OneCreated(a) <=> OneCreated(b)
           /\ b[n + 1].type = "created" /\ ~ HasCreated(a) =>
                 HasCreated(b) /\ OneCreated(b)
<1>1. DOMAIN a = 1 .. n /\ DOMAIN b = 1 .. n + 1 /\ n \in Nat
  BY DEF Inserted
<1>2. \A i \in 1 .. n + 1 : i = n + 1 \/ (i \in 1 .. n /\ a[i] = b[i])
  <2> TAKE i \in 1 .. n + 1
  <2>1. \/ i = n + 1
        \/ i < n + 1 /\ i \in 1 .. n /\ a[i] = b[i]
        \/ i > n + 1
    BY InsertedBack
  <2> QED
    BY <1>1, <2>1
<1>3. n + 1 \in 1 .. n + 1 /\ \A j \in 1 .. n + 1 : j <= n + 1
  BY <1>1
<1>4. LastIs(b, b[n + 1].size) /\ HasSize(b)
  BY <1>1, <1>3 DEF LastIs, HasSize
<1>5. ASSUME b[n + 1].type # "created"
      PROVE  (HasCreated(b) => HasCreated(a)) /\ (OneCreated(a) => OneCreated(b))
  BY <1>1, <1>2, <1>5 DEF HasCreated, OneCreated
<1>6. ASSUME b[n + 1].type = "created", ~ HasCreated(a)
      PROVE  HasCreated(b) /\ OneCreated(b)
  BY <1>1, <1>2, <1>3, <1>6 DEF HasCreated, OneCreated
<1> QED
  BY <1>4, <1>5, <1>6, InsertedAny

\* The window manager decides to send one message more.
LEMMA AheadDecides ==
    ASSUME NEW S, NEW q \in Seq(S), NEW r \in Seq(S), NEW m, NEW x \in S, NEW a, NEW b,
           Joined(a, m, q, r), Joined(b, m, q, Append(r, x))
    PROVE  \E n \in Nat : Inserted(a, b, n, n + 1) /\ b[n + 1] = x
<1>1. PICK t : t = Append(r, x)
  OBVIOUS
<1>2. /\ t \in Seq(S) /\ Len(t) = Len(r) + 1 /\ Len(r) \in Nat /\ Len(q) \in Nat
      /\ \A i \in 1 .. Len(r) : t[i] = r[i]
      /\ t[Len(r) + 1] = x
  BY <1>1
<1>3. Joined(a, m, q, r)
  OBVIOUS
<1>4. Joined(b, m, q, t)
  BY <1>1
<1>5. /\ DOMAIN a = 1 .. Len(q) + Len(r) + 1
      /\ \A i \in 1 .. Len(q) + Len(r) + 1 :
            a[i] = IF i = 1 THEN m ELSE IF i <= Len(q) + 1 THEN q[i - 1] ELSE r[i - (Len(q) + 1)]
  BY <1>3, AheadIs
<1>6. /\ DOMAIN b = 1 .. Len(q) + Len(t) + 1
      /\ \A i \in 1 .. Len(q) + Len(t) + 1 :
            b[i] = IF i = 1 THEN m ELSE IF i <= Len(q) + 1 THEN q[i - 1] ELSE t[i - (Len(q) + 1)]
  <2>1. t \in Seq(S)
    BY <1>2
  <2> QED
    BY <1>4, <2>1, AheadIs
<1>7. PICK n : n = Len(q) + Len(r) + 1
  OBVIOUS
<1>8. n \in Nat /\ n + 1 \in 1 .. n + 1 /\ DOMAIN a = 1 .. n /\ DOMAIN b = 1 .. n + 1
  BY <1>2, <1>5, <1>6, <1>7
<1>9. ASSUME NEW i \in 1 .. n  PROVE b[i] = a[i]
  <2>1. i \in 1 .. Len(q) + Len(r) + 1 /\ i \in 1 .. Len(q) + Len(t) + 1
    BY <1>2, <1>7
  <2>2. i > Len(q) + 1 => i - (Len(q) + 1) \in 1 .. Len(r)
    BY <1>2, <1>7
  <2>3. i > Len(q) + 1 => t[i - (Len(q) + 1)] = r[i - (Len(q) + 1)]
    BY <1>2, <2>2
  <2>4. i > Len(q) + 1 \/ i <= Len(q) + 1
    BY <1>2
  <2> QED
    BY <1>5, <1>6, <2>1, <2>3, <2>4
<1>10. b[n + 1] = x
  <2>1. /\ n + 1 \in 1 .. Len(q) + Len(t) + 1 /\ n + 1 # 1 /\ ~ (n + 1 <= Len(q) + 1)
        /\ (n + 1) - (Len(q) + 1) = Len(r) + 1
    BY <1>2, <1>7
  <2> QED
    BY <1>2, <1>6, <2>1
<1>11. \A i \in 1 .. n : ~ (i >= n + 1)
  BY <1>8
<1>12. Inserted(a, b, n, n + 1)
  BY <1>8, <1>9, <1>11 DEF Inserted
<1> QED
  BY <1>8, <1>10, <1>12

\* Somebody else sends a message: it comes in front of those that the window
\* manager is about to send.
LEMMA AheadOvertakes ==
    ASSUME NEW S, NEW q \in Seq(S), NEW r \in Seq(S), NEW m, NEW x \in S, NEW a, NEW b,
           Joined(a, m, q, r), Joined(b, m, Append(q, x), r)
    PROVE  \E n \in Nat, k \in Nat : Inserted(a, b, n, k) /\ b[k] = x
<1>1. PICK t : t = Append(q, x)
  OBVIOUS
<1>2. /\ t \in Seq(S) /\ Len(t) = Len(q) + 1 /\ Len(r) \in Nat /\ Len(q) \in Nat
      /\ \A i \in 1 .. Len(q) : t[i] = q[i]
      /\ t[Len(q) + 1] = x
  BY <1>1
<1>3. Joined(a, m, q, r)
  OBVIOUS
<1>4. Joined(b, m, t, r)
  BY <1>1
<1>5. /\ DOMAIN a = 1 .. Len(q) + Len(r) + 1
      /\ \A i \in 1 .. Len(q) + Len(r) + 1 :
            a[i] = IF i = 1 THEN m ELSE IF i <= Len(q) + 1 THEN q[i - 1] ELSE r[i - (Len(q) + 1)]
  BY <1>3, AheadIs
<1>6. /\ DOMAIN b = 1 .. Len(t) + Len(r) + 1
      /\ \A i \in 1 .. Len(t) + Len(r) + 1 :
            b[i] = IF i = 1 THEN m ELSE IF i <= Len(t) + 1 THEN t[i - 1] ELSE r[i - (Len(t) + 1)]
  <2>1. t \in Seq(S)
    BY <1>2
  <2> QED
    BY <1>4, <2>1, AheadIs
<1>7. PICK n, k : n = Len(q) + Len(r) + 1 /\ k = Len(q) + 2
  OBVIOUS
<1>8. n \in Nat /\ k \in Nat /\ k \in 1 .. n + 1 /\ DOMAIN a = 1 .. n /\ DOMAIN b = 1 .. n + 1
  BY <1>2, <1>5, <1>6, <1>7
<1>9. ASSUME NEW i \in 1 .. n, i < k  PROVE b[i] = a[i]
  <2>1. /\ i \in 1 .. Len(q) + Len(r) + 1 /\ i \in 1 .. Len(t) + Len(r) + 1
        /\ i <= Len(q) + 1 /\ i <= Len(t) + 1
        /\ i # 1 => i - 1 \in 1 .. Len(q)
    BY <1>2, <1>7, <1>9
  <2> QED
    BY <1>2, <1>5, <1>6, <2>1
<1>10. ASSUME NEW i \in 1 .. n, i >= k  PROVE b[i + 1] = a[i]
  <2>1. /\ i \in 1 .. Len(q) + Len(r) + 1 /\ i + 1 \in 1 .. Len(t) + Len(r) + 1
        /\ i # 1 /\ i + 1 # 1 /\ ~ (i <= Len(q) + 1) /\ ~ (i + 1 <= Len(t) + 1)
        /\ (i + 1) - (Len(t) + 1) = i - (Len(q) + 1)
    BY <1>2, <1>7, <1>10
  <2> QED
    BY <1>5, <1>6, <2>1
<1>11. b[k] = x
  <2>1. /\ k \in 1 .. Len(t) + Len(r) + 1 /\ k # 1 /\ k <= Len(t) + 1
        /\ k - 1 = Len(q) + 1
    BY <1>2, <1>7
  <2> QED
    BY <1>2, <1>6, <2>1
<1>12. Inserted(a, b, n, k)
  BY <1>8, <1>9, <1>10 DEF Inserted
<1> QED
  BY <1>8, <1>11, <1>12

\* A message that the window manager sends and the queue takes keeps its place.
LEMMA AheadSent ==
    ASSUME NEW S, NEW q \in Seq(S), NEW r \in Seq(S), NEW m, r # <<>>
    PROVE  <<m>> \o Append(q, Head(r)) \o Tail(r) = <<m>> \o q \o r
<1>1. PICK t, u, x : t = Append(q, Head(r)) /\ u = Tail(r) /\ x = Head(r)
  OBVIOUS
<1>2. /\ t \in Seq(S) /\ Len(t) = Len(q) + 1 /\ Len(r) \in Nat /\ Len(q) \in Nat
      /\ \A i \in 1 .. Len(q) : t[i] = q[i]
      /\ t[Len(q) + 1] = r[1]
  BY <1>1
<1>3. u \in Seq(S) /\ Len(u) = Len(r) - 1 /\ Len(r) > 0 /\ \A i \in 1 .. Len(r) - 1 : u[i] = r[i + 1]
  BY <1>1
<1>4. PICK a : Joined(a, m, q, r)
  BY DEF Joined
<1>5. PICK b : Joined(b, m, t, u)
  BY DEF Joined
<1>6. /\ DOMAIN a = 1 .. Len(q) + Len(r) + 1
      /\ \A i \in 1 .. Len(q) + Len(r) + 1 :
            a[i] = IF i = 1 THEN m ELSE IF i <= Len(q) + 1 THEN q[i - 1] ELSE r[i - (Len(q) + 1)]
  BY <1>4, AheadIs
<1>7. /\ DOMAIN b = 1 .. Len(t) + Len(u) + 1
      /\ \A i \in 1 .. Len(t) + Len(u) + 1 :
            b[i] = IF i = 1 THEN m ELSE IF i <= Len(t) + 1 THEN t[i - 1] ELSE u[i - (Len(t) + 1)]
  <2>1. t \in Seq(S) /\ u \in Seq(S)
    BY <1>2, <1>3
  <2> QED
    BY <1>5, <2>1, AheadIs
<1>8. Len(t) + Len(u) + 1 = Len(q) + Len(r) + 1
  BY <1>2, <1>3
<1>9. ASSUME NEW i \in 1 .. Len(q) + Len(r) + 1  PROVE b[i] = a[i]
  <2>1. CASE i <= Len(q) + 1
    <3>1. i <= Len(t) + 1 /\ (i # 1 => i - 1 \in 1 .. Len(q))
      BY <1>2, <2>1
    <3> QED
      BY <1>2, <1>6, <1>7, <1>8, <2>1, <3>1
  <2>2. CASE i = Len(q) + 2
    <3>1. i <= Len(t) + 1 /\ i # 1 /\ i - 1 = Len(q) + 1 /\ i - (Len(q) + 1) = 1
          /\ ~ (i <= Len(q) + 1)
      BY <1>2, <2>2
    <3> QED
      BY <1>2, <1>6, <1>7, <1>8, <3>1
  <2>3. CASE i > Len(q) + 2
    <3>1. /\ ~ (i <= Len(t) + 1) /\ i # 1 /\ ~ (i <= Len(q) + 1)
          /\ i - (Len(t) + 1) \in 1 .. Len(r) - 1
          /\ (i - (Len(t) + 1)) + 1 = i - (Len(q) + 1)
      BY <1>2, <1>3, <2>3
    <3>2. u[i - (Len(t) + 1)] = r[(i - (Len(t) + 1)) + 1]
      BY <1>3, <3>1
    <3> QED
      BY <1>6, <1>7, <1>8, <3>1, <3>2
  <2> QED
    BY <1>2, <2>1, <2>2, <2>3
<1>10. a \in Seq(S \cup {m}) /\ b \in Seq(S \cup {m})
  <2> DEFINE T == S \cup {m}
  <2>1. <<m>> \in Seq(T) /\ q \in Seq(T) /\ r \in Seq(T) /\ t \in Seq(T) /\ u \in Seq(T)
    BY <1>2, <1>3
  <2> HIDE DEF T
  <2>2. <<m>> \o q \in Seq(T) /\ <<m>> \o t \in Seq(T)
    BY <2>1, ConcatProperties
  <2>3. a \in Seq(T) /\ b \in Seq(T)
    BY <1>4, <1>5, <2>1, <2>2, ConcatProperties DEF Joined
  <2> QED
    BY <2>3 DEF T
<1>11. Len(a) = Len(b)
  BY <1>6, <1>7, <1>8, <1>10, LenProperties
<1>12. a = b
  BY <1>6, <1>9, <1>10, <1>11, SeqEqual
<1> QED
  BY <1>1, <1>4, <1>5, <1>12 DEF Joined

\* A message that the queue refuses disappears.
LEMMA AheadRefused ==
    ASSUME NEW S, NEW q \in Seq(S), NEW r \in Seq(S), NEW m, r # <<>>, NEW a, NEW b,
           Joined(a, m, q, Tail(r)), Joined(b, m, q, r)
    PROVE  \E n \in Nat, k \in Nat : Inserted(a, b, n, k) /\ b[k] = Head(r)
<1>1. PICK u : u = Tail(r)
  OBVIOUS
<1>2. /\ u \in Seq(S) /\ Len(u) = Len(r) - 1 /\ Len(r) > 0 /\ Head(r) = r[1]
      /\ Len(q) \in Nat /\ Len(r) \in Nat
      /\ \A i \in 1 .. Len(r) - 1 : u[i] = r[i + 1]
  BY <1>1
<1>3. Joined(a, m, q, u)
  BY <1>1
<1>4. Joined(b, m, q, r)
  OBVIOUS
<1>5. /\ DOMAIN a = 1 .. Len(q) + Len(u) + 1
      /\ \A i \in 1 .. Len(q) + Len(u) + 1 :
            a[i] = IF i = 1 THEN m ELSE IF i <= Len(q) + 1 THEN q[i - 1] ELSE u[i - (Len(q) + 1)]
  <2>1. u \in Seq(S)
    BY <1>2
  <2> QED
    BY <1>3, <2>1, AheadIs
<1>6. /\ DOMAIN b = 1 .. Len(q) + Len(r) + 1
      /\ \A i \in 1 .. Len(q) + Len(r) + 1 :
            b[i] = IF i = 1 THEN m ELSE IF i <= Len(q) + 1 THEN q[i - 1] ELSE r[i - (Len(q) + 1)]
  BY <1>4, AheadIs
<1>7. PICK n, k : n = Len(q) + Len(u) + 1 /\ k = Len(q) + 2
  OBVIOUS
<1>8. n \in Nat /\ k \in Nat /\ k \in 1 .. n + 1 /\ DOMAIN a = 1 .. n /\ DOMAIN b = 1 .. n + 1
  BY <1>2, <1>5, <1>6, <1>7
<1>9. ASSUME NEW i \in 1 .. n, i < k  PROVE b[i] = a[i]
  <2>1. /\ i \in 1 .. Len(q) + Len(r) + 1 /\ i \in 1 .. Len(q) + Len(u) + 1
        /\ i <= Len(q) + 1
    BY <1>2, <1>7, <1>9
  <2> QED
    BY <1>5, <1>6, <2>1
<1>10. ASSUME NEW i \in 1 .. n, i >= k  PROVE b[i + 1] = a[i]
  <2>1. /\ i \in 1 .. Len(q) + Len(u) + 1 /\ i + 1 \in 1 .. Len(q) + Len(r) + 1
        /\ i # 1 /\ i + 1 # 1 /\ ~ (i <= Len(q) + 1) /\ ~ (i + 1 <= Len(q) + 1)
        /\ (i - (Len(q) + 1)) + 1 = (i + 1) - (Len(q) + 1)
        /\ i - (Len(q) + 1) \in 1 .. Len(r) - 1
    BY <1>2, <1>7, <1>10
  <2>2. u[i - (Len(q) + 1)] = r[(i - (Len(q) + 1)) + 1]
    BY <1>2, <2>1
  <2> QED
    BY <1>5, <1>6, <2>1, <2>2
<1>11. b[k] = Head(r)
  <2>1. /\ k \in 1 .. Len(q) + Len(r) + 1 /\ k # 1 /\ ~ (k <= Len(q) + 1)
        /\ k - (Len(q) + 1) = 1
    BY <1>2, <1>7
  <2> QED
    BY <1>2, <1>6, <2>1
<1>12. Inserted(a, b, n, k)
  BY <1>8, <1>9, <1>10 DEF Inserted
<1> QED
  BY <1>8, <1>11, <1>12

\* x is the first message of q, u the others.
Split(q, x, u) == x = Head(q) /\ u = Tail(q)

\* Receiving moves everything that is ahead of the terminal one place forward.
LEMMA AheadRecv ==
    ASSUME NEW S, NEW q \in Seq(S), NEW r \in Seq(S), NEW m, q # <<>>, NEW a, NEW b,
           NEW x, NEW u, Split(q, x, u), Joined(a, x, u, r), Joined(b, m, q, r)
    PROVE  \E n \in Nat : Inserted(a, b, n, 1) /\ b[1] = m
<1>1. u = Tail(q) /\ x = Head(q)
  BY DEF Split
<1>2. /\ u \in Seq(S) /\ Len(u) = Len(q) - 1 /\ Len(q) > 0 /\ x = q[1]
      /\ Len(q) \in Nat /\ Len(r) \in Nat
      /\ \A i \in 1 .. Len(q) - 1 : u[i] = q[i + 1]
  BY <1>1
<1>3. Joined(a, x, u, r)
  OBVIOUS
<1>4. Joined(b, m, q, r)
  OBVIOUS
<1>5. /\ DOMAIN a = 1 .. Len(u) + Len(r) + 1
      /\ \A i \in 1 .. Len(u) + Len(r) + 1 :
            a[i] = IF i = 1 THEN x ELSE IF i <= Len(u) + 1 THEN u[i - 1] ELSE r[i - (Len(u) + 1)]
  <2>1. u \in Seq(S)
    BY <1>2
  <2> QED
    BY <1>3, <2>1, AheadIs
<1>6. /\ DOMAIN b = 1 .. Len(q) + Len(r) + 1
      /\ \A i \in 1 .. Len(q) + Len(r) + 1 :
            b[i] = IF i = 1 THEN m ELSE IF i <= Len(q) + 1 THEN q[i - 1] ELSE r[i - (Len(q) + 1)]
  BY <1>4, AheadIs
<1>7. PICK n : n = Len(q) + Len(r)
  OBVIOUS
<1>8. n \in Nat /\ 1 \in 1 .. n + 1 /\ DOMAIN a = 1 .. n /\ DOMAIN b = 1 .. n + 1
  BY <1>2, <1>5, <1>6, <1>7
<1>9. ASSUME NEW i \in 1 .. n  PROVE b[i + 1] = a[i]
  <2>1. i \in 1 .. Len(u) + Len(r) + 1 /\ i + 1 \in 1 .. Len(q) + Len(r) + 1 /\ i + 1 # 1
    BY <1>2, <1>7
  <2>2. CASE i = 1
    BY <1>2, <1>5, <1>6, <2>1, <2>2
  <2>3. CASE i # 1 /\ i <= Len(q)
    <3>1. i <= Len(u) + 1 /\ i + 1 <= Len(q) + 1 /\ i - 1 \in 1 .. Len(q) - 1
          /\ (i - 1) + 1 = (i + 1) - 1
      BY <1>2, <2>3
    <3>2. u[i - 1] = q[(i - 1) + 1]
      BY <1>2, <3>1
    <3> QED
      BY <1>5, <1>6, <2>1, <2>3, <3>1, <3>2
  <2>4. CASE i > Len(q)
    <3>1. ~ (i <= Len(u) + 1) /\ ~ (i + 1 <= Len(q) + 1) /\ i # 1
          /\ (i + 1) - (Len(q) + 1) = i - (Len(u) + 1)
      BY <1>2, <2>4
    <3>2. b[i + 1] = r[(i + 1) - (Len(q) + 1)]
      BY <1>6, <2>1, <3>1
    <3>3. a[i] = r[i - (Len(u) + 1)]
      BY <1>5, <2>1, <3>1
    <3> QED
      BY <3>1, <3>2, <3>3
  <2> QED
    BY <1>2, <2>2, <2>3, <2>4
<1>10. b[1] = m
  BY <1>2, <1>6
<1>11. Inserted(a, b, n, 1)
  BY <1>8, <1>9 DEF Inserted
<1> QED
  BY <1>8, <1>10, <1>11

\* What the window manager is about to send are messages for the terminal.
LEMMA Pending ==
    ASSUME TypeOK
    PROVE  todo \in Seq(TermMessage) /\ FromWm \subseteq TermMessage
<1>1. FromWm \subseteq TermMessage
  BY DEF TermMessage
<1> QED
  BY <1>1 DEF TypeOK

\* A message that was handled leaves a place without a size.
LEMMA AheadDone ==
    ASSUME TypeOK, tq' = tq, todo' = todo, msg' = NoMsg
    PROVE  /\ DOMAIN Ahead' = DOMAIN Ahead
           /\ 1 \in DOMAIN Ahead /\ Ahead[1] = msg /\ ~ Sized(Ahead'[1])
           /\ \A i \in DOMAIN Ahead \ {1} : i \in Nat /\ Ahead'[i] = Ahead[i]
           /\ \A i \in DOMAIN Ahead : i \in Nat /\ i >= 1
<1>1. /\ tq \in Seq(TermMessage) /\ Len(tq) \in Nat
      /\ todo \in Seq(TermMessage) /\ Len(todo) \in Nat
  BY Pending DEF TypeOK
<1>2. PICK a, b : a = Ahead /\ b = Ahead'
  OBVIOUS
<1>3. /\ DOMAIN a = 1 .. Len(tq) + Len(todo) + 1
      /\ \A i \in 1 .. Len(tq) + Len(todo) + 1 :
            a[i] = IF i = 1 THEN msg ELSE IF i <= Len(tq) + 1 THEN tq[i - 1]
                   ELSE todo[i - (Len(tq) + 1)]
  <2>1. Joined(a, msg, tq, todo)
    BY <1>2 DEF Ahead, Joined
  <2> QED
    BY <1>1, <2>1, AheadIs
<1>4. /\ DOMAIN b = 1 .. Len(tq) + Len(todo) + 1
      /\ \A i \in 1 .. Len(tq) + Len(todo) + 1 :
            b[i] = IF i = 1 THEN NoMsg ELSE IF i <= Len(tq) + 1 THEN tq[i - 1]
                   ELSE todo[i - (Len(tq) + 1)]
  <2>1. Joined(b, NoMsg, tq, todo)
    BY <1>2 DEF Ahead, Joined
  <2> QED
    BY <1>1, <2>1, AheadIs
<1>5. 1 \in 1 .. Len(tq) + Len(todo) + 1 /\ \A i \in 1 .. Len(tq) + Len(todo) + 1 : i \in Nat /\ i >= 1
  BY <1>1
<1>6. ~ Sized(NoMsg)
  BY DEF Sized, NoMsg
<1> QED
  BY <1>2, <1>3, <1>4, <1>5, <1>6

\* The message being handled is the first.
LEMMA AheadFirst ==
    ASSUME TypeOK
    PROVE  1 \in DOMAIN Ahead /\ Ahead[1] = msg
<1>1. /\ tq \in Seq(TermMessage) /\ Len(tq) \in Nat
      /\ todo \in Seq(TermMessage) /\ Len(todo) \in Nat
  BY Pending DEF TypeOK
<1>0. PICK a : a = Ahead
  OBVIOUS
<1>2. /\ DOMAIN a = 1 .. Len(tq) + Len(todo) + 1
      /\ \A i \in 1 .. Len(tq) + Len(todo) + 1 :
            a[i] = IF i = 1 THEN msg ELSE IF i <= Len(tq) + 1 THEN tq[i - 1]
                   ELSE todo[i - (Len(tq) + 1)]
  <2>1. Joined(a, msg, tq, todo)
    BY <1>0 DEF Ahead, Joined
  <2> QED
    BY <1>1, <2>1, AheadIs
<1>3. 1 \in 1 .. Len(tq) + Len(todo) + 1
  BY <1>1
<1> QED
  BY <1>0, <1>2, <1>3

\* The kinds of messages.
LEMMA TermMessageKinds ==
    ASSUME NEW m \in TermMessage \cup {NoMsg}
    PROVE  /\ m.type \in {"key", "quit", "stdout", "clear", "created", "resize", "none"}
           /\ Sized(m) => m.size \in Size
           /\ m = NoMsg <=> m.type = "none"
  BY DEF TermMessage, FromWm, NoMsg, Key, Quit, Stdout, Clear, Created, Resize, Sized

\* The messages that reach the window manager.
LEMMA WmMessageKinds ==
    ASSUME NEW m \in WmMessage
    PROVE  /\ m.type \in {"request", "other", "update"}
           /\ m.type = "update" => m.area \subseteq Cell
  BY DEF WmMessage, Request, Other, Update

-----------------------------------------------------------------------------
(***************************************************************************)
(* The queues.                                                             *)
(***************************************************************************)

\* A message is added to a queue.
LEMMA Appended ==
    ASSUME NEW S, NEW q \in Seq(S), NEW m \in S
    PROVE  /\ Append(q, m) \in Seq(S) /\ Len(Append(q, m)) = Len(q) + 1
           /\ DOMAIN q \subseteq DOMAIN Append(q, m)
           /\ \A i \in DOMAIN q : Append(q, m)[i] = q[i]
           /\ \A i \in DOMAIN Append(q, m) :
                 i \in DOMAIN q \/ (i = Len(q) + 1 /\ Append(q, m)[i] = m)
           /\ Len(q) + 1 \in DOMAIN Append(q, m) /\ Append(q, m)[Len(q) + 1] = m
           /\ Len(q) + 1 \notin DOMAIN q
  OBVIOUS

\* The oldest message is taken from a queue.
LEMMA Taken ==
    ASSUME NEW S, NEW q \in Seq(S), q # <<>>
    PROVE  /\ Tail(q) \in Seq(S) /\ Len(Tail(q)) = Len(q) - 1 /\ Len(Tail(q)) \in Nat
           /\ 1 \in DOMAIN q /\ Head(q) = q[1] /\ Head(q) \in S
           /\ \A i \in DOMAIN Tail(q) :
                 i + 1 \in DOMAIN q /\ i + 1 # 1 /\ Tail(q)[i] = q[i + 1]
           /\ \A i \in DOMAIN q \ {1} :
                 i - 1 \in DOMAIN Tail(q) /\ Tail(q)[i - 1] = q[i]
<1>1. Len(q) \in Nat /\ Len(q) > 0 /\ DOMAIN q = 1 .. Len(q)
  OBVIOUS
<1>2. /\ Tail(q) \in Seq(S) /\ Len(Tail(q)) = Len(q) - 1 /\ Head(q) = q[1]
      /\ \A i \in 1 .. Len(q) - 1 : Tail(q)[i] = q[i + 1]
  BY <1>1
<1>3. DOMAIN Tail(q) = 1 .. Len(q) - 1
  BY <1>2
<1>4. ASSUME NEW i \in DOMAIN q \ {1}
      PROVE  i - 1 \in DOMAIN Tail(q) /\ Tail(q)[i - 1] = q[i]
  <2>1. i - 1 \in 1 .. Len(q) - 1 /\ (i - 1) + 1 = i
    BY <1>1
  <2> QED
    BY <1>2, <1>3, <2>1
<1> QED
  BY <1>1, <1>2, <1>3, <1>4

\* A send keeps the bound of the queue, and either adds its message or records
\* that it was refused.
LEMMA SentIs ==
    ASSUME NEW S, NEW q \in Seq(S), Len(q) <= MSG_QUEUE_SIZE, NEW m \in S
    PROVE  /\ Sent(q, m) \in Seq(S) /\ Len(Sent(q, m)) <= MSG_QUEUE_SIZE
           /\ \/ Sent(q, m) = Append(q, m) /\ Refused(q, m) = {}
              \/ Sent(q, m) = q /\ Refused(q, m) = {m.type}
           /\ Refused(q, m) \subseteq {m.type}
<1>1. MSG_QUEUE_SIZE \in Nat /\ Len(q) \in Nat
  BY DisplayConstants
<1> QED
  BY <1>1, Appended DEF Sent, Refused, Room

\* The messages of the program.
LEMMA Messages ==
    /\ Request \in WmMessage /\ Other \in WmMessage
    /\ \A S \in SUBSET Cell : Update(S) \in WmMessage
    /\ Key \in TermMessage /\ Quit \in TermMessage
    /\ Key \in FromWm /\ Quit \in FromWm
    /\ Stdout \in TermMessage /\ Clear \in TermMessage
    /\ \A s \in Size : Created(s) \in TermMessage /\ Resize(s) \in TermMessage
    /\ \A s \in Size : Created(s) \in FromWm /\ Resize(s) \in FromWm
  BY DEF WmMessage, TermMessage, FromWm

\* What they carry.
LEMMA Fields ==
    /\ Request.type = "request" /\ Other.type = "other"
    /\ Key.type = "key" /\ Quit.type = "quit"
    /\ Stdout.type = "stdout" /\ Clear.type = "clear"
    /\ \A S : Update(S).type = "update" /\ Update(S).area = S
    /\ \A s : Created(s).type = "created" /\ Created(s).size = s
    /\ \A s : Resize(s).type = "resize" /\ Resize(s).size = s
  BY DEF Request, Other, Key, Quit, Stdout, Clear, Update, Created, Resize

\* The bounding box holds both rectangles.
LEMMA BoxHolds ==
    ASSUME NEW S \in SUBSET Cell, NEW T \in SUBSET Cell
    PROVE  S \cup T \subseteq Box(S, T) /\ Box(S, T) \subseteq Cell
<1>1. ASSUME NEW c \in S \cup T  PROVE c \in Cell /\ c <= c
  BY DisplayConstants DEF Cell
<1> QED
  BY <1>1 DEF Box

-----------------------------------------------------------------------------
(***************************************************************************)
(* Types.                                                                  *)
(***************************************************************************)

\* A send to the terminal.
LEMMA ToTermIs ==
    ASSUME TypeOK, NEW m \in TermMessage
    PROVE  /\ ToTerm(m) \in Seq(TermMessage) /\ Len(ToTerm(m)) <= MSG_QUEUE_SIZE
           /\ \/ ToTerm(m) = Append(tq, m) /\ Refused(tq, m) = {}
              \/ ToTerm(m) = tq /\ (tpc = "dead" \/ Refused(tq, m) = {m.type})
           /\ Refused(tq, m) \subseteq {m.type}
<1>1. tq \in Seq(TermMessage) /\ Len(tq) <= MSG_QUEUE_SIZE
  BY DEF TypeOK
<1>2. Sent(tq, m) \in Seq(TermMessage) /\ Len(Sent(tq, m)) <= MSG_QUEUE_SIZE
      /\ \/ Sent(tq, m) = Append(tq, m) /\ Refused(tq, m) = {}
         \/ Sent(tq, m) = tq /\ Refused(tq, m) = {m.type}
  BY <1>1, SentIs
<1>3. Refused(tq, m) \in {{}, {m.type}}
  BY DEF Refused
<1> QED
  BY <1>1, <1>2, <1>3 DEF ToTerm

\* Every step keeps the types.
LEMMA TypeStep ==
    ASSUME TypeOK, Next
    PROVE  TypeOK'
<1> USE DEF TypeOK, wmVars, termVars
<1>t. /\ wq \in Seq(WmMessage) /\ Len(wq) <= MSG_QUEUE_SIZE
      /\ tq \in Seq(TermMessage) /\ Len(tq) <= MSG_QUEUE_SIZE
      /\ todo \in Seq(FromWm) /\ Len(todo) <= 2
      /\ MSG_QUEUE_SIZE \in Nat /\ MaxInput \in Nat /\ MaxOutput \in Nat
  BY DisplayConstants
<1>d. wq # <<>> => Tail(wq) \in Seq(WmMessage) /\ Len(Tail(wq)) <= MSG_QUEUE_SIZE
                   /\ Head(wq) \in WmMessage
  BY <1>t, Taken
<1>i. input < MaxInput => input + 1 \in 0 .. MaxInput
  BY <1>t
<1>o. output < MaxOutput => output + 1 \in 0 .. MaxOutput
  BY <1>t
<1>0. CASE WmSend
  <2>1. PICK m : m = Head(todo)
    OBVIOUS
  <2>2. m \in FromWm /\ Tail(todo) \in Seq(FromWm) /\ Len(Tail(todo)) <= 2
    BY <1>t, <1>0, <2>1, Taken DEF WmSend
  <2>3. /\ ToTerm(m) \in Seq(TermMessage) /\ Len(ToTerm(m)) <= MSG_QUEUE_SIZE
        /\ Refused(tq, m) \subseteq {m.type}
    BY <2>2, Pending, ToTermIs
  <2>4. m.type \in {"key", "quit", "created", "resize"}
    BY <2>2 DEF FromWm, Key, Quit, Created, Resize
  <2>5. Refused(tq, m) \subseteq {"key", "quit", "created", "resize"}
    BY <2>3, <2>4
  <2>6. /\ todo' = Tail(todo) /\ tq' = ToTerm(m) /\ lost' = lost \cup Refused(tq, m)
        /\ UNCHANGED <<wq, phase, redraw, win, size, dirty, termVars, fresh, input, output>>
    BY <1>0, <2>1 DEF WmSend
  <2> HIDE DEF TypeOK
  <2>7. /\ wq' \in Seq(WmMessage) /\ Len(wq') <= MSG_QUEUE_SIZE
        /\ tq' \in Seq(TermMessage) /\ Len(tq') <= MSG_QUEUE_SIZE
        /\ todo' \in Seq(FromWm) /\ Len(todo') <= 2
    BY <1>t, <2>2, <2>3, <2>6
  <2>8. lost' \subseteq {"request", "created", "resize", "update", "key", "quit"}
    BY <2>5, <2>6 DEF TypeOK
  <2> QED
    BY <2>6, <2>7, <2>8 DEF TypeOK
<1>1. CASE WmNewClient
  <2>1. CASE UNCHANGED <<todo, size, win>>
    BY <1>t, <1>d, <1>1, <2>1 DEF WmNewClient
  <2>2. ASSUME NEW s \in Size, size' = s, todo' \in Opening(s), win' = "alive"
        PROVE  TypeOK'
    <3>1. Resize(s) \in FromWm /\ Created(s) \in FromWm
      BY Messages
    <3>2. todo' \in Seq(FromWm) /\ Len(todo') <= 2
      <4>1. <<Created(s)>> \in Seq(FromWm) /\ Len(<<Created(s)>>) <= 2
        BY <3>1
      <4>2. <<Resize(s), Created(s)>> \in Seq(FromWm) /\ Len(<<Resize(s), Created(s)>>) <= 2
        BY <3>1
      <4> QED
        BY <2>2, <4>1, <4>2, Zenon DEF Opening
    <3> QED
      BY <1>t, <1>d, <1>1, <2>2, <3>2 DEF WmNewClient
  <2> QED
    BY <1>1, <2>1, <2>2 DEF WmNewClient
<1>2. CASE WmBufferUpdate
  <2>1. Head(wq).area \subseteq Cell /\ dirty \subseteq Cell
    BY <1>d, <1>2, WmMessageKinds DEF WmBufferUpdate
  <2>2. Box(dirty, Head(wq).area) \subseteq Cell
    BY <2>1, BoxHolds
  <2> QED
    BY <1>t, <1>d, <1>2, <2>2 DEF WmBufferUpdate
<1>r. ASSUME NEW s \in Size
      PROVE  Laid(s) \in Seq(FromWm) /\ Len(Laid(s)) <= 2
  BY Messages DEF Laid
<1>3. CASE WmOtherClient
  BY <1>t, <1>d, <1>i, <1>r, <1>3, ZenonT(60) DEF WmOtherClient
<1>4. CASE WmMessagesDone
  BY <1>4 DEF WmMessagesDone
<1>5. CASE WmNoKey
  BY <1>5 DEF WmNoKey
<1>6. CASE WmKey
  <2>1. <<Key>> \in Seq(FromWm) /\ Len(<<Key>>) <= 2
    BY Messages
  <2> QED
    BY <1>t, <1>i, <1>6, <2>1 DEF WmKey, KeyReady
<1>7. CASE WmFocusNext
  BY <1>t, <1>i, <1>7 DEF WmFocusNext, KeyReady
<1>8. CASE WmKillOther
  BY <1>t, <1>i, <1>r, <1>8 DEF WmKillOther, KeyReady
<1>9. CASE WmKill
  <2>1. <<Quit>> \in Seq(FromWm) /\ Len(<<Quit>>) <= 2
    BY Messages
  <2> QED
    BY <1>t, <1>i, <1>9, <2>1 DEF WmKill, KeyReady
<1>10. CASE WmDraw
  BY <1>10, ZenonT(60) DEF WmDraw, Copied
<1>11. CASE WmRender
  BY <1>11 DEF WmRender, Copied
<1>12. CASE TermStart
  <2>0. Request \in WmMessage /\ Request.type = "request"
    BY Messages, Fields
  <2>1. Sent(wq, Request) \in Seq(WmMessage) /\ Len(Sent(wq, Request)) <= MSG_QUEUE_SIZE
        /\ Refused(wq, Request) \subseteq {"request"}
    BY <1>t, <2>0, SentIs
  <2> QED
    BY <1>12, <2>1 DEF TermStart
<1>13. CASE TermFails
  BY <1>13 DEF TermFails
<1>14. CASE TermRecv
  <2>1. Tail(tq) \in Seq(TermMessage) /\ Len(Tail(tq)) <= MSG_QUEUE_SIZE
        /\ Head(tq) \in TermMessage
    BY <1>t, <1>14, Taken DEF TermRecv
  <2> QED
    BY <1>14, <2>1 DEF TermRecv
<1>15. CASE TermQuit
  BY <1>15 DEF TermQuit
<1>m. Sized(msg) => msg.size \in Size
  BY TermMessageKinds
<1>16. CASE TermCreated
  BY <1>16, <1>m DEF TermCreated, Sized
<1>17. CASE TermResize
  BY <1>17, <1>m DEF TermResize, Sized
<1>18. CASE TermNotice
  <2>0. Update(Cell) \in WmMessage /\ Update(Cell).type = "update"
    BY Messages, Fields
  <2>1. Sent(wq, Update(Cell)) \in Seq(WmMessage) /\ Len(Sent(wq, Update(Cell))) <= MSG_QUEUE_SIZE
        /\ Refused(wq, Update(Cell)) \subseteq {"update"}
    BY <1>t, <2>0, SentIs
  <2> QED
    BY <1>18, <2>1 DEF TermNotice
<1>19. CASE TermWrite
  <2>1. ASSUME NEW S \in SUBSET Cell  PROVE Box(last_update, S) \subseteq Cell
    BY BoxHolds
  <2> QED
    BY <1>19, <2>1 DEF TermWrite
<1>20. CASE TermUpdate
  <2>0. Update(last_update) \in WmMessage /\ Update(last_update).type = "update"
    BY Messages, Fields
  <2>1. Sent(wq, Update(last_update)) \in Seq(WmMessage)
        /\ Len(Sent(wq, Update(last_update))) <= MSG_QUEUE_SIZE
        /\ Refused(wq, Update(last_update)) \subseteq {"update"}
    BY <1>t, <2>0, SentIs
  <2> QED
    BY <1>20, <2>1 DEF TermUpdate
<1>21. CASE TermClear
  BY <1>21 DEF TermClear
<1>22. CASE TermPass
  BY <1>22 DEF TermPass
<1>23. CASE ShellPrints
  <2>1. ASSUME NEW m \in {Stdout, Clear}
        PROVE  Append(tq, m) \in Seq(TermMessage) /\ Len(Append(tq, m)) = Len(tq) + 1
    BY <1>t, Messages, Appended
  <2> QED
    BY <1>t, <1>o, <1>23, <2>1 DEF ShellPrints, Room
<1>24. CASE OtherSends
  <2>1. Append(wq, Other) \in Seq(WmMessage) /\ Len(Append(wq, Other)) = Len(wq) + 1
    BY <1>t, Messages, Appended
  <2> QED
    BY <1>t, <1>o, <1>24, <2>1 DEF OtherSends, Room
<1> QED
  BY <1>0, <1>1, <1>2, <1>3, <1>4, <1>5, <1>6, <1>7, <1>8, <1>9, <1>10, <1>11, <1>12, <1>13,
     <1>14, <1>15, <1>16, <1>17, <1>18, <1>19, <1>20, <1>21, <1>22, <1>23, <1>24
     DEF Next, Wm, Term

-----------------------------------------------------------------------------
(***************************************************************************)
(* The request and its answer.                                             *)
(***************************************************************************)

\* A step that sends no request and creates no window.
LEMMA AskedKept ==
    ASSUME TypeOK, Asked,
           tpc' = "start" => tpc = "start",
           win' = "none" <=> win = "none",
           tpc' # "handle" => msg' = NoMsg,
           \/ wq' = wq
           \/ \E m \in WmMessage : m.type # "request" /\ wq' = Append(wq, m)
           \/ wq # <<>> /\ wq' = Tail(wq)
    PROVE  Asked'
<1>t. wq \in Seq(WmMessage)
  BY DEF TypeOK
<1>1. CASE wq' = wq
  BY <1>1 DEF Asked
<1>2. ASSUME NEW m \in WmMessage, m.type # "request", wq' = Append(wq, m)
      PROVE  Asked'
  <2>1. \A i \in DOMAIN wq' : \/ i \in DOMAIN wq /\ wq'[i] = wq[i]
                              \/ wq'[i].type # "request"
    BY <1>t, <1>2, Appended
  <2> QED
    BY <2>1 DEF Asked
<1>3. CASE wq # <<>> /\ wq' = Tail(wq)
  <2>1. \A i \in DOMAIN wq' : i + 1 \in DOMAIN wq /\ wq'[i] = wq[i + 1] /\ i \in Int
    <3>1. DOMAIN wq' \subseteq Int
      BY <1>t, <1>3, Taken
    <3> QED
      BY <1>t, <1>3, <3>1, Taken
  <2>2. \A i, j \in DOMAIN wq' : wq'[i].type = "request" /\ wq'[j].type = "request" => i = j
    <3> SUFFICES ASSUME NEW i \in DOMAIN wq', NEW j \in DOMAIN wq',
                        wq'[i].type = "request", wq'[j].type = "request"
                 PROVE  i = j
      OBVIOUS
    <3>1. i + 1 = j + 1
      BY <2>1 DEF Asked
    <3> QED
      BY <2>1, <3>1
  <2> QED
    BY <2>1, <2>2 DEF Asked
<1> QED
  BY <1>1, <1>2, <1>3

\* The terminal asks for its window once, whatever the window manager does.
LEMMA AskedStep ==
    ASSUME TypeOK, Asked, Next
    PROVE  Asked'
<1>t. wq \in Seq(WmMessage) /\ Len(wq) <= MSG_QUEUE_SIZE /\ last_update \in SUBSET Cell
  BY DEF TypeOK
<1> USE DEF wmVars, termVars
<1>m. tpc # "handle" => msg = NoMsg
  BY DEF Asked
<1>0. CASE WmSend
  BY <1>0, <1>m, AskedKept DEF WmSend
<1>1. CASE WmNewClient
  <2>1. Head(wq) = wq[1] /\ 1 \in DOMAIN wq
        /\ \A i \in DOMAIN wq' : i + 1 \in DOMAIN wq /\ i + 1 # 1 /\ wq'[i] = wq[i + 1]
    BY <1>t, <1>1, Taken DEF WmNewClient
  <2>2. wq[1].type = "request" /\ tpc' = tpc /\ msg' = msg
    BY <1>1, <2>1 DEF WmNewClient
  <2>3. tpc # "start"
    BY <2>1, <2>2 DEF Asked
  <2> QED
    BY <2>1, <2>2, <2>3 DEF Asked
<1>2. CASE WmBufferUpdate
  BY <1>2, <1>m, AskedKept DEF WmBufferUpdate
<1>3. CASE WmOtherClient
  BY <1>3, <1>m, AskedKept DEF WmOtherClient
<1>4. CASE WmMessagesDone
  BY <1>4, <1>m, AskedKept DEF WmMessagesDone
<1>5. CASE WmNoKey
  BY <1>5, <1>m, AskedKept DEF WmNoKey
<1>6. CASE WmKey
  BY <1>6, <1>m, AskedKept DEF WmKey
<1>7. CASE WmFocusNext
  BY <1>7, <1>m, AskedKept DEF WmFocusNext
<1>8. CASE WmKillOther
  BY <1>8, <1>m, AskedKept DEF WmKillOther
<1>9. CASE WmKill
  BY <1>9, <1>m, AskedKept DEF WmKill
<1>10. CASE WmDraw
  BY <1>10, <1>m, AskedKept DEF WmDraw
<1>11. CASE WmRender
  BY <1>11, <1>m, AskedKept DEF WmRender
<1>12. CASE TermStart
  <2>1. win = "none" /\ \A i \in DOMAIN wq : wq[i].type # "request"
    BY <1>12 DEF TermStart, Asked
  <2>2. \A i, j \in DOMAIN wq' : wq'[i].type = "request" /\ wq'[j].type = "request" => i = j
    <3>1. Request \in WmMessage
      BY Messages
    <3>2. CASE wq' = wq
      BY <2>1, <3>2
    <3>3. CASE wq' = Append(wq, Request)
      <4>1. \A i \in DOMAIN wq' : wq'[i].type = "request" => i = Len(wq) + 1
        BY <1>t, <2>1, <3>1, <3>3, Appended
      <4> QED
        BY <4>1
    <3> QED
      BY <1>t, <1>12, <3>1, <3>2, <3>3, SentIs DEF TermStart
  <2> QED
    BY <1>m, <1>12, <2>1, <2>2 DEF TermStart, Asked
<1>13. CASE TermFails
  BY <1>13, AskedKept DEF TermFails
<1>14. CASE TermRecv
  BY <1>14, AskedKept DEF TermRecv
<1>15. CASE TermQuit
  BY <1>15, AskedKept DEF TermQuit
<1>16. CASE TermCreated
  BY <1>16, AskedKept DEF TermCreated
<1>17. CASE TermResize
  BY <1>17, AskedKept DEF TermResize
<1>u. ASSUME NEW S \in SUBSET Cell
      PROVE  /\ Update(S) \in WmMessage /\ Update(S).type # "request"
             /\ Sent(wq, Update(S)) = wq \/ Sent(wq, Update(S)) = Append(wq, Update(S))
  <2>1. Update(S) \in WmMessage /\ Update(S).type # "request"
    BY Messages, Fields
  <2> QED
    BY <1>t, <2>1, SentIs
<1>18. CASE TermNotice
  <2>1. wq' = wq \/ \E m \in WmMessage : m.type # "request" /\ wq' = Append(wq, m)
    BY <1>18, <1>u DEF TermNotice
  <2> QED
    BY <1>18, <1>m, <2>1, AskedKept DEF TermNotice
<1>19. CASE TermWrite
  BY <1>19, AskedKept DEF TermWrite
<1>20. CASE TermUpdate
  <2>1. wq' = wq \/ \E m \in WmMessage : m.type # "request" /\ wq' = Append(wq, m)
    BY <1>t, <1>20, <1>u DEF TermUpdate
  <2> QED
    BY <1>20, <1>m, <2>1, AskedKept DEF TermUpdate
<1>21. CASE TermClear
  BY <1>21, AskedKept DEF TermClear
<1>22. CASE TermPass
  BY <1>22, AskedKept DEF TermPass
<1>23. CASE ShellPrints
  BY <1>23, <1>m, AskedKept DEF ShellPrints
<1>24. CASE OtherSends
  <2>1. Other \in WmMessage /\ Other.type # "request"
    BY Messages, Fields
  <2> QED
    BY <1>24, <1>m, <2>1, AskedKept DEF OtherSends
<1> QED
  BY <1>0, <1>1, <1>2, <1>3, <1>4, <1>5, <1>6, <1>7, <1>8, <1>9, <1>10, <1>11, <1>12, <1>13,
     <1>14, <1>15, <1>16, <1>17, <1>18, <1>19, <1>20, <1>21, <1>22, <1>23, <1>24, Next
     DEF Next, Wm, Term

-----------------------------------------------------------------------------
(***************************************************************************)
(* The sizes ahead of the terminal, for each thing that happens to it.     *)
(***************************************************************************)

\* The window manager reads the keyboard when nothing is left to send or to draw.
LEMMA QuietStep ==
    ASSUME Quiet, Next
    PROVE  Quiet'
<1> USE DEF wmVars, termVars, Quiet, Idle
<1>1. CASE Wm
  <2>1. CASE WmSend
    BY <2>1 DEF WmSend
  <2>2. CASE WmNewClient \/ WmBufferUpdate \/ WmOtherClient \/ WmMessagesDone
    BY <2>2 DEF WmNewClient, WmBufferUpdate, WmOtherClient, WmMessagesDone
  <2>3. CASE WmNoKey \/ WmKey \/ WmFocusNext \/ WmKillOther \/ WmKill
    BY <2>3 DEF WmNoKey, WmKey, WmFocusNext, WmKillOther, WmKill
  <2>4. CASE WmDraw \/ WmRender
    BY <2>4 DEF WmDraw, WmRender
  <2> QED
    BY <1>1, <2>1, <2>2, <2>3, <2>4 DEF Wm
<1>2. CASE Term
  BY <1>2 DEF Term, TermStart, TermFails, TermRecv, TermQuit, TermCreated, TermResize,
              TermNotice, TermWrite, TermUpdate, TermClear, TermPass
<1>3. CASE ShellPrints \/ OtherSends
  BY <1>3 DEF ShellPrints, OtherSends
<1> QED
  BY <1>1, <1>2, <1>3 DEF Next

\* The sizes on their way stay what they are.
LEMMA AheadKeeps ==
    ASSUME Answered, SizeInv, Same(Ahead, Ahead'), initialized' = initialized,
           win' = "none" <=> win = "none",
           Following' => Following /\ size' = size /\ tsize' = tsize
    PROVE  Answered' /\ SizeInv'
<1>1. Answered'
  BY DEF Answered, Same
<1>2. LastIs(Ahead, size) <=> LastIs(Ahead', size)
  BY DEF Same
<1>3. SizeInv'
  BY <1>2 DEF SizeInv, Same
<1> QED
  BY <1>1, <1>3

\* A sequence agrees with itself.
LEMMA SameSelf == Ahead' = Ahead => Same(Ahead, Ahead')
  BY DEF Same

\* The window manager, with nothing to send, decides to send one message.
LEMMA AheadGains ==
    ASSUME TypeOK, NEW m \in TermMessage, todo = <<>>, todo' = <<m>>, UNCHANGED <<tq, msg>>
    PROVE  \E n \in Nat : Inserted(Ahead, Ahead', n, n + 1) /\ Ahead'[n + 1] = m
<1>1. tq \in Seq(TermMessage) /\ todo \in Seq(TermMessage)
  BY Pending DEF TypeOK
<1>2. todo' = Append(todo, m)
  OBVIOUS
<1>3. Ahead = <<msg>> \o tq \o todo /\ Ahead' = <<msg>> \o tq \o Append(todo, m)
  BY <1>2 DEF Ahead
<1>4. PICK a, b : a = Ahead /\ b = Ahead'
  OBVIOUS
<1>0. PICK r : r = todo
  OBVIOUS
<1>5. Joined(a, msg, tq, r) /\ Joined(b, msg, tq, Append(r, m)) /\ r \in Seq(TermMessage)
  BY <1>0, <1>1, <1>3, <1>4 DEF Joined
<1>6. \E n \in Nat : Inserted(a, b, n, n + 1) /\ b[n + 1] = m
  <2>1. tq \in Seq(TermMessage)
    BY <1>1
  <2> QED
    BY <1>5, <2>1, AheadDecides
<1> QED
  BY <1>4, <1>6

\* The message taken up is done with: it was no size, or the terminal follows it,
\* or it is a size that came before the answer, or the terminal exits.
LEMMA AheadDrops ==
    ASSUME TypeOK, Answered, SizeInv, tq' = tq, todo' = todo, msg' = NoMsg,
           win' = win, size' = size, lost' = lost, tpc # "dead",
           \/ ~ Sized(msg) /\ initialized' = initialized /\ tsize' = tsize
           \/ msg.type = "created" /\ ~ initialized /\ initialized' /\ tsize' = msg.size
           \/ msg.type = "resize" /\ initialized /\ initialized' /\ tsize' = msg.size
           \/ msg.type = "resize" /\ ~ initialized /\ initialized' = initialized /\ tsize' = tsize
           \/ tpc' = "dead" /\ initialized' = initialized
    PROVE  Answered' /\ SizeInv'
<1>1. /\ DOMAIN Ahead' = DOMAIN Ahead
      /\ 1 \in DOMAIN Ahead /\ Ahead[1] = msg /\ ~ Sized(Ahead'[1])
      /\ \A i \in DOMAIN Ahead \ {1} : i \in Nat /\ Ahead'[i] = Ahead[i]
      /\ \A i \in DOMAIN Ahead : i \in Nat /\ i >= 1
  BY AheadDone
<1>2. \A i \in DOMAIN Ahead' : Sized(Ahead'[i]) => i # 1 /\ Ahead'[i] = Ahead[i]
  BY <1>1
<1>3. \A i \in DOMAIN Ahead : i >= 1
  BY <1>1
<1>4. initialized' => \/ initialized
                      \/ msg.type = "created" /\ win # "none"
  BY <1>1 DEF Answered, HasSize, Sized, TypeOK
<1>5. Answered'
  <2>1. \A i \in DOMAIN Ahead' : Ahead'[i].type = "created" => i # 1 /\ Ahead[i].type = "created"
    BY <1>2 DEF Sized
  <2>2. initialized' => ~ HasCreated(Ahead')
    BY <1>1, <1>4, <2>1 DEF Answered, HasCreated, OneCreated
  <2>3. win' = "none" => ~ initialized' /\ ~ HasSize(Ahead')
    BY <1>1, <1>2, <1>4 DEF Answered, HasSize
  <2>4. OneCreated(Ahead')
    BY <1>1, <2>1 DEF Answered, OneCreated
  <2> QED
    BY <2>2, <2>3, <2>4 DEF Answered
<1>6. ASSUME Following'
      PROVE  /\ initialized' \/ HasCreated(Ahead')
             /\ \/ LastIs(Ahead', size')
                \/ tsize' = size' /\ initialized' /\ ~ HasSize(Ahead')
  <2>1. Following /\ tpc' # "dead"
    BY <1>6 DEF Following
  <2>2. initialized' \/ HasCreated(Ahead')
    <3> SUFFICES ASSUME ~ initialized'  PROVE HasCreated(Ahead')
      OBVIOUS
    <3>1. ~ initialized /\ msg.type # "created"
      BY <2>1 DEF Sized
    <3> QED
      BY <1>1, <2>1, <3>1 DEF SizeInv, HasCreated
  <2>3. CASE LastIs(Ahead, size)
    <3>1. PICK i \in DOMAIN Ahead : /\ Sized(Ahead[i]) /\ Ahead[i].size = size
                                   /\ \A j \in DOMAIN Ahead : Sized(Ahead[j]) => j <= i
      BY <2>3 DEF LastIs
    <3>2. CASE i # 1
      <4>1. \A j \in DOMAIN Ahead' : Sized(Ahead'[j]) => j <= i
        BY <1>1, <1>2, <3>1
      <4>2. Ahead'[i] = Ahead[i] /\ i \in DOMAIN Ahead'
        BY <1>1, <3>2
      <4>3. LastIs(Ahead', size')
        BY <3>1, <4>1, <4>2 DEF LastIs
      <4> QED
        BY <2>2, <4>3
    <3>3. CASE i = 1
      <4>1. ~ HasSize(Ahead')
        BY <1>1, <1>2, <1>3, <3>1, <3>3 DEF HasSize
      <4>2. Sized(msg) /\ msg.size = size
        BY <1>1, <3>1, <3>3
      <4>3. ~ (msg.type = "resize" /\ ~ initialized)
        <5> SUFFICES ASSUME msg.type = "resize", ~ initialized  PROVE FALSE
          OBVIOUS
        <5>1. PICK k \in DOMAIN Ahead : Ahead[k].type = "created"
          BY <2>1 DEF SizeInv, HasCreated
        <5>2. k # 1 /\ k <= i
          BY <1>1, <3>1, <5>1 DEF Sized
        <5> QED
          BY <1>1, <1>3, <3>3, <5>2
      <4>4. initialized' /\ tsize' = size'
        BY <2>1, <4>2, <4>3 DEF Sized
      <4> QED
        BY <2>2, <4>1, <4>4
    <3> QED
      BY <3>2, <3>3
  <2>4. CASE ~ LastIs(Ahead, size)
    <3>1. tsize = size /\ initialized /\ ~ HasSize(Ahead)
      BY <2>1, <2>4 DEF SizeInv
    <3>2. ~ Sized(msg)
      BY <1>1, <3>1 DEF HasSize
    <3>3. ~ HasSize(Ahead')
      BY <1>1, <1>2, <3>1 DEF HasSize
    <3>4. initialized' = initialized /\ tsize' = tsize
      BY <2>1, <3>2 DEF Sized
    <3> QED
      BY <3>1, <3>3, <3>4
  <2> QED
    BY <2>3, <2>4
<1> QED
  BY <1>5, <1>6 DEF SizeInv

\* The window is created: the window manager is about to send the answer, and a
\* size before it when the slot of the window had another one.
LEMMA AheadAnswered ==
    ASSUME TypeOK, Answered, win = "none", win' = "alive", todo = <<>>,
           NEW s \in Size, size' = s, todo' \in Opening(s),
           UNCHANGED <<tq, msg, initialized, tsize>>
    PROVE  Answered' /\ SizeInv'
<1>1. ~ initialized /\ ~ HasSize(Ahead)
  BY DEF Answered
<1>2. ~ HasCreated(Ahead)
  BY <1>1 DEF HasSize, HasCreated, Sized
<1>f. /\ Sized(Created(s)) /\ Created(s).size = s /\ Created(s).type = "created"
      /\ Sized(Resize(s)) /\ Resize(s).type = "resize"
  BY Fields DEF Sized
<1>t. /\ tq \in Seq(TermMessage) /\ todo \in Seq(TermMessage)
      /\ Resize(s) \in TermMessage /\ Created(s) \in TermMessage
  BY Messages, Pending DEF TypeOK
<1>3. ASSUME NEW a, NEW b, NEW n \in Nat, b = Ahead', ~ HasCreated(a),
             Inserted(a, b, n, n + 1), b[n + 1] = Created(s)
      PROVE  Answered' /\ SizeInv'
  <2>1. Sized(b[n + 1]) /\ b[n + 1].type = "created" /\ b[n + 1].size = s
    BY <1>3, <1>f
  <2>2. LastIs(b, b[n + 1].size) /\ HasCreated(b) /\ OneCreated(b)
    BY <1>3, <2>1, InsertedLast
  <2>3. LastIs(Ahead', size') /\ HasCreated(Ahead') /\ OneCreated(Ahead')
    BY <1>3, <2>1, <2>2
  <2> QED
    BY <1>1, <2>3 DEF Answered, SizeInv
<1>4. CASE todo' = <<Created(s)>>
  <2>1. PICK n \in Nat : Inserted(Ahead, Ahead', n, n + 1) /\ Ahead'[n + 1] = Created(s)
    BY <1>t, <1>4, AheadGains
  <2> QED
    BY <1>2, <1>3, <2>1
<1>5. CASE todo' = <<Resize(s), Created(s)>>
  <2>1. PICK r : r = <<Resize(s)>>
    OBVIOUS
  <2>2. r \in Seq(TermMessage) /\ r = Append(todo, Resize(s)) /\ todo' = Append(r, Created(s))
    BY <1>t, <1>5, <2>1
  <2>3. PICK c : Joined(c, msg, tq, r)
    BY DEF Joined
  <2>4. Ahead = <<msg>> \o tq \o todo /\ Ahead' = <<msg>> \o tq \o Append(r, Created(s))
    BY <2>2 DEF Ahead
  <2>5. PICK n \in Nat : Inserted(Ahead, c, n, n + 1) /\ c[n + 1] = Resize(s)
    <3>0. PICK e : e = todo
      OBVIOUS
    <3>1. Joined(c, msg, tq, Append(e, Resize(s))) /\ e \in Seq(TermMessage)
      BY <1>t, <2>2, <2>3, <3>0
    <3> QED
      <4>1. PICK a : a = Ahead
        OBVIOUS
      <4>2. Joined(a, msg, tq, e)
        BY <2>4, <3>0, <4>1 DEF Joined
      <4>3. tq \in Seq(TermMessage) /\ Resize(s) \in TermMessage
        BY <1>t
      <4>4. \E n \in Nat : Inserted(a, c, n, n + 1) /\ c[n + 1] = Resize(s)
        BY <3>1, <4>2, <4>3, AheadDecides
      <4> QED
        BY <4>1, <4>4
  <2>6. Sized(c[n + 1]) /\ c[n + 1].type # "created"
    BY <1>f, <2>5
  <2>7. ~ HasCreated(c)
    BY <1>2, <2>5, <2>6, InsertedLast
  <2>8. PICK k \in Nat : Inserted(c, Ahead', k, k + 1) /\ Ahead'[k + 1] = Created(s)
    <3>1. r \in Seq(TermMessage)
      BY <2>2
    <3>2. PICK b : b = Ahead'
      OBVIOUS
    <3>3. Joined(b, msg, tq, Append(r, Created(s)))
      BY <2>4, <3>2 DEF Joined
    <3>4. \E k \in Nat : Inserted(c, b, k, k + 1) /\ b[k + 1] = Created(s)
      BY <1>t, <2>3, <3>1, <3>3, AheadDecides
    <3> QED
      BY <3>2, <3>4
  <2> QED
    BY <1>3, <2>7, <2>8
<1> QED
  BY <1>4, <1>5 DEF Opening

\* The window manager is about to send a key or the quit request.
LEMMA AheadPlain ==
    ASSUME TypeOK, Answered, SizeInv, NEW m \in {Key, Quit}, todo = <<>>, todo' = <<m>>,
           win = "alive", win' \in {"alive", "closed"},
           UNCHANGED <<tq, msg, initialized, tsize, size, tpc, lost>>
    PROVE  Answered' /\ SizeInv' /\ Same(Ahead, Ahead')
<1>1. m \in TermMessage /\ ~ Sized(m)
  BY Messages, Fields DEF Sized
<1>2. Following' => Following
  BY DEF Following
<1>3. PICK n \in Nat : Inserted(Ahead, Ahead', n, n + 1) /\ Ahead'[n + 1] = m
  BY <1>1, AheadGains
<1>4. Same(Ahead, Ahead')
  BY <1>1, <1>3, InsertedOther
<1> QED
  BY <1>2, <1>4, AheadKeeps

\* A layout that gives the window the size s.
LEMMA AheadLaid ==
    ASSUME TypeOK, Answered, SizeInv, NEW s \in Size, win = "alive", todo = <<>>,
           todo' = Laid(s), size' = s,
           UNCHANGED <<tq, msg, initialized, tsize, win, tpc, lost>>
    PROVE  /\ Answered' /\ SizeInv'
           /\ s # size => HasSize(Ahead')
           /\ s = size => Ahead' = Ahead
<1>1. /\ Resize(s) \in TermMessage /\ Resize(s).type = "resize"
      /\ Sized(Resize(s)) /\ Resize(s).size = s
  BY Messages, Fields DEF Sized
<1>2. Following' <=> Following
  BY DEF Following
<1>3. CASE s = size
  <2>1. Ahead' = Ahead
    BY <1>3 DEF Ahead, Laid
  <2> QED
    BY <1>2, <1>3, <2>1, SameSelf, AheadKeeps
<1>4. CASE s # size
  <2>1. PICK n \in Nat : Inserted(Ahead, Ahead', n, n + 1) /\ Ahead'[n + 1] = Resize(s)
    BY <1>1, <1>4, AheadGains DEF Laid
  <2>2. PICK a, b : a = Ahead /\ b = Ahead'
    OBVIOUS
  <2>3. Sized(b[n + 1]) /\ b[n + 1].type # "created" /\ b[n + 1].size = s
    BY <1>1, <2>1, <2>2
  <2>4. /\ LastIs(b, b[n + 1].size) /\ HasSize(b)
        /\ HasCreated(a) <=> HasCreated(b)
        /\ OneCreated(a) <=> OneCreated(b)
    BY <2>1, <2>2, <2>3, InsertedLast
  <2>5. /\ LastIs(Ahead', size') /\ HasSize(Ahead')
        /\ HasCreated(Ahead) <=> HasCreated(Ahead')
        /\ OneCreated(Ahead) <=> OneCreated(Ahead')
    BY <2>2, <2>3, <2>4
  <2>6. Answered'
    BY <2>5 DEF Answered
  <2>7. SizeInv'
    BY <1>2, <2>5 DEF SizeInv
  <2> QED
    BY <1>4, <2>5, <2>6, <2>7
<1> QED
  BY <1>3, <1>4

\* A message that the window manager sends is queued behind the others, or the
\* terminal has exited, or the full queue refuses it and the refusal is recorded.
LEMMA SendIs ==
    ASSUME TypeOK, WmSend
    PROVE  \/ Ahead' = Ahead
           \/ /\ ~ Sized(Head(todo)) \/ tpc = "dead" \/ Head(todo).type \in lost'
              /\ \E n \in Nat, k \in Nat :
                    Inserted(Ahead', Ahead, n, k) /\ Ahead[k] = Head(todo)
<1>1. /\ tq \in Seq(TermMessage) /\ todo \in Seq(TermMessage) /\ todo # <<>>
      /\ todo' = Tail(todo) /\ msg' = msg
  BY Pending DEF TypeOK, WmSend, termVars
<1>2. PICK m : m = Head(todo)
  OBVIOUS
<1>3. m \in TermMessage
  BY <1>1, <1>2, Taken
<1>4. tq' = ToTerm(m) /\ lost' = lost \cup Refused(tq, m)
  BY <1>2 DEF WmSend
<1>5. \/ tq' = Append(tq, m)
      \/ tq' = tq /\ (tpc = "dead" \/ Refused(tq, m) = {m.type})
  BY <1>3, <1>4, ToTermIs
<1>6. CASE tq' = Append(tq, m)
  <2>1. Ahead' = <<msg>> \o Append(tq, Head(todo)) \o Tail(todo)
    BY <1>1, <1>2, <1>6 DEF Ahead
  <2> QED
    BY <1>1, <2>1, AheadSent DEF Ahead
<1>7. CASE tq' = tq /\ (tpc = "dead" \/ Refused(tq, m) = {m.type})
  <2>1. Ahead = <<msg>> \o tq \o todo /\ Ahead' = <<msg>> \o tq \o Tail(todo)
    BY <1>1, <1>7 DEF Ahead
  <2>2. \E n \in Nat, k \in Nat : Inserted(Ahead', Ahead, n, k) /\ Ahead[k] = Head(todo)
    <3>1. PICK a, b : a = Ahead' /\ b = Ahead
      OBVIOUS
    <3>2. Joined(a, msg, tq, Tail(todo)) /\ Joined(b, msg, tq, todo)
      BY <2>1, <3>1 DEF Joined
    <3>3. \E n \in Nat, k \in Nat : Inserted(a, b, n, k) /\ b[k] = Head(todo)
      BY <1>1, <3>2, AheadRefused
    <3> QED
      BY <3>1, <3>3
  <2>3. tpc = "dead" \/ m.type \in lost'
    BY <1>4, <1>7
  <2> QED
    BY <1>2, <2>2, <2>3
<1> QED
  BY <1>5, <1>6, <1>7

\* Taking up the next message changes nothing about the sizes ahead.
LEMMA RecvSame ==
    ASSUME TypeOK, msg = NoMsg, tq # <<>>, msg' = Head(tq), tq' = Tail(tq), todo' = todo
    PROVE  Same(Ahead, Ahead')
<1>1. tq \in Seq(TermMessage) /\ todo \in Seq(TermMessage)
  BY Pending DEF TypeOK
<1>2. Ahead = <<msg>> \o tq \o todo /\ Ahead' = <<Head(tq)>> \o Tail(tq) \o todo
  BY DEF Ahead
<1>3. PICK n \in Nat : Inserted(Ahead', Ahead, n, 1) /\ Ahead[1] = msg
  <2>1. PICK a, b : a = Ahead' /\ b = Ahead
    OBVIOUS
  <2>0. PICK q, m : q = tq /\ m = msg
    OBVIOUS
  <2>2. /\ Joined(a, Head(q), Tail(q), todo) /\ Joined(b, m, q, todo)
        /\ q \in Seq(TermMessage) /\ todo \in Seq(TermMessage) /\ q # <<>>
    BY <1>1, <1>2, <2>0, <2>1 DEF Joined
  <2>3. \E n \in Nat : Inserted(a, b, n, 1) /\ b[1] = m
    <3>1. PICK r : r = todo
      OBVIOUS
    <3>2. q \in Seq(TermMessage) /\ r \in Seq(TermMessage) /\ q # <<>>
      BY <2>2, <3>1
    <3>3. PICK x, u : Split(q, x, u)
      BY DEF Split
    <3>4. Joined(a, x, u, r) /\ Joined(b, m, q, r)
      BY <2>2, <3>1, <3>3 DEF Split
    <3> QED
      BY <3>2, <3>3, <3>4, AheadRecv
  <2> QED
    BY <2>0, <2>1, <2>3
<1>4. ~ Sized(Ahead[1])
  BY <1>3 DEF Sized, NoMsg
<1>5. Same(Ahead', Ahead)
  BY <1>3, <1>4, InsertedOther
<1> QED
  BY <1>5 DEF Same

\* Nor does what the shell prints, although it may overtake a size that the window
\* manager has decided to send.
LEMMA PrintSame ==
    ASSUME TypeOK, ShellPrints
    PROVE  Same(Ahead, Ahead')
<1>1. tq \in Seq(TermMessage) /\ todo \in Seq(TermMessage)
  BY Pending DEF TypeOK
<1>2. PICK m \in {Stdout, Clear} : tq' = Append(tq, m)
  BY DEF ShellPrints
<1>3. m \in TermMessage /\ ~ Sized(m)
  BY <1>2, Messages, Fields DEF Sized
<1>4. Ahead = <<msg>> \o tq \o todo /\ Ahead' = <<msg>> \o Append(tq, m) \o todo
  BY <1>2 DEF Ahead, ShellPrints, wmVars, termVars
<1>5. PICK n \in Nat, k \in Nat : Inserted(Ahead, Ahead', n, k) /\ Ahead'[k] = m
  <2>1. m \in TermMessage
    BY <1>3
  <2>2. PICK a, b : a = Ahead /\ b = Ahead'
    OBVIOUS
  <2>3. Joined(a, msg, tq, todo) /\ Joined(b, msg, Append(tq, m), todo)
    BY <1>4, <2>2 DEF Joined
  <2>4. \E n \in Nat, k \in Nat : Inserted(a, b, n, k) /\ b[k] = m
    BY <1>1, <2>1, <2>3, AheadOvertakes
  <2> QED
    BY <2>2, <2>4
<1> QED
  BY <1>3, <1>5, InsertedOther

\* Every step keeps the order of the sizes on their way to the terminal.
LEMMA AheadStep ==
    ASSUME TypeOK, Quiet, Asked, Answered, SizeInv, Next
    PROVE  Answered' /\ SizeInv'
<1> USE DEF wmVars, termVars
<1>t. /\ tq \in Seq(TermMessage) /\ todo \in Seq(TermMessage)
      /\ wq \in Seq(WmMessage) /\ Len(wq) <= MSG_QUEUE_SIZE
      /\ msg \in TermMessage \cup {NoMsg}
      /\ last_update \in SUBSET Cell /\ initialized \in BOOLEAN
  BY Pending DEF TypeOK
<1>s. ASSUME Same(Ahead, Ahead'), UNCHANGED <<win, size, initialized, tsize>>,
             lost \subseteq lost', tpc = "dead" => tpc' = "dead"
      PROVE  Answered' /\ SizeInv'
  <2>1. Following' => Following
    BY <1>s DEF Following
  <2> QED
    BY <1>s, <2>1, AheadKeeps
<1>q. ASSUME UNCHANGED <<tq, todo, msg, win, size, initialized, tsize>>, lost \subseteq lost',
             tpc = "dead" => tpc' = "dead"
      PROVE  Answered' /\ SizeInv'
  <2>1. Ahead' = Ahead
    BY <1>q DEF Ahead
  <2> QED
    BY <1>q, <1>s, <2>1, SameSelf
<1>0. CASE WmSend
  <2>1. /\ UNCHANGED <<msg, win, size, initialized, tsize, tpc>> /\ lost \subseteq lost'
        /\ todo # <<>>
    BY <1>0 DEF WmSend
  <2>2. CASE Ahead' = Ahead
    BY <1>s, <2>1, <2>2, SameSelf
  <2>3. ASSUME NEW n \in Nat, NEW k \in Nat,
               Inserted(Ahead', Ahead, n, k), Ahead[k] = Head(todo), ~ Sized(Head(todo))
        PROVE  Answered' /\ SizeInv'
    <3>1. Same(Ahead', Ahead)
      BY <2>3, InsertedOther
    <3>2. Same(Ahead, Ahead')
      BY <3>1 DEF Same
    <3> QED
      BY <1>s, <2>1, <3>2
  <2>4. ASSUME NEW n \in Nat, NEW k \in Nat, Inserted(Ahead', Ahead, n, k),
               Sized(Head(todo)), tpc = "dead" \/ Head(todo).type \in lost'
        PROVE  Answered' /\ SizeInv'
    <3>1. ~ Following'
      BY <2>1, <2>4 DEF Following, Sized
    <3>2. PICK a, b : a = Ahead' /\ b = Ahead
      OBVIOUS
    <3>3. /\ HasSize(a) => HasSize(b)
          /\ HasCreated(a) => HasCreated(b)
          /\ OneCreated(b) => OneCreated(a)
      BY <2>4, <3>2, InsertedAny
    <3> QED
      BY <2>1, <3>1, <3>2, <3>3 DEF Answered, SizeInv
  <2> QED
    BY <1>0, <2>2, <2>3, <2>4, SendIs
<1>1. CASE WmNewClient
  <2>1. /\ wq # <<>> /\ Head(wq).type = "request" /\ todo = <<>>
        /\ UNCHANGED <<tq, lost, tpc, msg, initialized, tsize>>
    BY <1>1 DEF WmNewClient, Idle
  <2>2. 1 \in DOMAIN wq /\ wq[1].type = "request"
    BY <1>t, <2>1, Taken
  <2>3. win = "none"
    BY <2>2 DEF Asked
  <2>4. CASE UNCHANGED <<todo, size, win>>
    BY <2>1, <2>4, <1>q
  <2>5. ASSUME NEW s \in Size, size' = s, todo' \in Opening(s), win' = "alive"
        PROVE  Answered' /\ SizeInv'
    BY <2>1, <2>3, <2>5, AheadAnswered
  <2> QED
    BY <1>1, <2>4, <2>5 DEF WmNewClient
<1>2. CASE WmBufferUpdate
  BY <1>2, <1>q DEF WmBufferUpdate
<1>3. CASE WmOtherClient
  <2>1. UNCHANGED <<tq, lost, tpc, msg, initialized, tsize, win>> /\ todo = <<>>
    BY <1>3 DEF WmOtherClient, Idle
  <2>2. CASE UNCHANGED <<todo, size>>
    BY <1>q, <2>1, <2>2
  <2>3. ASSUME NEW s \in Size, todo' = Laid(s),
               size' = IF win = "alive" THEN s ELSE size
        PROVE  Answered' /\ SizeInv'
    <3>1. CASE win = "alive"
      BY <2>1, <2>3, <3>1, AheadLaid
    <3>2. CASE win # "alive"
      BY <1>q, <2>1, <2>3, <3>2 DEF Laid
    <3> QED
      BY <3>1, <3>2
  <2> QED
    BY <1>3, <2>2, <2>3 DEF WmOtherClient
<1>4. CASE WmMessagesDone
  BY <1>4, <1>q DEF WmMessagesDone
<1>5. CASE WmNoKey
  BY <1>5, <1>q DEF WmNoKey
<1>6. CASE WmKey
  BY <1>6, AheadPlain DEF WmKey, KeyReady, Quiet, Idle
<1>7. CASE WmFocusNext
  BY <1>7, <1>q DEF WmFocusNext
<1>8. CASE WmKillOther
  BY <1>8, AheadLaid DEF WmKillOther, KeyReady, Quiet, Idle
<1>9. CASE WmKill
  BY <1>9, AheadPlain DEF WmKill, KeyReady, Quiet, Idle
<1>10. CASE WmDraw
  BY <1>10, <1>q DEF WmDraw
<1>11. CASE WmRender
  BY <1>11, <1>q DEF WmRender
<1>12. CASE TermStart
  BY <1>12, <1>q DEF TermStart
<1>13. CASE TermFails
  BY <1>13, AheadDrops DEF TermFails
<1>14. CASE TermRecv
  <2>1. msg = NoMsg
    BY <1>14 DEF TermRecv, Asked
  <2>2. Same(Ahead, Ahead')
    BY <1>14, <2>1, RecvSame DEF TermRecv
  <2> QED
    BY <1>14, <1>s, <2>2 DEF TermRecv
<1>15. CASE TermQuit
  BY <1>15, AheadDrops DEF TermQuit
<1>16. CASE TermCreated
  BY <1>16, AheadDrops DEF TermCreated
<1>17. CASE TermResize
  BY <1>17, AheadDrops DEF TermResize
<1>18. CASE TermNotice
  BY <1>18, <1>q DEF TermNotice
<1>19. CASE TermWrite
  BY <1>19, AheadDrops DEF TermWrite, Sized
<1>20. CASE TermUpdate
  BY <1>20, <1>q DEF TermUpdate
<1>21. CASE TermClear
  BY <1>21, AheadDrops DEF TermClear, Sized
<1>22. CASE TermPass
  <2>1. Ahead[1] = msg /\ 1 \in DOMAIN Ahead
    BY AheadFirst
  <2>2. ~ (msg.type = "created" /\ initialized)
    BY <2>1 DEF Answered, HasCreated
  <2> QED
    BY <1>22, <2>2, AheadDrops DEF TermPass, Sized
<1>23. CASE ShellPrints
  BY <1>23, <1>s, PrintSame DEF ShellPrints
<1>24. CASE OtherSends
  BY <1>24, <1>q DEF OtherSends
<1> QED
  BY <1>0, <1>1, <1>2, <1>3, <1>4, <1>5, <1>6, <1>7, <1>8, <1>9, <1>10, <1>11, <1>12, <1>13,
     <1>14, <1>15, <1>16, <1>17, <1>18, <1>19, <1>20, <1>21, <1>22, <1>23, <1>24, Next
     DEF Next, Wm, Term

-----------------------------------------------------------------------------
(***************************************************************************)
(* The cells that changed.                                                 *)
(***************************************************************************)

\* The premise of NoStaleCell.
Showing == win = "alive" /\ initialized /\ tpc # "dead"
             /\ lost \cap {"created", "resize", "update"} = {}

Queued(c) == \E i \in DOMAIN wq : wq[i].type = "update" /\ c \in wq[i].area

\* The cell c is on the screen or in a rectangle that somebody holds.
Held(c) == c \in fresh \cup dirty \cup last_update \/ Queued(c)

\* NoStaleCell in terms of the cells that somebody holds.
LEMMA NoStaleCellIs ==
    NoStaleCell <=> (Showing => \A c \in Cell : Held(c) \/ RepaintDue)
  BY DEF NoStaleCell, Showing, Held, Queued

\* A step keeps NoStaleCell when it keeps what is held, or makes a repaint due.
LEMMA StaleKept ==
    ASSUME NoStaleCell, Showing' => Showing,
           Showing' /\ ~ RepaintDue' =>
               /\ \A c \in Cell : Held(c) => Held(c)'
               /\ RepaintDue => \A c \in Cell : Held(c)'
    PROVE  NoStaleCell'
<1>1. Showing => \A c \in Cell : Held(c) \/ RepaintDue
  BY NoStaleCellIs
<1>2. Showing' => \A c \in Cell : Held(c)' \/ RepaintDue'
  BY <1>1
<1>3. Cell' = Cell
  BY DEF Cell
<1> QED
  BY <1>2, <1>3 DEF NoStaleCell, Showing, Held, Queued

\* Some size is announced when a message with a size is ahead.
LEMMA AnnouncedIs == Announced # {} <=> HasSize(Ahead)
  BY DEF Announced, HasSize, Sized

\* And in the next state.
LEMMA AnnouncedThen == Announced' # {} <=> HasSize(Ahead')
  BY DEF Announced, HasSize, Sized

\* A size on its way is not lost when the message that was handled is none.
LEMMA AnnouncedDone ==
    ASSUME TypeOK, ~ Sized(msg), tq' = tq, todo' = todo, msg' = NoMsg
    PROVE  Announced # {} => Announced' # {}
<1>1. /\ DOMAIN Ahead' = DOMAIN Ahead
      /\ 1 \in DOMAIN Ahead /\ Ahead[1] = msg
      /\ \A i \in DOMAIN Ahead \ {1} : Ahead'[i] = Ahead[i]
  BY AheadDone
<1>2. HasSize(Ahead) => HasSize(Ahead')
  BY <1>1 DEF HasSize
<1> QED
  BY <1>2, AnnouncedIs, AnnouncedThen

\* What a living, initialized terminal draws with is the size of its window, or a
\* size is on its way: a copy made meanwhile with the wrong stride is repaired.
LEMMA WrongSize ==
    ASSUME SizeInv, Showing, tsize # size
    PROVE  Announced # {}
<1>1. Following
  BY DEF Following, Showing
<1>2. LastIs(Ahead, size)
  BY <1>1 DEF SizeInv
<1> QED
  BY <1>2, AnnouncedIs DEF LastIs, HasSize

\* Queued rectangles stay queued; the one that is taken out is the oldest.
LEMMA QueuedKept ==
    ASSUME TypeOK, NEW c \in Cell, Queued(c)
    PROVE  /\ wq' = wq => Queued(c)'
           /\ \A m \in WmMessage : wq' = Append(wq, m) => Queued(c)'
           /\ wq # <<>> /\ wq' = Tail(wq) =>
                 Queued(c)' \/ (Head(wq).type = "update" /\ c \in Head(wq).area)
<1>t. wq \in Seq(WmMessage)
  BY DEF TypeOK
<1>1. PICK i \in DOMAIN wq : wq[i].type = "update" /\ c \in wq[i].area
  BY DEF Queued
<1>2. wq' = wq => Queued(c)'
  BY <1>1 DEF Queued
<1>3. ASSUME NEW m \in WmMessage, wq' = Append(wq, m)
      PROVE  Queued(c)'
  <2>1. i \in DOMAIN wq' /\ wq'[i] = wq[i]
    BY <1>t, <1>3, Appended
  <2> QED
    BY <1>1, <2>1 DEF Queued
<1>4. ASSUME wq # <<>>, wq' = Tail(wq), i # 1
      PROVE  Queued(c)'
  <2>1. i - 1 \in DOMAIN wq' /\ wq'[i - 1] = wq[i]
    BY <1>t, <1>4, Taken
  <2> QED
    BY <1>1, <2>1 DEF Queued
<1>5. wq # <<>> => Head(wq) = wq[1]
  BY <1>t, Taken
<1> QED
  BY <1>1, <1>2, <1>3, <1>4, <1>5

\* A rectangle that the terminal announces is queued, or refused.
LEMMA Announce ==
    ASSUME TypeOK, NEW S \in SUBSET Cell, wq' = Sent(wq, Update(S)),
           lost' = lost \cup Refused(wq, Update(S)), Showing'
    PROVE  \A c \in Cell : Queued(c) \/ c \in S => Queued(c)'
<1>t. wq \in Seq(WmMessage) /\ Len(wq) <= MSG_QUEUE_SIZE
  BY DEF TypeOK
<1>1. Update(S) \in WmMessage /\ Update(S).type = "update" /\ Update(S).area = S
  BY Messages, Fields
<1>2. Refused(wq, Update(S)) # {"update"}
  BY DEF Showing
<1>3. wq' = Append(wq, Update(S))
  BY <1>t, <1>1, <1>2, SentIs
<1>4. ASSUME NEW c \in S  PROVE Queued(c)'
  <2>1. Len(wq) + 1 \in DOMAIN wq' /\ wq'[Len(wq) + 1] = Update(S)
    BY <1>t, <1>1, <1>3, Appended
  <2> QED
    BY <1>1, <2>1 DEF Queued
<1>5. ASSUME NEW c \in Cell, Queued(c)  PROVE Queued(c)'
  BY <1>1, <1>3, <1>5, QueuedKept
<1> QED
  BY <1>4, <1>5

\* A layout: the window manager draws everything with the size the terminal has,
\* or the new size is announced to it.
LEMMA StaleLaid ==
    ASSUME TypeOK, Answered, SizeInv, NoStaleCell, NEW s \in Size, win = "alive",
           todo = <<>>, todo' = Laid(s), size' = s, redraw',
           UNCHANGED <<tq, msg, initialized, tsize, win, tpc, lost, dirty, fresh, last_update>>,
           \A c \in Cell : Queued(c) => Queued(c)'
    PROVE  NoStaleCell'
<1>1. Showing' => Showing
  BY DEF Showing
<1>2. \A c \in Cell : Held(c) => Held(c)'
  BY DEF Held
<1>3. ASSUME RepaintDue  PROVE RepaintDue'
  <2>0. (s # size => HasSize(Ahead')) /\ (s = size => Ahead' = Ahead)
    BY AheadLaid
  <2>1. CASE s = size
    <3>1. Announced' = Announced
      BY <2>0, <2>1 DEF Announced
    <3> QED
      BY <1>3, <2>1, <3>1 DEF RepaintDue
  <2>2. CASE s # size
    BY <2>0, <2>2, AnnouncedThen DEF RepaintDue
  <2> QED
    BY <2>1, <2>2
<1> QED
  BY <1>1, <1>2, <1>3, StaleKept

\* No step of either program forgets a cell that differs from the screen.
LEMMA StaleStep ==
    ASSUME DisplayInv, Next
    PROVE  NoStaleCell'
<1> USE DEF wmVars, termVars
<1>i. TypeOK /\ Quiet /\ Asked /\ Answered /\ SizeInv /\ NoStaleCell
  BY DEF DisplayInv
<1>t. /\ wq \in Seq(WmMessage) /\ tq \in Seq(TermMessage)
      /\ dirty \in SUBSET Cell /\ fresh \in SUBSET Cell /\ last_update \in SUBSET Cell
      /\ initialized \in BOOLEAN
  BY <1>i DEF TypeOK
<1>w. \A c \in Cell : wq' = wq /\ Queued(c) => Queued(c)'
  BY <1>i, QueuedKept
<1>n. ~ Sized(NoMsg)
  BY DEF Sized, NoMsg
\* A step after which the same repaint is due, and that draws nothing.
<1>q. ASSUME UNCHANGED <<win, size, initialized, tsize, dirty, fresh, last_update>>,
             lost \subseteq lost', tpc = "dead" => tpc' = "dead",
             Announced # {} => Announced' # {},
             redraw => redraw', tpc = "notice" => tpc' = "notice",
             \A c \in Cell : Queued(c) => Queued(c)'
      PROVE  NoStaleCell'
  <2>1. Showing' => Showing
    BY <1>q DEF Showing
  <2>2. \A c \in Cell : Held(c) => Held(c)'
    BY <1>q DEF Held
  <2>3. RepaintDue => RepaintDue'
    BY <1>q DEF RepaintDue
  <2> QED
    BY <1>i, <2>1, <2>2, <2>3, StaleKept
<1>a. tq' = tq /\ todo' = todo /\ msg' = msg => Announced' = Announced
  BY DEF Announced, Ahead
<1>e. Same(Ahead, Ahead') => (Announced # {} <=> Announced' # {})
  BY AnnouncedIs, AnnouncedThen DEF Same
\* Everything is in last_update, or nothing is shown.
<1>l. ASSUME last_update' = Cell \/ ~ Showing'
      PROVE  NoStaleCell'
  BY <1>l DEF NoStaleCell, Showing, Cell
<1>0. CASE WmSend
  <2>1. /\ UNCHANGED <<wq, redraw, win, size, dirty, fresh, last_update,
                       msg, initialized, tsize, tpc>>
        /\ lost \subseteq lost'
    BY <1>0 DEF WmSend
  <2>2. CASE Ahead' = Ahead
    BY <1>e, <1>q, <1>w, <2>1, <2>2, SameSelf
  <2>3. ASSUME NEW n \in Nat, NEW k \in Nat,
               Inserted(Ahead', Ahead, n, k), Ahead[k] = Head(todo), ~ Sized(Head(todo))
        PROVE  NoStaleCell'
    <3>1. Same(Ahead', Ahead)
      BY <2>3, InsertedOther
    <3>2. Announced # {} <=> Announced' # {}
      BY <3>1, AnnouncedIs, AnnouncedThen DEF Same
    <3> QED
      BY <1>q, <1>w, <2>1, <3>2
  <2>4. CASE Sized(Head(todo)) /\ (tpc = "dead" \/ Head(todo).type \in lost')
    BY <1>l, <2>1, <2>4 DEF Showing, Sized
  <2> QED
    BY <1>0, <1>i, <2>2, <2>3, <2>4, SendIs
<1>1. CASE WmNewClient
  <2>1. 1 \in DOMAIN wq /\ wq[1].type = "request"
    BY <1>t, <1>1, Taken DEF WmNewClient
  <2>2. win = "none"
    BY <1>i, <2>1 DEF Asked
  <2>3. ~ Showing'
    BY <1>i, <1>1, <2>2 DEF WmNewClient, Answered, Showing
  <2> QED
    BY <1>l, <2>3
<1>2. CASE WmBufferUpdate
  <2>1. /\ UNCHANGED <<tq, todo, msg, win, size, initialized, tsize, tpc, lost, redraw, fresh,
                       last_update>>
        /\ wq # <<>> /\ wq' = Tail(wq)
        /\ dirty' = IF win = "alive" THEN Box(dirty, Head(wq).area) ELSE dirty
    BY <1>2 DEF WmBufferUpdate
  <2>2. Head(wq) \in WmMessage /\ Head(wq).type = "update"
    BY <1>t, <1>2, Taken DEF WmBufferUpdate
  <2>3. Head(wq).area \in SUBSET Cell
    BY <2>2, WmMessageKinds
  <2>4. dirty \cup Head(wq).area \subseteq Box(dirty, Head(wq).area)
    BY <1>t, <2>3, BoxHolds
  <2>5. Showing' => Showing /\ win = "alive"
    BY <2>1 DEF Showing
  <2>6. RepaintDue => RepaintDue'
    BY <1>a, <2>1 DEF RepaintDue
  <2>7. ASSUME NEW c \in Cell, win = "alive", Held(c)  PROVE Held(c)'
    <3>1. Queued(c) => Queued(c)' \/ c \in Head(wq).area
      BY <1>i, <2>1, QueuedKept
    <3> QED
      BY <2>1, <2>4, <2>7, <3>1 DEF Held
  <2> QED
    BY <1>i, <2>5, <2>6, <2>7, StaleKept
<1>3. CASE WmOtherClient
  <2>1. UNCHANGED <<tq, lost, tpc, msg, initialized, tsize, win, dirty, fresh, last_update>>
        /\ todo = <<>>
    BY <1>3 DEF WmOtherClient, Idle
  <2>2. \A c \in Cell : Queued(c) => Queued(c)'
    BY <1>i, <1>3, QueuedKept DEF WmOtherClient
  <2>3. CASE UNCHANGED <<todo, size, redraw>>
    BY <1>a, <1>q, <2>1, <2>2, <2>3
  <2>4. ASSUME NEW s \in Size, todo' = Laid(s),
               size' = IF win = "alive" THEN s ELSE size, redraw' = TRUE
        PROVE  NoStaleCell'
    <3>1. CASE win = "alive"
      BY <1>i, <2>1, <2>2, <2>4, <3>1, StaleLaid
    <3>2. CASE win # "alive"
      BY <1>l, <2>1, <3>2 DEF Showing
    <3> QED
      BY <3>1, <3>2
  <2> QED
    BY <1>3, <2>3, <2>4 DEF WmOtherClient
<1>4. CASE WmMessagesDone
  BY <1>4, <1>a, <1>q, <1>w DEF WmMessagesDone
<1>5. CASE WmNoKey
  BY <1>5, <1>a, <1>q, <1>w DEF WmNoKey
<1>6. CASE WmKey
  <2>1. /\ todo = <<>> /\ todo' = <<Key>> /\ win = "alive"
        /\ UNCHANGED <<wq, tq, redraw, win, size, dirty, fresh, last_update, lost,
                       msg, initialized, tsize, tpc>>
    BY <1>6, <1>i DEF WmKey, KeyReady, Quiet, Idle
  <2>2. Same(Ahead, Ahead')
    BY <1>i, <2>1, AheadPlain
  <2> QED
    BY <1>e, <1>q, <1>w, <2>1, <2>2
<1>7. CASE WmFocusNext
  BY <1>7, <1>a, <1>q, <1>w DEF WmFocusNext
<1>8. CASE WmKillOther
  BY <1>8, <1>i, <1>w, StaleLaid DEF WmKillOther, KeyReady, Quiet, Idle
<1>9. CASE WmKill
  BY <1>9, <1>l DEF WmKill, Showing
<1>10. CASE WmDraw
  <2>1. /\ UNCHANGED <<wq, tq, todo, msg, win, size, initialized, tsize, tpc, lost, dirty,
                       last_update>>
        /\ fresh' = IF tsize = size THEN fresh \cup Cell ELSE fresh \ Cell
    BY <1>10 DEF WmDraw, Copied
  <2>2. Showing' => Showing
    BY <2>1 DEF Showing
  <2>3. CASE tsize = size
    <3>1. \A c \in Cell : Held(c)'
      BY <2>1, <2>3 DEF Held
    <3> QED
      BY <1>i, <2>2, <3>1, StaleKept
  <2>4. CASE tsize # size
    <3>1. Showing => RepaintDue'
      BY <1>a, <1>i, <2>1, <2>4, WrongSize DEF RepaintDue
    <3> QED
      BY <1>i, <2>2, <3>1, StaleKept
  <2> QED
    BY <2>3, <2>4
<1>11. CASE WmRender
  <2>1. /\ UNCHANGED <<wq, tq, todo, msg, win, size, initialized, tsize, tpc, lost, redraw,
                       last_update>>
        /\ \/ UNCHANGED <<dirty, fresh>>
           \/ fresh' = IF tsize = size THEN fresh \cup dirty ELSE fresh \ dirty
    BY <1>11 DEF WmRender, Copied
  <2>2. Showing' => Showing
    BY <2>1 DEF Showing
  <2>3. CASE UNCHANGED <<dirty, fresh>>
    BY <1>a, <1>q, <1>w, <2>1, <2>3
  <2>4. CASE tsize = size /\ fresh' = fresh \cup dirty
    <3>1. \A c \in Cell : Held(c) => Held(c)'
      BY <1>w, <2>1, <2>4 DEF Held
    <3>2. RepaintDue => RepaintDue'
      BY <1>a, <2>1 DEF RepaintDue
    <3> QED
      BY <1>i, <2>2, <3>1, <3>2, StaleKept
  <2>5. CASE tsize # size
    <3>1. Showing => RepaintDue'
      BY <1>a, <1>i, <2>1, <2>5, WrongSize DEF RepaintDue
    <3> QED
      BY <1>i, <2>2, <3>1, StaleKept
  <2> QED
    BY <2>1, <2>3, <2>4, <2>5
<1>12. CASE TermStart
  <2>1. ~ Showing'
    BY <1>i, <1>12 DEF TermStart, Asked, Showing
  <2> QED
    BY <1>l, <2>1
<1>13. CASE TermFails
  BY <1>13, <1>l DEF TermFails, Showing
<1>14. CASE TermRecv
  <2>1. msg = NoMsg
    BY <1>i, <1>14 DEF TermRecv, Asked
  <2>2. Announced # {} => Announced' # {}
    BY <1>e, <1>i, <1>14, <2>1, RecvSame DEF TermRecv
  <2> QED
    BY <1>14, <1>q, <1>w, <2>2 DEF TermRecv
<1>15. CASE TermQuit
  BY <1>15, <1>l DEF TermQuit, Showing
<1>16. CASE TermCreated
  BY <1>16, <1>l DEF TermCreated
<1>17. CASE TermResize
  BY <1>17, <1>l DEF TermResize
<1>18. CASE TermNotice
  <2>1. ASSUME Showing'
        PROVE  \A c \in Cell : Held(c)'
    <3>1. Cell \in SUBSET Cell /\ wq' = Sent(wq, Update(Cell))
          /\ lost' = lost \cup Refused(wq, Update(Cell))
      BY <1>18 DEF TermNotice
    <3>2. \A c \in Cell : Queued(c)'
      BY <1>i, <2>1, <3>1, Announce
    <3> QED
      BY <3>2 DEF Held
  <2>2. Showing' => Showing
    BY <1>18 DEF TermNotice, Showing
  <2> QED
    BY <1>i, <2>1, <2>2, StaleKept
<1>19. CASE TermWrite
  <2>1. PICK S \in SUBSET Cell : fresh' = fresh \ S /\ last_update' = Box(last_update, S)
    BY <1>19 DEF TermWrite
  <2>2. last_update \cup S \subseteq last_update'
    BY <1>t, <2>1, BoxHolds
  <2>3. \A c \in Cell : Held(c) => Held(c)'
    BY <1>w, <1>19, <2>1, <2>2 DEF TermWrite, Held
  <2>4. Showing' => Showing
    BY <1>19 DEF TermWrite, Showing
  <2>5. Announced # {} => Announced' # {}
    BY <1>i, <1>19, AnnouncedDone DEF TermWrite, Sized
  <2>6. RepaintDue => RepaintDue'
    BY <1>19, <2>5 DEF TermWrite, RepaintDue
  <2> QED
    BY <1>i, <2>3, <2>4, <2>6, StaleKept
<1>20. CASE TermUpdate
  <2>1. UNCHANGED <<tq, todo, msg, redraw, win, size, initialized, tsize, dirty, fresh>>
        /\ last_update' = {} /\ lost \subseteq lost' /\ tpc = "update" /\ tpc' = "loop"
    BY <1>20 DEF TermUpdate
  <2>2. Showing' => Showing
    BY <2>1 DEF Showing
  <2>3. RepaintDue => RepaintDue'
    BY <1>a, <2>1 DEF RepaintDue
  <2>4. CASE last_update # {}
    <3>1. wq' = Sent(wq, Update(last_update))
          /\ lost' = lost \cup Refused(wq, Update(last_update))
      BY <1>20, <2>4 DEF TermUpdate
    <3>2. Showing' => \A c \in Cell : Queued(c) \/ c \in last_update => Queued(c)'
      BY <1>i, <1>t, <3>1, Announce
    <3>3. Showing' => \A c \in Cell : Held(c) => Held(c)'
      BY <2>1, <3>2 DEF Held
    <3> QED
      BY <1>i, <2>2, <2>3, <3>3, StaleKept
  <2>5. CASE last_update = {}
    <3>1. wq' = wq
      BY <1>20, <2>5 DEF TermUpdate
    <3>2. \A c \in Cell : Held(c) => Held(c)'
      BY <1>w, <2>1, <2>5, <3>1 DEF Held
    <3> QED
      BY <1>i, <2>2, <2>3, <3>2, StaleKept
  <2> QED
    BY <2>4, <2>5
<1>21. CASE TermClear
  BY <1>21, <1>l DEF TermClear
<1>22. CASE TermPass
  <2>1. CASE ~ initialized
    BY <1>22, <1>l, <2>1 DEF TermPass, Showing
  <2>2. CASE initialized
    <3>1. Ahead[1] = msg /\ 1 \in DOMAIN Ahead
      BY <1>i, AheadFirst
    <3>2. msg.type # "created"
      BY <1>i, <2>2, <3>1 DEF Answered, HasCreated
    <3>3. ~ Sized(msg)
      BY <1>22, <2>2, <3>2 DEF TermPass, Sized
    <3>4. Announced # {} => Announced' # {}
      BY <1>i, <1>22, <3>3, AnnouncedDone DEF TermPass
    <3> QED
      BY <1>22, <1>q, <1>w, <3>4 DEF TermPass
  <2> QED
    BY <2>1, <2>2
<1>23. CASE ShellPrints
  <2>1. Announced # {} => Announced' # {}
    BY <1>e, <1>i, <1>23, PrintSame
  <2> QED
    BY <1>23, <1>q, <1>w, <2>1 DEF ShellPrints
<1>24. CASE OtherSends
  <2>1. Other \in WmMessage
    BY Messages
  <2>2. \A c \in Cell : Queued(c) => Queued(c)'
    BY <1>24, <1>i, <2>1, QueuedKept DEF OtherSends
  <2> QED
    BY <1>24, <1>a, <1>q, <2>2 DEF OtherSends
<1> QED
  BY <1>0, <1>1, <1>2, <1>3, <1>4, <1>5, <1>6, <1>7, <1>8, <1>9, <1>10, <1>11, <1>12, <1>13,
     <1>14, <1>15, <1>16, <1>17, <1>18, <1>19, <1>20, <1>21, <1>22, <1>23, <1>24, Next
     DEF Next, Wm, Term

-----------------------------------------------------------------------------
(***************************************************************************)
(* The theorems.                                                           *)
(***************************************************************************)

\* The invariant holds before either program has run.
LEMMA InitDisplayInv == Init => DisplayInv
<1> SUFFICES ASSUME Init  PROVE DisplayInv
  OBVIOUS
<1>1. TypeOK
  <2>1. MSG_QUEUE_SIZE \in Nat /\ 0 \in 0 .. MaxInput /\ 0 \in 0 .. MaxOutput
    BY DisplayConstants
  <2>2. /\ wq \in Seq(WmMessage) /\ Len(wq) <= MSG_QUEUE_SIZE
        /\ tq \in Seq(TermMessage) /\ Len(tq) <= MSG_QUEUE_SIZE
        /\ todo \in Seq(FromWm) /\ Len(todo) <= 2
    BY <2>1 DEF Init
  <2>3. /\ phase \in {"messages", "input", "render"} /\ redraw \in BOOLEAN
        /\ win \in {"none", "alive", "closed"} /\ size \in Size \cup {NoSize}
        /\ tpc \in {"start", "loop", "handle", "update", "notice", "dead"}
        /\ msg \in TermMessage \cup {NoMsg} /\ initialized \in BOOLEAN
        /\ tsize \in Size \cup {NoSize} /\ unseen \in BOOLEAN
    BY DEF Init
  <2>4. /\ dirty \subseteq Cell /\ last_update \subseteq Cell /\ fresh \subseteq Cell
        /\ lost \subseteq {"request", "created", "resize", "update", "key", "quit"}
        /\ input \in 0 .. MaxInput /\ output \in 0 .. MaxOutput
    BY <2>1 DEF Init
  <2> QED
    BY <2>2, <2>3, <2>4 DEF TypeOK
<1>2. Quiet /\ Asked
  BY DEF Init, Quiet, Asked
<1>3. \A i \in DOMAIN Ahead : Ahead[i] = NoMsg
  BY DEF Init, Ahead
<1>4. Answered /\ SizeInv
  <2>1. ~ HasSize(Ahead) /\ ~ HasCreated(Ahead) /\ OneCreated(Ahead)
    BY <1>3 DEF HasSize, HasCreated, OneCreated, Sized, NoMsg
  <2> QED
    BY <2>1 DEF Init, Answered, SizeInv, Following
<1>5. NoStaleCell
  BY DEF Init, NoStaleCell
<1> QED
  BY <1>1, <1>2, <1>4, <1>5 DEF DisplayInv

\* Every step of the two programs and of the user keeps the invariant.
LEMMA NextDisplayInv == DisplayInv /\ [Next]_vars => DisplayInv'
<1> SUFFICES ASSUME DisplayInv, [Next]_vars  PROVE DisplayInv'
  OBVIOUS
<1>1. CASE Next
  <2>1. TypeOK /\ Quiet /\ Asked /\ Answered /\ SizeInv
    BY DEF DisplayInv
  <2> QED
    BY <1>1, <2>1, TypeStep, QuietStep, AskedStep, AheadStep, StaleStep DEF DisplayInv
<1>2. CASE UNCHANGED vars
  <2> USE <1>2 DEF vars, wmVars, termVars, DisplayInv
  <2>1. TypeOK'
    BY DEF TypeOK
  <2>2. Quiet' /\ Asked'
    BY DEF Quiet, Idle, Asked
  <2>3. Answered' /\ SizeInv'
    BY DEF Answered, SizeInv, Ahead, Following
  <2>4. NoStaleCell'
    BY DEF NoStaleCell, RepaintDue, Announced, Ahead
  <2> QED
    BY <2>1, <2>2, <2>3, <2>4
<1> QED
  BY <1>1, <1>2

\* The inductive invariant of the window protocol: the request and its answer
\* happen at most once, the last size on its way to the terminal is that of the
\* window, and every changed cell is held by somebody.
THEOREM DisplayInvariant == Spec => []DisplayInv
  BY InitDisplayInv, NextDisplayInv, PTL DEF Spec

\* For any queue length, number of cells and set of sizes, the terminal draws with
\* the size of its window or has that size ahead of it as the last one, unless a
\* full queue refused MSG_WINDOW_CREATED or MSG_WINDOW_RESIZE.
THEOREM SizeTheorem == Spec => []SizeAgreed
<1>1. DisplayInv => SizeAgreed
  <2> SUFFICES ASSUME DisplayInv, Following
               PROVE  IF Announced = {}
                      THEN initialized /\ tsize = size
                      ELSE \E i \in Announced :
                              /\ Ahead[i].size = size
                              /\ \A j \in Announced : j <= i
    BY DEF DisplayInv, SizeAgreed, Following
  <2>1. Announced = {i \in DOMAIN Ahead : Sized(Ahead[i])}
    BY DEF Announced, Sized
  <2>2. CASE LastIs(Ahead, size)
    BY <2>1, <2>2 DEF LastIs
  <2>3. CASE ~ LastIs(Ahead, size)
    BY <2>1, <2>3 DEF DisplayInv, SizeInv, HasSize
  <2> QED
    BY <2>2, <2>3
<1> QED
  BY <1>1, DisplayInvariant, PTL

\* For any queue length, number of cells and set of sizes, a cell whose pixels on
\* the screen are old is in a rectangle that a queue or one of the two programs
\* still holds, or a full copy is due, unless a full queue refused a message.
THEOREM StaleTheorem == Spec => []NoStaleCell
<1>1. DisplayInv => NoStaleCell
  BY DEF DisplayInv
<1> QED
  BY <1>1, DisplayInvariant, PTL

-----------------------------------------------------------------------------
(***************************************************************************)
(* The grid of the terminal emulator: module Term.                         *)
(***************************************************************************)

\* What the record of the terminal holds.
States == {"NORMAL", "ESC", "CSI", "OSC"}
Glyphs == {" "} \cup UNION {Output[s] : s \in States}
Fore == {c \in DOMAIN Ansi : "fg" \in DOMAIN Ansi[c]}
Colors == {DEFAULT_FG, DEFAULT_BG} \cup {Ansi[c].fg : c \in Fore}
                                   \cup {Ansi[c].bg : c \in DOMAIN Ansi \ Fore}
GridCell == [c : Glyphs, fg : Colors, bg : Colors]
Grids == UNION {[0 .. n - 1 -> GridCell] : n \in Nat}
Pixels == {<<>>, <<"picture">>} \cup {<<b>> : b \in Colors}
            \cup {<<c, fg, bg, r, k>> : c \in Glyphs, fg \in Colors, bg \in Colors,
                                        r \in 0 .. CH - 1, k \in 0 .. CW - 1}
Rect == [x : Nat, y : Nat, w : Nat, h : Nat, dirty : BOOLEAN]
Terminal ==
    [width : Nat, height : Nat, cols : Nat, rows : Nat, fb : [0 .. FB - 1 -> Pixels],
     text_buffer : Grids, cursor_x : Nat, cursor_y : Nat, fg_color : Colors,
     bg_color : Colors, last_update : Rect, ansi_state : States,
     ansi_param_count : 0 .. NPARAMS, ansi_params : [0 .. NPARAMS - 1 -> Nat],
     osc_buffer : Seq(Glyphs), broken : BOOLEAN]

\* The window fits into the buffer, the grid into the window, and neither is empty;
\* there is room for one more parameter.
Fits(t) ==
    /\ t \in Terminal /\ ~ t.broken /\ t.ansi_param_count < NPARAMS
    /\ CW <= t.width /\ CH <= t.height /\ t.width * t.height <= FB
    /\ t.cols = t.width \div CW /\ t.rows = t.height \div CH
    /\ t.text_buffer \in [0 .. t.cols * t.rows - 1 -> GridCell]

\* The cursor is in the grid.
CursorIn(t) == t.cursor_x < t.cols /\ t.cursor_y < t.rows

\* The window shows the grid.
Exact(t) ==
    \A x \in 0 .. t.width - 1, y \in 0 .. t.height - 1 :
        t.fb[y * t.width + x] \in {Shown(t, x, y), <<"picture">>}

\* The pixels ps of the window are in the rectangle that is to be reported.
Inside(x, y, r) == r.dirty /\ x \in r.x .. r.x + r.w - 1 /\ y \in r.y .. r.y + r.h - 1
Covered(t, ps) ==
    \A p \in ps : /\ p \in (0 .. t.width - 1) \X (0 .. t.height - 1)
                  /\ Inside(p[1], p[2], t.last_update)

\* The inductive invariant.
TermInv ==
    /\ narrow \in BOOLEAN
    /\ ~ narrow => Fits(term) /\ CursorIn(term) /\ Exact(term) /\ Covered(term, unsent)

-----------------------------------------------------------------------------
\* A place in a row-major array has one row and one column.
LEMMA OnePlace ==
    ASSUME NEW n \in Nat \ {0}, NEW a \in Nat, NEW c \in Nat,
           NEW b \in 0 .. n - 1, NEW d \in 0 .. n - 1, a * n + b = c * n + d
    PROVE  a = c /\ b = d
<1>1. a * n \in Nat /\ c * n \in Nat
  OBVIOUS
<1>2. ASSUME NEW e \in Nat, NEW f \in Nat, e < f  PROVE e * n + n <= f * n
  <2>1. PICK k \in Nat : f = e + 1 + k
    <3>1. f - (e + 1) \in Nat /\ f = e + 1 + (f - (e + 1))
      BY <1>2
    <3> QED
      BY <3>1
  <2>2. f * n = e * n + n + k * n /\ k * n \in Nat /\ e * n \in Nat
    BY <2>1
  <2> QED
    BY <2>2
<1>3. ~ a < c
  BY <1>1, <1>2
<1>4. ~ c < a
  BY <1>1, <1>2
<1>5. a = c
  BY <1>3, <1>4
<1> QED
  BY <1>1, <1>5

\* A place in an array of h rows.
LEMMA InArray ==
    ASSUME NEW w \in Nat, NEW h \in Nat, NEW x \in 0 .. w - 1, NEW y \in 0 .. h - 1
    PROVE  y * w + x \in 0 .. w * h - 1 /\ w * h \in Nat /\ y * w \in Nat
<1>1. PICK k \in Nat : h = y + 1 + k
  <2>1. h - (y + 1) \in Nat /\ h = y + 1 + (h - (y + 1))
    OBVIOUS
  <2> QED
    BY <2>1
<1>2. w * h = y * w + w + k * w /\ k * w \in Nat /\ y * w \in Nat
  BY <1>1
<1> QED
  BY <1>2

\* Division by a positive number.
LEMMA Divide ==
    ASSUME NEW x \in Nat, NEW n \in Nat \ {0}
    PROVE  /\ x \div n \in Nat /\ x % n \in 0 .. n - 1 /\ (x \div n) * n \in Nat
           /\ x = (x \div n) * n + (x % n)
  OBVIOUS

\* Which multiples of n a number lies between.
LEMMA Between ==
    ASSUME NEW x \in Nat, NEW n \in Nat \ {0}, NEW q \in Nat
    PROVE  /\ q * n \in Nat
           /\ x \div n = q <=> x \in q * n .. q * n + n - 1
           /\ x \div n = q => x - q * n = x % n
           /\ q < x \div n <=> q * n + n <= x
<1>1. /\ x \div n \in Nat /\ x % n \in 0 .. n - 1 /\ (x \div n) * n \in Nat
      /\ x = (x \div n) * n + (x % n)
  BY Divide
<1>2. q * n \in Nat
  OBVIOUS
<1>3. ASSUME x \in q * n .. q * n + n - 1  PROVE x \div n = q
  <2>1. x - q * n \in 0 .. n - 1 /\ q * n + (x - q * n) = (x \div n) * n + (x % n)
    BY <1>1, <1>2, <1>3
  <2> QED
    BY <1>1, <2>1, OnePlace
<1>4. ASSUME x \div n = q  PROVE x \in q * n .. q * n + n - 1 /\ x - q * n = x % n
  BY <1>1, <1>2, <1>4
<1>5. ASSUME NEW e \in Nat, NEW f \in Nat, e < f  PROVE e * n + n <= f * n
  <2>1. PICK k \in Nat : f = e + 1 + k
    <3>1. f - (e + 1) \in Nat /\ f = e + 1 + (f - (e + 1))
      BY <1>5
    <3> QED
      BY <3>1
  <2>2. f * n = e * n + n + k * n /\ k * n \in Nat /\ e * n \in Nat
    BY <2>1
  <2> QED
    BY <2>2
<1>6. q < x \div n => q * n + n <= x
  BY <1>1, <1>2, <1>5
<1>7. ASSUME x \div n <= q  PROVE ~ q * n + n <= x
  <2>1. CASE x \div n = q
    BY <1>1, <1>2, <2>1
  <2>2. CASE x \div n < q
    <3>1. (x \div n) * n + n <= q * n
      BY <1>1, <1>5, <2>2
    <3> QED
      BY <1>1, <1>2, <3>1
  <2> QED
    BY <1>1, <1>7, <2>1, <2>2
<1>8. q < x \div n <=> q * n + n <= x
  BY <1>1, <1>6, <1>7
<1> QED
  BY <1>2, <1>3, <1>4, <1>8

-----------------------------------------------------------------------------
(***************************************************************************)
(* Drawing.                                                                *)
(***************************************************************************)

\* f is the frame buffer of t with val drawn over it at X, Y.
Paints(t, X, Y, w, h, val, f) ==
    \A x \in 0 .. t.width - 1, y \in 0 .. t.height - 1 :
        f[y * t.width + x] = IF x \in X .. X + w - 1 /\ y \in Y .. Y + h - 1
                             THEN val[<<y - Y, x - X>>] ELSE t.fb[y * t.width + x]

\* Drawing a box with its upper left corner in a window that fits into the buffer
\* writes the pixels of the box that are in the window, and nothing else.
LEMMA PaintFacts ==
    ASSUME NEW t \in Terminal, t.width * t.height <= FB, NEW X \in Nat, NEW Y \in Nat,
           NEW w \in Nat, NEW h \in Nat, NEW val \in [Area(w, h) -> Pixels]
    PROVE  \E f \in [0 .. FB - 1 -> Pixels] :
              Painted(t, X, Y, val) = [t EXCEPT !.fb = f] /\ Paints(t, X, Y, w, h, val, f)
<1> DEFINE ps == Clip(t, X, Y, DOMAIN val)
           at(p) == (Y + p[1]) * t.width + X + p[2]
           f == [i \in DOMAIN t.fb |->
                   IF \E p \in ps : at(p) = i
                   THEN LET p == CHOOSE p \in ps : at(p) = i IN val[p]
                   ELSE t.fb[i]]
<1>1. /\ t.width \in Nat /\ t.height \in Nat /\ FB \in Nat
      /\ t.fb \in [0 .. FB - 1 -> Pixels] /\ DOMAIN t.fb = 0 .. FB - 1
  BY TermConstants DEF Terminal
<1>2. \A p \in ps : /\ p \in Area(w, h) /\ p = <<p[1], p[2]>>
                    /\ p[1] \in 0 .. h - 1 /\ p[2] \in 0 .. w - 1
                    /\ Y + p[1] \in 0 .. t.height - 1 /\ X + p[2] \in 0 .. t.width - 1
  <2> SUFFICES ASSUME NEW p \in ps
               PROVE  /\ p \in Area(w, h) /\ p = <<p[1], p[2]>>
                      /\ p[1] \in 0 .. h - 1 /\ p[2] \in 0 .. w - 1
                      /\ Y + p[1] \in 0 .. t.height - 1 /\ X + p[2] \in 0 .. t.width - 1
    OBVIOUS
  <2>1. p \in Area(w, h) /\ Y + p[1] < t.height /\ X + p[2] < t.width
    BY DEF Clip
  <2>2. PICK a \in 0 .. h - 1, b \in 0 .. w - 1 : p = <<a, b>>
    BY <2>1 DEF Area
  <2>3. p[1] = a /\ p[2] = b
    BY <2>2
  <2> HIDE DEF ps
  <2>4. Y + a \in 0 .. t.height - 1 /\ X + b \in 0 .. t.width - 1
    BY <1>1, <2>1, <2>3
  <2> QED
    BY <2>1, <2>2, <2>3, <2>4
<1>3. \A a \in 0 .. h - 1, b \in 0 .. w - 1 :
          Y + a < t.height /\ X + b < t.width => <<a, b>> \in ps
  BY DEF Clip, Area
<1>4. \A a \in Nat, b \in Nat : (Y + a) * t.width + X + b = (Y + a) * t.width + (X + b)
  BY <1>1
<1> HIDE DEF ps
<1>5. \A p \in ps : at(p) \in 0 .. FB - 1
  <2> SUFFICES ASSUME NEW p \in ps  PROVE at(p) \in 0 .. FB - 1
    OBVIOUS
  <2>1. PICK x \in 0 .. t.width - 1 : x = X + p[2]
    BY <1>2
  <2>2. PICK y \in 0 .. t.height - 1 : y = Y + p[1]
    BY <1>2
  <2>3. y * t.width + x \in 0 .. t.width * t.height - 1 /\ t.width * t.height \in Nat
    BY <1>1, InArray
  <2>4. at(p) = y * t.width + x
    BY <1>2, <1>4, <2>1, <2>2
  <2> QED
    BY <1>1, <2>3, <2>4
<1>6. ASSUME NEW x \in 0 .. t.width - 1, NEW y \in 0 .. t.height - 1, NEW p \in ps
      PROVE  at(p) = y * t.width + x <=> p[1] = y - Y /\ p[2] = x - X
  <2>1. PICK u \in 0 .. t.width - 1 : u = X + p[2]
    BY <1>2
  <2>2. PICK v \in 0 .. t.height - 1 : v = Y + p[1]
    BY <1>2
  <2>3. at(p) = v * t.width + u
    BY <1>2, <1>4, <2>1, <2>2
  <2>4. v * t.width + u = y * t.width + x => v = y /\ u = x
    <3>1. t.width \in Nat \ {0} /\ v \in Nat /\ y \in Nat
      BY <1>1
    <3> QED
      BY <3>1, OnePlace
  <2>5. PICK a \in Nat, b \in Nat : a = p[1] /\ b = p[2]
    BY <1>2
  <2>6. v = y /\ u = x <=> p[1] = y - Y /\ p[2] = x - X
    <3>1. v = Y + a /\ u = X + b /\ v \in Int /\ u \in Int /\ y \in Int /\ x \in Int
      BY <1>1, <2>1, <2>2, <2>5
    <3>2. (v = y <=> a = y - Y) /\ (u = x <=> b = x - X)
      BY <3>1
    <3> QED
      BY <2>5, <3>2
  <2> QED
    BY <2>3, <2>4, <2>6
<1> HIDE DEF at
<1>7. f \in [0 .. FB - 1 -> Pixels]
  <2> SUFFICES ASSUME NEW i \in 0 .. FB - 1, NEW q \in ps, at(q) = i
               PROVE  val[CHOOSE p \in ps : at(p) = i] \in Pixels
    BY <1>1
  <2>1. (CHOOSE p \in ps : at(p) = i) \in ps
    OBVIOUS
  <2> QED
    BY <1>2, <2>1
<1>8. Painted(t, X, Y, val) = [t EXCEPT !.fb = f]
  BY <1>1, <1>5 DEF Painted, ps, at
<1>9. Paints(t, X, Y, w, h, val, f)
  <2> SUFFICES ASSUME NEW x \in 0 .. t.width - 1, NEW y \in 0 .. t.height - 1
               PROVE  f[y * t.width + x] = IF x \in X .. X + w - 1 /\ y \in Y .. Y + h - 1
                                           THEN val[<<y - Y, x - X>>]
                                           ELSE t.fb[y * t.width + x]
    BY DEF Paints
  <2>1. PICK i : i = y * t.width + x
    OBVIOUS
  <2>2. i \in 0 .. FB - 1
    <3>1. i \in 0 .. t.width * t.height - 1 /\ t.width * t.height \in Nat
      BY <1>1, <2>1, InArray
    <3> QED
      BY <1>1, <3>1
  <2>3. CASE x \in X .. X + w - 1 /\ y \in Y .. Y + h - 1
    <3>1. PICK q : q = <<y - Y, x - X>>
      OBVIOUS
    <3>2. q \in ps
      <4>1. y - Y \in 0 .. h - 1 /\ x - X \in 0 .. w - 1
        BY <2>3
      <4>2. Y + (y - Y) < t.height /\ X + (x - X) < t.width
        BY <1>1
      <4> QED
        BY <1>3, <3>1, <4>1, <4>2
    <3>3. at(q) = i
      BY <1>6, <2>1, <3>1, <3>2
    <3>4. \A p \in ps : at(p) = i => p = q
      BY <1>2, <1>6, <2>1, <3>1
    <3>5. (CHOOSE p \in ps : at(p) = i) = q
      BY <3>2, <3>3, <3>4
    <3>6. f[i] = val[q]
      BY <1>1, <2>2, <3>2, <3>3, <3>5
    <3> QED
      BY <2>1, <2>3, <3>1, <3>6
  <2>4. CASE ~ (x \in X .. X + w - 1 /\ y \in Y .. Y + h - 1)
    <3>1. ASSUME NEW p \in ps, at(p) = i  PROVE FALSE
      <4>1. p[1] = y - Y /\ p[2] = x - X
        BY <1>6, <2>1, <3>1
      <4>2. p[1] \in 0 .. h - 1 /\ p[2] \in 0 .. w - 1
        BY <1>2
      <4> QED
        BY <2>4, <4>1, <4>2
    <3>2. f[i] = t.fb[i]
      BY <1>1, <2>2, <3>1
    <3> QED
      BY <2>1, <2>4, <3>2
  <2> QED
    BY <2>3, <2>4
<1> QED
  BY <1>7, <1>8, <1>9

\* The record of a rectangle.
LEMMA RectType ==
    ASSUME NEW x \in Nat, NEW y \in Nat, NEW w \in Nat, NEW h \in Nat, NEW d \in BOOLEAN
    PROVE  [x |-> x, y |-> y, w |-> w, h |-> h, dirty |-> d] \in Rect
  BY DEF Rect

\* The rectangle r with the cell at pixel x, y.
Widened(r, x, y) ==
    IF r.dirty THEN Grown(r, x, y)
    ELSE [x |-> x, y |-> y, w |-> CW, h |-> CH, dirty |-> TRUE]

\* A rectangle that grows by a cell keeps the pixels it had and gets those of the cell.
LEMMA RectFacts ==
    ASSUME NEW r \in Rect, NEW x \in Nat, NEW y \in Nat, NEW s, s = Widened(r, x, y)
    PROVE  /\ s \in Rect
           /\ \A a, b \in Nat : a \in x .. x + CW - 1 /\ b \in y .. y + CH - 1 => Inside(a, b, s)
           /\ \A a, b \in Nat : Inside(a, b, r) => Inside(a, b, s)
<1>1. CW \in Nat \ {0} /\ CH \in Nat \ {0}
  BY TermConstants
<1>2. /\ r.x \in Nat /\ r.y \in Nat /\ r.w \in Nat /\ r.h \in Nat /\ r.dirty \in BOOLEAN
  BY DEF Rect
<1>3. CASE ~ r.dirty
  <2>1. s = [x |-> x, y |-> y, w |-> CW, h |-> CH, dirty |-> TRUE]
    BY <1>3 DEF Widened
  <2>2. s \in Rect
    <3>1. \A d \in BOOLEAN : [x |-> x, y |-> y, w |-> CW, h |-> CH, dirty |-> d] \in Rect
      BY <1>1, RectType
    <3>2. [x |-> x, y |-> y, w |-> CW, h |-> CH, dirty |-> TRUE] \in Rect
      BY <3>1
    <3> QED
      BY <2>1, <3>2, Zenon
  <2>3. s.x = x /\ s.y = y /\ s.w = CW /\ s.h = CH /\ s.dirty = TRUE
    BY <2>1
  <2> QED
    BY <1>3, <2>2, <2>3 DEF Inside
<1>4. CASE r.dirty
  <2> DEFINE x1 == IF x < r.x THEN x ELSE r.x
             y1 == IF y < r.y THEN y ELSE r.y
             x2 == IF x + CW > r.x + r.w THEN x + CW ELSE r.x + r.w
             y2 == IF y + CH > r.y + r.h THEN y + CH ELSE r.y + r.h
  <2>1. s = [x |-> x1, y |-> y1, w |-> x2 - x1, h |-> y2 - y1, dirty |-> TRUE]
    BY <1>4 DEF Grown, Widened
  <2>2. /\ x1 \in Nat /\ y1 \in Nat /\ x2 \in Nat /\ y2 \in Nat
        /\ x1 <= x /\ x1 <= r.x /\ y1 <= y /\ y1 <= r.y
        /\ x + CW <= x2 /\ r.x + r.w <= x2 /\ y + CH <= y2 /\ r.y + r.h <= y2
    BY <1>1, <1>2
  <2> HIDE DEF x1, y1, x2, y2
  <2>3. x2 - x1 \in Nat /\ y2 - y1 \in Nat /\ x1 + (x2 - x1) = x2 /\ y1 + (y2 - y1) = y2
    BY <1>1, <2>2
  <2> DEFINE w == x2 - x1
             h == y2 - y1
  <2>4. s \in Rect
    <3>1. w \in Nat /\ h \in Nat /\ s = [x |-> x1, y |-> y1, w |-> w, h |-> h, dirty |-> TRUE]
      BY <2>1, <2>3
    <3>2. x1 \in Nat /\ y1 \in Nat
      BY <2>2
    <3> HIDE DEF w, h
    <3>3. [x |-> x1, y |-> y1, w |-> w, h |-> h, dirty |-> TRUE] \in Rect
      <4>1. \A d \in BOOLEAN : [x |-> x1, y |-> y1, w |-> w, h |-> h, dirty |-> d] \in Rect
        BY <3>1, <3>2, RectType
      <4> QED
        BY <4>1
    <3> QED
      BY <3>1, <3>3, Zenon
  <2> HIDE DEF w, h
  <2>8. s.x = x1 /\ s.y = y1 /\ s.w = w /\ s.h = h /\ s.dirty = TRUE
    BY <2>1 DEF w, h
  <2>5. \A a, b \in Nat : Inside(a, b, s) <=> a \in x1 .. x2 - 1 /\ b \in y1 .. y2 - 1
    <3>1. s.x .. s.x + s.w - 1 = x1 .. x2 - 1 /\ s.y .. s.y + s.h - 1 = y1 .. y2 - 1
      BY <2>2, <2>3, <2>8 DEF w, h
    <3> QED
      BY <2>8, <3>1, Zenon DEF Inside
  <2>6. \A a, b \in Nat : a \in x .. x + CW - 1 /\ b \in y .. y + CH - 1 => Inside(a, b, s)
    <3> SUFFICES ASSUME NEW a \in Nat, NEW b \in Nat,
                        a \in x .. x + CW - 1, b \in y .. y + CH - 1
                 PROVE  a \in x1 .. x2 - 1 /\ b \in y1 .. y2 - 1
      BY <2>5
    <3> QED
      BY <1>1, <2>2
  <2>7. \A a, b \in Nat : Inside(a, b, r) => Inside(a, b, s)
    BY <1>2, <2>2, <2>5 DEF Inside
  <2> QED
    BY <2>4, <2>6, <2>7
<1> QED
  BY <1>2, <1>3, <1>4

\* u differs from t in its pixels and in the rectangle to report only.
SameGrid(t, u) ==
    /\ u.width = t.width /\ u.height = t.height /\ u.cols = t.cols /\ u.rows = t.rows
    /\ u.text_buffer = t.text_buffer /\ u.cursor_x = t.cursor_x /\ u.cursor_y = t.cursor_y
    /\ u.fg_color = t.fg_color /\ u.bg_color = t.bg_color /\ u.ansi_state = t.ansi_state
    /\ u.ansi_param_count = t.ansi_param_count /\ u.ansi_params = t.ansi_params
    /\ u.osc_buffer = t.osc_buffer /\ u.broken = t.broken

\* u is t with the cell x, y drawn.
DrawnAt(t, u, x, y) ==
    /\ u \in Terminal /\ SameGrid(t, u)
    /\ \A a \in 0 .. t.width - 1, b \in 0 .. t.height - 1 :
          u.fb[b * t.width + a] = IF a \div CW = x /\ b \div CH = y THEN Shown(t, a, b)
                                  ELSE t.fb[b * t.width + a]
    /\ \A a, b \in Nat :
          /\ a \div CW = x /\ b \div CH = y => Inside(a, b, u.last_update)
          /\ Inside(a, b, t.last_update) => Inside(a, b, u.last_update)

\* The numbers of columns and rows, and of cells.
LEMMA GridFacts ==
    ASSUME NEW t, Fits(t)
    PROVE  /\ CW \in Nat \ {0} /\ CH \in Nat \ {0} /\ t.width \in Nat \ {0}
           /\ t.height \in Nat \ {0} /\ t.cols \in Nat \ {0} /\ t.rows \in Nat \ {0}
           /\ t.cols * t.rows \in Nat
           /\ DOMAIN t.text_buffer = 0 .. t.cols * t.rows - 1
           /\ \A x \in 0 .. t.cols - 1, y \in 0 .. t.rows - 1 :
                 y * t.cols + x \in 0 .. t.cols * t.rows - 1
<1>1. /\ CW \in Nat \ {0} /\ CH \in Nat \ {0} /\ t.width \in Nat /\ t.height \in Nat
      /\ CW <= t.width /\ CH <= t.height
      /\ t.cols = t.width \div CW /\ t.rows = t.height \div CH
  BY TermConstants DEF Fits, Terminal
<1>2. 0 \in Nat /\ t.cols \in Nat /\ t.rows \in Nat
  BY <1>1, Divide
<1>3. t.cols # 0 /\ t.rows # 0
  <2>1. 0 * CW + CW <= t.width /\ 0 * CH + CH <= t.height
    BY <1>1
  <2>2. 0 < t.width \div CW /\ 0 < t.height \div CH
    BY <1>1, <2>1, Between
  <2> QED
    BY <1>1, <2>2
<1>4. t.cols * t.rows \in Nat
  BY <1>2
<1>5. \A x \in 0 .. t.cols - 1, y \in 0 .. t.rows - 1 :
         y * t.cols + x \in 0 .. t.cols * t.rows - 1
  BY <1>2, InArray
<1>6. DOMAIN t.text_buffer = 0 .. t.cols * t.rows - 1
  BY DEF Fits
<1> QED
  <2>1. t.width # 0 /\ t.height # 0
    BY <1>1
  <2> QED
    BY <1>1, <1>2, <1>3, <1>4, <1>5, <1>6, <2>1

\* A pixel of a glyph in colours of the terminal.
LEMMA PixelType ==
    ASSUME NEW c \in Glyphs, NEW fg \in Colors, NEW bg \in Colors,
           NEW r \in 0 .. CH - 1, NEW k \in 0 .. CW - 1
    PROVE  Pixel(c, fg, bg, r, k) \in Pixels
<1>1. <<bg>> \in Pixels
  BY DEF Pixels
<1>2. <<c, fg, bg, r, k>> \in Pixels
  BY DEF Pixels
<1> QED
  BY <1>1, <1>2 DEF Pixel

\* What draw_cell does.
LEMMA CellFacts ==
    ASSUME NEW t, Fits(t), NEW x, x \in 0 .. t.cols - 1, NEW y, y \in 0 .. t.rows - 1
    PROVE  DrawnAt(t, draw_cell(t, x, y), x, y)
<1>1. /\ CW \in Nat \ {0} /\ CH \in Nat \ {0} /\ t.width \in Nat \ {0}
      /\ t.height \in Nat \ {0} /\ t.cols \in Nat \ {0} /\ t.rows \in Nat \ {0}
      /\ x \in Nat /\ y \in Nat
  BY GridFacts
<1>2. PICK i : i = y * t.cols + x
  OBVIOUS
<1>3. i \in 0 .. t.cols * t.rows - 1 /\ DOMAIN t.text_buffer = 0 .. t.cols * t.rows - 1
  BY <1>2, GridFacts
<1>4. t.text_buffer[i] \in GridCell
  BY <1>3 DEF Fits
<1> DEFINE cell == t.text_buffer[i]
           cur == x = t.cursor_x /\ y = t.cursor_y
           fg == IF cur THEN cell.bg ELSE cell.fg
           bg == IF cur THEN cell.fg ELSE cell.bg
           val == [p \in Area(CW, CH) |-> Pixel(cell.c, fg, bg, p[1], p[2])]
           X == x * CW
           Y == y * CH
<1>5. cell.c \in Glyphs /\ fg \in Colors /\ bg \in Colors
  BY <1>4 DEF GridCell
<1>6. val \in [Area(CW, CH) -> Pixels]
  <2> SUFFICES ASSUME NEW p \in Area(CW, CH)
               PROVE  Pixel(cell.c, fg, bg, p[1], p[2]) \in Pixels
    OBVIOUS
  <2>1. p[1] \in 0 .. CH - 1 /\ p[2] \in 0 .. CW - 1
    BY DEF Area
  <2> QED
    BY <1>5, <2>1, PixelType
<1>7. draw_cell(t, x, y) = add_dirty_cell(Painted(t, X, Y, val), x, y)
  BY <1>2, <1>3 DEF draw_cell
<1>8. X \in Nat /\ Y \in Nat /\ t \in Terminal /\ t.width * t.height <= FB /\ CW \in Nat /\ CH \in Nat
  BY <1>1, SMTT(30) DEF Fits
<1>9. \A a \in 0 .. CH - 1, b \in 0 .. CW - 1 : val[<<a, b>>] = Pixel(cell.c, fg, bg, a, b)
  BY DEF Area
<1> HIDE DEF val, X, Y
<1>10. PICK f \in [0 .. FB - 1 -> Pixels] :
          Painted(t, X, Y, val) = [t EXCEPT !.fb = f] /\ Paints(t, X, Y, CW, CH, val, f)
  BY <1>6, <1>8, PaintFacts
<1>11. PICK v : v = [t EXCEPT !.fb = f]
  OBVIOUS
<1>12. v \in Terminal /\ SameGrid(t, v) /\ v.fb = f /\ v.last_update = t.last_update
  BY <1>8, <1>11 DEF Terminal, SameGrid
<1>13. PICK u : u = add_dirty_cell(v, x, y)
  OBVIOUS
<1>14. PICK s : s = Widened(v.last_update, X, Y)
  OBVIOUS
<1>15. /\ s \in Rect
       /\ \A a, b \in Nat : a \in X .. X + CW - 1 /\ b \in Y .. Y + CH - 1 => Inside(a, b, s)
       /\ \A a, b \in Nat : Inside(a, b, t.last_update) => Inside(a, b, s)
  <2>1. v.last_update \in Rect
    BY <1>12 DEF Terminal
  <2>2. PICK r \in Rect : r = v.last_update /\ r = t.last_update
    BY <1>12, <2>1
  <2>3. s = Widened(r, X, Y)
    BY <1>14, <2>2
  <2> QED
    BY <1>8, <2>2, <2>3, RectFacts
<1>16. u = [v EXCEPT !.last_update = s]
  BY <1>12, <1>13, <1>14 DEF add_dirty_cell, Widened, X, Y
<1>17. u \in Terminal /\ SameGrid(t, u) /\ u.fb = f /\ u.last_update = s
  BY <1>12, <1>15, <1>16 DEF Terminal, SameGrid
<1>18. draw_cell(t, x, y) = u
  BY <1>7, <1>10, <1>11, <1>13
<1>19. \A a, b \in Nat : /\ a \div CW = x <=> a \in X .. X + CW - 1
                         /\ b \div CH = y <=> b \in Y .. Y + CH - 1
                         /\ a \div CW = x => a - X = a % CW /\ a % CW \in 0 .. CW - 1
                         /\ b \div CH = y => b - Y = b % CH /\ b % CH \in 0 .. CH - 1
  BY <1>1, Between, Divide DEF X, Y
<1>20. ASSUME NEW a \in 0 .. t.width - 1, NEW b \in 0 .. t.height - 1
       PROVE  u.fb[b * t.width + a] = IF a \div CW = x /\ b \div CH = y THEN Shown(t, a, b)
                                      ELSE t.fb[b * t.width + a]
  <2>1. a \in Nat /\ b \in Nat
    OBVIOUS
  <2>2. f[b * t.width + a] = IF a \in X .. X + CW - 1 /\ b \in Y .. Y + CH - 1
                             THEN val[<<b - Y, a - X>>] ELSE t.fb[b * t.width + a]
    BY <1>10 DEF Paints
  <2>3. CASE a \div CW = x /\ b \div CH = y
    <3>1. u.fb[b * t.width + a] = val[<<b % CH, a % CW>>]
      BY <1>17, <1>19, <2>1, <2>2, <2>3
    <3>2. val[<<b % CH, a % CW>>] = Pixel(cell.c, fg, bg, b % CH, a % CW)
      BY <1>9, <1>19, <2>1, <2>3
    <3>3. ~ (x >= t.cols) /\ ~ (y >= t.rows)
      BY <1>1
    <3>4. Shown(t, a, b) = Pixel(cell.c, fg, bg, b % CH, a % CW)
      BY <1>2, <2>3, <3>3 DEF Shown
    <3> QED
      BY <2>3, <3>1, <3>2, <3>4
  <2>4. CASE ~ (a \div CW = x /\ b \div CH = y)
    BY <1>17, <1>19, <2>1, <2>2, <2>4
  <2> QED
    BY <2>3, <2>4
<1>21. \A a, b \in Nat :
          /\ a \div CW = x /\ b \div CH = y => Inside(a, b, u.last_update)
          /\ Inside(a, b, t.last_update) => Inside(a, b, u.last_update)
  BY <1>15, <1>17, <1>19
<1> HIDE DEF cell, cur, fg, bg
<1> QED
  BY <1>17, <1>18, <1>20, <1>21 DEF DrawnAt

-----------------------------------------------------------------------------
(***************************************************************************)
(* Loops.                                                                  *)
(***************************************************************************)

\* A set of naturals that is not empty has a least element.
LEMMA LeastNat ==
    ASSUME NEW T, T \subseteq Nat, T # {}
    PROVE  \E x \in T : \A y \in T : x <= y
<1>1. PICK x \in T : \A y \in T : ~ (<<y, x>> \in OpToRel(<, Nat))
  BY NatLessThanWellFounded, WFMin
<1>2. \A y \in T : ~ (y < x)
  BY <1>1 DEF OpToRel
<1> QED
  BY <1>2

\* Induction over the rounds of a loop, for a set of the rounds after which a claim holds.
LEMMA Rounds ==
    ASSUME NEW n \in Nat, NEW H, 0 \in H, \A k \in 0 .. n - 1 : k \in H => k + 1 \in H
    PROVE  n \in H
<1> SUFFICES ASSUME n \notin H
             PROVE  FALSE
  OBVIOUS
<1> DEFINE T == {m \in 0 .. n : m \notin H}
<1>1. T \subseteq Nat /\ T # {}
  OBVIOUS
<1>2. PICK x \in T : \A y \in T : x <= y
  BY <1>1, LeastNat, Zenon
<1>3. x \in 0 .. n /\ x \notin H /\ x # 0
  BY <1>2
<1>4. x - 1 \in 0 .. n - 1 /\ (x - 1) + 1 = x /\ x - 1 \in 0 .. n /\ ~ (x <= x - 1)
  BY <1>3
<1>5. x - 1 \in H
  BY <1>2, <1>4
<1> QED
  BY <1>3, <1>4, <1>5

\* G[k] is what round k makes of a value in S; f are the values before each round.
Turns(S, n, G) == G \in [0 .. n - 1 -> [S -> S]]
Loops(S, a, n, G, f) ==
    /\ f \in [0 .. n -> S]
    /\ f[0] = a
    /\ \A k \in 0 .. n - 1 : f[k + 1] = G[k][f[k]]

\* A loop with given rounds has its values.
LEMMA LoopRuns ==
    \A S : \A a \in S, n \in Nat : \A G : Turns(S, n, G) => \E f : Loops(S, a, n, G, f)
<1> SUFFICES ASSUME NEW S, NEW a \in S, NEW n \in Nat, NEW G \in [0 .. n - 1 -> [S -> S]]
             PROVE  \E f : Loops(S, a, n, G, f)
  BY DEF Turns
<1> DEFINE Good(m, f) == f[0] = a /\ \A k \in 0 .. m - 1 : f[k + 1] = G[k][f[k]]
           H == {m \in 0 .. n : \E f \in [0 .. m -> S] : Good(m, f)}
<1>1. 0 \in H
  <2> DEFINE f == [k \in 0 .. 0 |-> a]
  <2>1. f \in [0 .. 0 -> S] /\ f[0] = a /\ 0 .. 0 - 1 = {} /\ 0 \in 0 .. n
    OBVIOUS
  <2> HIDE DEF f
  <2> QED
    BY <2>1
<1>2. ASSUME NEW m \in 0 .. n - 1, m \in H  PROVE m + 1 \in H
  <2>1. PICK f \in [0 .. m -> S] : Good(m, f)
    BY <1>2
  <2> DEFINE g == [k \in 0 .. m + 1 |-> IF k = m + 1 THEN G[m][f[m]] ELSE f[k]]
  <2>2. m \in 0 .. m /\ f[m] \in S /\ G[m] \in [S -> S]
    OBVIOUS
  <2>3. g \in [0 .. m + 1 -> S]
    BY <2>2
  <2>4. \A k \in 0 .. m : g[k] = f[k]
    OBVIOUS
  <2>5. g[m + 1] = G[m][f[m]]
    OBVIOUS
  <2>6. g[0] = a
    BY <2>1, <2>4
  <2> HIDE DEF g
  <2>7. ASSUME NEW k \in 0 .. m  PROVE g[k + 1] = G[k][g[k]]
    <3>1. CASE k = m
      BY <2>2, <2>4, <2>5, <3>1
    <3>2. CASE k # m
      <4>1. k \in 0 .. m - 1 /\ k + 1 \in 0 .. m
        BY <3>2
      <4> QED
        BY <2>1, <2>4, <4>1
    <3> QED
      BY <3>1, <3>2
  <2>8. (m + 1) - 1 = m /\ m + 1 \in 0 .. n
    OBVIOUS
  <2>9. Good(m + 1, g)
    BY <2>6, <2>7, <2>8
  <2> QED
    BY <2>3, <2>8, <2>9
<1> HIDE DEF H
<1>3. \A m \in 0 .. n - 1 : m \in H => m + 1 \in H
  BY <1>2
<1>4. n \in H
  BY <1>1, <1>3, Rounds
<1> QED
  BY <1>4 DEF H, Loops

-----------------------------------------------------------------------------
(***************************************************************************)
(* The whole grid.                                                         *)
(***************************************************************************)

\* The views of the grid of t: whatever is drawn, it is one of these.
Views(t) == {u \in Terminal : SameGrid(t, u)}

\* After n cells: those cells are shown, the rest of the window is cleared.
ShownTo(t, u, n) ==
    \A a \in 0 .. t.width - 1, b \in 0 .. t.height - 1 :
        u.fb[b * t.width + a] =
            IF /\ a \div CW < t.cols /\ b \div CH < t.rows
               /\ (b \div CH) * t.cols + (a \div CW) < n
            THEN Shown(t, a, b) ELSE <<DEFAULT_BG>>

\* A view of a terminal that fits does, too.
LEMMA ViewFits ==
    ASSUME NEW t, Fits(t), NEW u, u \in Terminal, SameGrid(t, u)
    PROVE  /\ Fits(u) /\ (CursorIn(t) => CursorIn(u))
           /\ \A a, b : Shown(u, a, b) = Shown(t, a, b)
<1>1. Fits(u)
  BY DEF Fits, SameGrid
<1>2. CursorIn(t) => CursorIn(u)
  BY DEF CursorIn, SameGrid
<1>3. \A a, b : Shown(u, a, b) = Shown(t, a, b)
  BY ZenonT(60) DEF Shown, SameGrid
<1> QED
  BY <1>1, <1>2, <1>3

\* The window is cleared up to the pixels it has, not up to the end of the buffer.
LEMMA ClearFacts ==
    ASSUME NEW t, Fits(t)
    PROVE  gfx_clear(t) \in Views(t) /\ ShownTo(t, gfx_clear(t), 0)
<1> DEFINE f == [i \in DOMAIN t.fb |-> IF i < t.width * t.height THEN <<DEFAULT_BG>> ELSE t.fb[i]]
<1>1. t \in Terminal /\ t.width * t.height <= FB /\ t.fb \in [0 .. FB - 1 -> Pixels] /\ FB \in Nat
  BY TermConstants DEF Fits, Terminal
<1>2. <<DEFAULT_BG>> \in Pixels
  BY DEF Pixels, Colors
<1>3. f \in [0 .. FB - 1 -> Pixels]
  BY <1>1, <1>2
<1>4. ASSUME NEW a \in 0 .. t.width - 1, NEW b \in 0 .. t.height - 1
      PROVE  f[b * t.width + a] = <<DEFAULT_BG>>
  <2>1. t.width \in Nat /\ t.height \in Nat
    BY <1>1 DEF Terminal
  <2>2. b * t.width + a \in 0 .. t.width * t.height - 1 /\ t.width * t.height \in Nat
    BY <2>1, InArray
  <2>3. b * t.width + a \in 0 .. FB - 1 /\ b * t.width + a < t.width * t.height
    BY <1>1, <2>2
  <2> QED
    BY <1>1, <2>3
<1>5. PICK u : u = gfx_clear(t)
  OBVIOUS
<1>6. u = [t EXCEPT !.fb = f]
  BY <1>5 DEF gfx_clear
<1> HIDE DEF f
<1>7. u \in Terminal /\ SameGrid(t, u) /\ u.fb = f
  BY <1>1, <1>3, <1>6 DEF Terminal, SameGrid
<1>8. ASSUME NEW a \in Nat, NEW b \in Nat
      PROVE  ~ (/\ a \div CW < t.cols /\ b \div CH < t.rows
                /\ (b \div CH) * t.cols + (a \div CW) < 0)
  <2>1. a \div CW \in Nat /\ b \div CH \in Nat /\ t.cols \in Nat
    BY Divide, GridFacts
  <2>2. (b \div CH) * t.cols \in Nat
    BY <2>1
  <2> QED
    BY <2>1, <2>2
<1>9. ShownTo(t, u, 0)
  <2>1. ASSUME NEW a \in 0 .. t.width - 1, NEW b \in 0 .. t.height - 1
        PROVE  u.fb[b * t.width + a] =
                  IF /\ a \div CW < t.cols /\ b \div CH < t.rows
                     /\ (b \div CH) * t.cols + (a \div CW) < 0
                  THEN Shown(t, a, b) ELSE <<DEFAULT_BG>>
    <3>1. a \in Nat /\ b \in Nat
      OBVIOUS
    <3> QED
      BY <1>4, <1>7, <1>8, <3>1
  <2> QED
    BY <2>1 DEF ShownTo
<1> QED
  BY <1>5, <1>7, <1>9 DEF Views

\* Round i of the loop of term_redraw_full makes cell i right and keeps the others.
LEMMA RoundFacts ==
    ASSUME NEW t, Fits(t), NEW i, i \in 0 .. t.cols * t.rows - 1, NEW u, u \in Views(t)
    PROVE  /\ Redrawn(t, i, u) \in Views(t)
           /\ ShownTo(t, u, i) => ShownTo(t, Redrawn(t, i, u), i + 1)
<1>1. /\ CW \in Nat \ {0} /\ CH \in Nat \ {0} /\ t.width \in Nat \ {0} /\ t.height \in Nat \ {0}
      /\ t.cols \in Nat \ {0} /\ t.rows \in Nat \ {0} /\ t.cols * t.rows \in Nat /\ i \in Nat
  BY GridFacts
<1>2. PICK x, y : x = i % t.cols /\ y = i \div t.cols
  OBVIOUS
<1>3. /\ x \in 0 .. t.cols - 1 /\ y \in Nat /\ y * t.cols \in Nat /\ i = y * t.cols + x
  BY <1>1, <1>2, Divide
<1>4. y \in 0 .. t.rows - 1
  <2>1. PICK q \in Nat : q = t.rows - 1
    BY <1>1
  <2>2. q * t.cols + t.cols = t.cols * t.rows
    BY <1>1, <2>1
  <2>3. q < y <=> q * t.cols + t.cols <= i
    BY <1>1, <1>2, Between
  <2>4. ~ (q < y)
    BY <1>1, <2>2, <2>3
  <2> QED
    BY <1>1, <1>3, <2>1, <2>4
<1>5. u \in Terminal /\ SameGrid(t, u)
  BY DEF Views
<1>6. Fits(u) /\ \A a, b : Shown(u, a, b) = Shown(t, a, b)
  BY <1>5, ViewFits
<1>7. PICK v : v = Redrawn(t, i, u)
  OBVIOUS
\* Cells other than i come before i if they come before i + 1.
<1>8. ASSUME NEW c \in Nat, NEW r \in Nat, c < t.cols
      PROVE  /\ r * t.cols + c = i <=> c = x /\ r = y
             /\ r * t.cols + c \in Nat
  <2>1. c \in 0 .. t.cols - 1
    BY <1>1, <1>8
  <2>2. r * t.cols + c = y * t.cols + x => r = y /\ c = x
    <3>1. t.cols \in Nat \ {0} /\ x \in 0 .. t.cols - 1 /\ y \in Nat
      BY <1>1, <1>3
    <3>2. PICK n \in Nat \ {0} : n = t.cols
      BY <3>1
    <3>3. c \in 0 .. n - 1 /\ x \in 0 .. n - 1 /\ y \in Nat
      BY <2>1, <3>1, <3>2
    <3>4. r * n + c = y * n + x => r = y /\ c = x
      BY <3>3, OnePlace
    <3> QED
      BY <3>2, <3>4
  <2>3. r * t.cols \in Nat
    BY <1>1
  <2> QED
    BY <1>3, <2>2, <2>3
<1>9. CASE \/ t.text_buffer[i].c # " " \/ t.text_buffer[i].bg # DEFAULT_BG
           \/ i % t.cols = t.cursor_x /\ i \div t.cols = t.cursor_y
  <2>1. v = draw_cell(u, x, y)
    BY <1>2, <1>7, <1>9 DEF Redrawn
  <2>2. x \in 0 .. u.cols - 1 /\ y \in 0 .. u.rows - 1
    BY <1>3, <1>4, <1>5 DEF SameGrid
  <2>3. DrawnAt(u, v, x, y)
    BY <1>6, <2>1, <2>2, CellFacts
  <2>4. v \in Terminal /\ SameGrid(u, v)
    BY <2>3 DEF DrawnAt
  <2>5. v \in Views(t)
    BY <1>5, <2>4, Zenon DEF Views, SameGrid
  <2>6. ASSUME ShownTo(t, u, i), NEW a \in 0 .. t.width - 1, NEW b \in 0 .. t.height - 1
        PROVE  v.fb[b * t.width + a] =
                  IF /\ a \div CW < t.cols /\ b \div CH < t.rows
                     /\ (b \div CH) * t.cols + (a \div CW) < i + 1
                  THEN Shown(t, a, b) ELSE <<DEFAULT_BG>>
    <3>1. PICK c, r : c = a \div CW /\ r = b \div CH
      OBVIOUS
    <3>2. a \in Nat /\ b \in Nat /\ c \in Nat /\ r \in Nat
      <4>1. a \in Nat /\ b \in Nat /\ CW \in Nat \ {0} /\ CH \in Nat \ {0}
        BY <1>1
      <4> QED
        BY <3>1, <4>1, Divide
    <3>3. u.width = t.width /\ u.height = t.height
      BY <1>5 DEF SameGrid
    <3>4. v.fb[b * t.width + a] = IF c = x /\ r = y THEN Shown(t, a, b)
                                  ELSE u.fb[b * t.width + a]
      BY <1>6, <2>3, <3>1, <3>3 DEF DrawnAt
    <3>5. u.fb[b * t.width + a] = IF c < t.cols /\ r < t.rows /\ r * t.cols + c < i
                                  THEN Shown(t, a, b) ELSE <<DEFAULT_BG>>
      BY <2>6, <3>1 DEF ShownTo
    <3>6. CASE c = x /\ r = y
      <4>1. c < t.cols /\ r < t.rows /\ r * t.cols + c < i + 1
        BY <1>1, <1>3, <1>4, <3>6
      <4> QED
        BY <3>1, <3>4, <3>6, <4>1
    <3>7. CASE ~ (c = x /\ r = y)
      <4>1. c < t.cols => (r * t.cols + c < i <=> r * t.cols + c < i + 1)
        <5> SUFFICES ASSUME c < t.cols
                     PROVE  r * t.cols + c < i <=> r * t.cols + c < i + 1
          OBVIOUS
        <5>1. PICK j \in Nat : j = r * t.cols + c
          BY <1>8, <3>2
        <5>2. j # i
          BY <1>8, <3>2, <3>7, <5>1
        <5> QED
          BY <1>1, <5>1, <5>2
      <4> QED
        BY <3>1, <3>4, <3>5, <3>7, <4>1
    <3> QED
      BY <3>6, <3>7
  <2>7. ShownTo(t, u, i) => ShownTo(t, v, i + 1)
    BY <2>6 DEF ShownTo
  <2> QED
    BY <1>7, <2>5, <2>7
<1>10. CASE ~ (\/ t.text_buffer[i].c # " " \/ t.text_buffer[i].bg # DEFAULT_BG
               \/ i % t.cols = t.cursor_x /\ i \div t.cols = t.cursor_y)
  <2>1. v = u
    BY <1>7, <1>10 DEF Redrawn
  <2>2. t.text_buffer[i].c = " " /\ t.text_buffer[i].bg = DEFAULT_BG
        /\ ~ (x = t.cursor_x /\ y = t.cursor_y)
    BY <1>2, <1>10
  <2>3. ASSUME ShownTo(t, u, i), NEW a \in 0 .. t.width - 1, NEW b \in 0 .. t.height - 1
        PROVE  v.fb[b * t.width + a] =
                  IF /\ a \div CW < t.cols /\ b \div CH < t.rows
                     /\ (b \div CH) * t.cols + (a \div CW) < i + 1
                  THEN Shown(t, a, b) ELSE <<DEFAULT_BG>>
    <3>1. PICK c, r : c = a \div CW /\ r = b \div CH
      OBVIOUS
    <3>2. a \in Nat /\ b \in Nat /\ c \in Nat /\ r \in Nat
      <4>1. a \in Nat /\ b \in Nat /\ CW \in Nat \ {0} /\ CH \in Nat \ {0}
        BY <1>1
      <4> QED
        BY <3>1, <4>1, Divide
    <3>3. v.fb[b * t.width + a] = IF c < t.cols /\ r < t.rows /\ r * t.cols + c < i
                                  THEN Shown(t, a, b) ELSE <<DEFAULT_BG>>
      BY <2>1, <2>3, <3>1 DEF ShownTo
    <3>4. CASE c = x /\ r = y
      <4>1. c < t.cols /\ r < t.rows /\ r * t.cols + c = i
        BY <1>1, <1>3, <1>4, <3>4
      <4>2. ~ (c >= t.cols) /\ ~ (r >= t.rows)
        BY <1>1, <1>3, <1>4, <3>4
      <4>3. Shown(t, a, b) = Pixel(t.text_buffer[i].c, t.text_buffer[i].fg,
                                   t.text_buffer[i].bg, b % CH, a % CW)
        BY <2>2, <3>1, <3>4, <4>1, <4>2 DEF Shown
      <4>4. Shown(t, a, b) = <<DEFAULT_BG>>
        BY <2>2, <4>3 DEF Pixel
      <4> QED
        BY <3>3, <4>4
    <3>5. CASE ~ (c = x /\ r = y)
      <4>1. c < t.cols => (r * t.cols + c < i <=> r * t.cols + c < i + 1)
        <5> SUFFICES ASSUME c < t.cols
                     PROVE  r * t.cols + c < i <=> r * t.cols + c < i + 1
          OBVIOUS
        <5>1. PICK j \in Nat : j = r * t.cols + c
          BY <1>8, <3>2
        <5>2. j # i
          BY <1>8, <3>2, <3>5, <5>1
        <5> QED
          BY <1>1, <5>1, <5>2
      <4> QED
        BY <3>1, <3>3, <4>1
    <3> QED
      BY <3>4, <3>5
  <2>4. ShownTo(t, u, i) => ShownTo(t, v, i + 1)
    BY <2>3 DEF ShownTo
  <2> QED
    BY <1>7, <2>1, <2>4
<1> QED
  BY <1>9, <1>10

\* A terminal whose whole window is to be reported.
LEMMA DirtyFacts ==
    ASSUME NEW t, t \in Terminal, NEW u, u = AllDirty(t)
    PROVE  /\ u \in Terminal /\ SameGrid(t, u) /\ u.fb = t.fb
           /\ \A a \in 0 .. t.width - 1, b \in 0 .. t.height - 1 : Inside(a, b, u.last_update)
<1>1. t.width \in Nat /\ t.height \in Nat
  BY DEF Terminal
<1>2. PICK r : r = [x |-> 0, y |-> 0, w |-> t.width, h |-> t.height, dirty |-> TRUE]
  OBVIOUS
<1>3. r \in Rect
  <2>1. \A w, h \in Nat, d \in BOOLEAN : [x |-> 0, y |-> 0, w |-> w, h |-> h, dirty |-> d] \in Rect
    BY RectType
  <2>2. [x |-> 0, y |-> 0, w |-> t.width, h |-> t.height, dirty |-> TRUE] \in Rect
    BY <1>1, <2>1
  <2> QED
    BY <1>2, <2>2, Zenon
<1>4. u = [t EXCEPT !.last_update = r]
  BY <1>2 DEF AllDirty
<1>5. u \in Terminal /\ SameGrid(t, u) /\ u.fb = t.fb /\ u.last_update = r
  BY <1>3, <1>4 DEF Terminal, SameGrid
<1>6. r.x = 0 /\ r.y = 0 /\ r.w = t.width /\ r.h = t.height /\ r.dirty = TRUE
  BY <1>2
<1>7. r.x .. r.x + r.w - 1 = 0 .. t.width - 1 /\ r.y .. r.y + r.h - 1 = 0 .. t.height - 1
  BY <1>1, <1>6
<1>8. \A a \in 0 .. t.width - 1, b \in 0 .. t.height - 1 : Inside(a, b, r)
  BY <1>6, <1>7, Zenon DEF Inside
<1> QED
  BY <1>5, <1>8

\* Once all cells are drawn the window is right.
LEMMA AllShown ==
    ASSUME NEW t, Fits(t), NEW u, u \in Views(t), ShownTo(t, u, t.cols * t.rows)
    PROVE  \A a \in 0 .. t.width - 1, b \in 0 .. t.height - 1 :
               u.fb[b * t.width + a] = Shown(t, a, b)
<1> SUFFICES ASSUME NEW a \in 0 .. t.width - 1, NEW b \in 0 .. t.height - 1
             PROVE  u.fb[b * t.width + a] = Shown(t, a, b)
  OBVIOUS
<1>1. /\ CW \in Nat \ {0} /\ CH \in Nat \ {0} /\ a \in Nat /\ b \in Nat
      /\ t.cols \in Nat /\ t.rows \in Nat /\ t.cols * t.rows \in Nat
  BY GridFacts
<1>2. PICK c, r : c = a \div CW /\ r = b \div CH
  OBVIOUS
<1>3. c \in Nat /\ r \in Nat
  BY <1>1, <1>2, Divide
<1>4. u.fb[b * t.width + a] = IF c < t.cols /\ r < t.rows /\ r * t.cols + c < t.cols * t.rows
                              THEN Shown(t, a, b) ELSE <<DEFAULT_BG>>
  BY <1>2 DEF ShownTo
<1>5. CASE c < t.cols /\ r < t.rows
  <2>1. c \in 0 .. t.cols - 1 /\ r \in 0 .. t.rows - 1
    BY <1>1, <1>3, <1>5
  <2>2. r * t.cols + c \in 0 .. t.cols * t.rows - 1
    BY <2>1, GridFacts
  <2>3. r * t.cols + c < t.cols * t.rows
    BY <1>1, <2>2
  <2> QED
    BY <1>4, <1>5, <2>3
<1>6. CASE ~ (c < t.cols /\ r < t.rows)
  <2>1. c >= t.cols \/ r >= t.rows
    BY <1>1, <1>3, <1>6
  <2>2. Shown(t, a, b) = <<DEFAULT_BG>>
    BY <1>2, <2>1 DEF Shown
  <2> QED
    BY <1>4, <1>6, <2>2
<1> QED
  BY <1>5, <1>6

\* term_redraw_full shows the grid, and all of the window is to be reported.
LEMMA RedrawFacts ==
    ASSUME NEW t, Fits(t), NEW u, u = term_redraw_full(t)
    PROVE  /\ u \in Terminal /\ SameGrid(t, u) /\ Fits(u) /\ Exact(u)
           /\ CursorIn(t) => CursorIn(u)
           /\ \A a \in 0 .. t.width - 1, b \in 0 .. t.height - 1 : Inside(a, b, u.last_update)
<1>1. PICK N \in Nat : N = t.cols * t.rows
  BY GridFacts
<1>2. PICK S : S = Views(t)
  OBVIOUS
<1>3. PICK a : a = gfx_clear(t)
  OBVIOUS
<1>4. a \in S /\ ShownTo(t, a, 0)
  BY <1>2, <1>3, ClearFacts
<1>5. \A k \in 0 .. N - 1, v \in S :
          Redrawn(t, k, v) \in S /\ (ShownTo(t, v, k) => ShownTo(t, Redrawn(t, k, v), k + 1))
  BY <1>1, <1>2, RoundFacts
<1>6. PICK G : G = [k \in 0 .. N - 1 |-> [v \in S |-> Redrawn(t, k, v)]]
  OBVIOUS
<1>7. Turns(S, N, G)
  <2>1. \A k \in 0 .. N - 1 : [v \in S |-> Redrawn(t, k, v)] \in [S -> S]
    BY <1>5
  <2> QED
    BY <1>6, <2>1 DEF Turns
<1>8. PICK f : Loops(S, a, N, G, f)
  BY <1>4, <1>7, LoopRuns
<1> DEFINE Val(g, n) == IF n = 0 THEN gfx_clear(t) ELSE Redrawn(t, n - 1, g[n - 1])
           Is(g) == g = [n \in 0 .. t.cols * t.rows |-> Val(g, n)]
           Drawn == CHOOSE g : Is(g)
<1>9. Is(f)
  <2>1. ASSUME NEW n \in 0 .. N  PROVE f[n] = Val(f, n)
    <3>1. CASE n = 0
      BY <1>3, <1>8, <3>1 DEF Loops
    <3>2. CASE n # 0
      <4>1. n - 1 \in 0 .. N - 1 /\ (n - 1) + 1 = n /\ n - 1 \in 0 .. N
        BY <3>2
      <4>2. f[n] = G[n - 1][f[n - 1]] /\ f[n - 1] \in S
        BY <1>8, <4>1 DEF Loops
      <4>3. G[n - 1][f[n - 1]] = Redrawn(t, n - 1, f[n - 1])
        BY <1>6, <4>1, <4>2
      <4> QED
        BY <3>2, <4>2, <4>3
    <3> QED
      BY <3>1, <3>2
  <2>2. f = [n \in 0 .. N |-> f[n]]
    BY <1>8 DEF Loops
  <2> HIDE DEF Val
  <2> QED
    BY <1>1, <2>1, <2>2
<1>10. Is(Drawn)
  <2> HIDE DEF Is
  <2> QED
    BY <1>9
<1>11. u = AllDirty(Drawn[t.cols * t.rows])
  BY DEF term_redraw_full
<1> HIDE DEF Drawn
<1>12. \A n \in 0 .. N : Drawn[n] = Val(Drawn, n)
  <2> HIDE DEF Val
  <2> QED
    BY <1>1, <1>10
<1>13. PICK H : H = {n \in 0 .. N : Drawn[n] \in S /\ ShownTo(t, Drawn[n], n)}
  OBVIOUS
<1>14. 0 \in H
  <2>1. 0 \in 0 .. N /\ Drawn[0] = a
    BY <1>3, <1>12
  <2> QED
    BY <1>4, <1>13, <2>1
<1>15. ASSUME NEW k \in 0 .. N - 1, k \in H  PROVE k + 1 \in H
  <2>1. k + 1 \in 0 .. N /\ k + 1 # 0 /\ (k + 1) - 1 = k
    OBVIOUS
  <2>2. Drawn[k + 1] = Redrawn(t, k, Drawn[k])
    BY <1>12, <2>1
  <2>3. Drawn[k] \in S /\ ShownTo(t, Drawn[k], k)
    BY <1>13, <1>15
  <2>4. Redrawn(t, k, Drawn[k]) \in S /\ ShownTo(t, Redrawn(t, k, Drawn[k]), k + 1)
    BY <1>5, <2>3
  <2> QED
    BY <1>13, <2>1, <2>2, <2>4
<1>16. N \in H
  BY <1>14, <1>15, Rounds
<1>17. PICK v : v = Drawn[N]
  OBVIOUS
<1>18. v \in Views(t) /\ ShownTo(t, v, t.cols * t.rows) /\ u = AllDirty(v)
  BY <1>1, <1>2, <1>11, <1>13, <1>16, <1>17
<1>19. v \in Terminal /\ SameGrid(t, v)
  BY <1>18 DEF Views
<1>20. /\ u \in Terminal /\ SameGrid(v, u) /\ u.fb = v.fb
       /\ \A c \in 0 .. v.width - 1, b \in 0 .. v.height - 1 : Inside(c, b, u.last_update)
  BY <1>18, <1>19, DirtyFacts
<1>21. SameGrid(t, u) /\ v.width = t.width /\ v.height = t.height
       /\ u.width = t.width /\ u.height = t.height
  BY <1>19, <1>20, Zenon DEF SameGrid
<1>22. Fits(u) /\ (CursorIn(t) => CursorIn(u)) /\ \A c, b : Shown(u, c, b) = Shown(t, c, b)
  BY <1>20, <1>21, ViewFits
<1>23. Exact(u)
  <2>1. \A c \in 0 .. t.width - 1, b \in 0 .. t.height - 1 :
            v.fb[b * t.width + c] = Shown(t, c, b)
    BY <1>18, AllShown
  <2>2. ASSUME NEW c \in 0 .. u.width - 1, NEW b \in 0 .. u.height - 1
        PROVE  u.fb[b * u.width + c] = Shown(u, c, b)
    BY <1>20, <1>21, <1>22, <2>1
  <2> QED
    BY <2>2 DEF Exact
<1>24. \A c \in 0 .. t.width - 1, b \in 0 .. t.height - 1 : Inside(c, b, u.last_update)
  BY <1>20, <1>21
<1> QED
  BY <1>20, <1>21, <1>22, <1>23, <1>24

-----------------------------------------------------------------------------
(***************************************************************************)
(* Characters.                                                             *)
(***************************************************************************)

\* A grid is one of the values that text_buffer has.
LEMMA GridType ==
    ASSUME NEW n \in Nat, NEW g \in [0 .. n - 1 -> GridCell]
    PROVE  g \in Grids
  BY DEF Grids

\* A blank in the current colours.
LEMMA CellType ==
    ASSUME NEW t, t \in Terminal, NEW c \in Glyphs
    PROVE  [c |-> c, fg |-> t.fg_color, bg |-> t.bg_color] \in GridCell
  BY DEF Terminal, GridCell

\* u is t after a change of the text and of the cursor only.
SameWindow(t, u) ==
    /\ u.width = t.width /\ u.height = t.height /\ u.cols = t.cols /\ u.rows = t.rows
    /\ u.fb = t.fb /\ u.last_update = t.last_update /\ u.broken = t.broken
    /\ u.ansi_param_count = t.ansi_param_count

\* A terminal with the window of one that fits and a grid of that size fits.
LEMMA WindowFits ==
    ASSUME NEW t, Fits(t), NEW u, u \in Terminal, SameWindow(t, u),
           u.text_buffer \in [0 .. t.cols * t.rows - 1 -> GridCell]
    PROVE  Fits(u)
  BY DEF Fits, SameWindow

\* The cell that Put writes, and those it leaves alone.
LEMMA PutFacts ==
    ASSUME NEW t, Fits(t), NEW x, x \in 0 .. t.cols - 1, NEW y, y \in 0 .. t.rows - 1,
           NEW c \in Glyphs, NEW u, u = Put(t, x, y, c)
    PROVE  /\ Fits(u) /\ SameWindow(t, u) /\ u.cursor_x = t.cursor_x /\ u.cursor_y = t.cursor_y
           /\ \A i \in 0 .. t.cols * t.rows - 1 :
                 i # y * t.cols + x => u.text_buffer[i] = t.text_buffer[i]
<1>1. PICK i : i = y * t.cols + x
  OBVIOUS
<1>2. PICK cell : cell = [c |-> c, fg |-> t.fg_color, bg |-> t.bg_color]
  OBVIOUS
<1>3. t \in Terminal /\ t.text_buffer \in [0 .. t.cols * t.rows - 1 -> GridCell]
  BY DEF Fits
<1>4. cell \in GridCell
  BY <1>2, <1>3, CellType
<1>5. i \in 0 .. t.cols * t.rows - 1 /\ t.cols * t.rows \in Nat
  BY <1>1, GridFacts
<1>6. PICK g : g = [t.text_buffer EXCEPT ![i] = cell]
  OBVIOUS
<1>7. g \in [0 .. t.cols * t.rows - 1 -> GridCell]
  BY <1>3, <1>4, <1>6
<1>8. g \in Grids
  <2>1. PICK n \in Nat : n = t.cols * t.rows
    BY <1>5
  <2> QED
    BY <1>7, <2>1, GridType
<1>9. u = [t EXCEPT !.text_buffer = g]
  BY <1>1, <1>2, <1>3, <1>5, <1>6 DEF Put
<1>10. /\ u \in Terminal /\ SameWindow(t, u) /\ u.text_buffer = g
       /\ u.cursor_x = t.cursor_x /\ u.cursor_y = t.cursor_y
  BY <1>3, <1>8, <1>9 DEF Terminal, SameWindow
<1>11. Fits(u)
  BY <1>7, <1>10, WindowFits
<1>12. \A j \in 0 .. t.cols * t.rows - 1 : j # i => g[j] = t.text_buffer[j]
  BY <1>3, <1>6
<1> QED
  BY <1>1, <1>10, <1>11, <1>12

\* A move of the cursor.
MovedTo(t, x, y) == [t EXCEPT !.cursor_x = x, !.cursor_y = y]

\* A move changes nothing but the cursor.
LEMMA MoveFacts ==
    ASSUME NEW t, Fits(t), NEW x \in Nat, NEW y \in Nat, NEW u, u = MovedTo(t, x, y)
    PROVE  /\ Fits(u) /\ SameWindow(t, u) /\ u.text_buffer = t.text_buffer
           /\ u.cursor_x = x /\ u.cursor_y = y
<1>1. t \in Terminal /\ t.text_buffer \in [0 .. t.cols * t.rows - 1 -> GridCell]
  BY DEF Fits
<1>2. /\ u \in Terminal /\ SameWindow(t, u) /\ u.text_buffer = t.text_buffer
      /\ u.cursor_x = x /\ u.cursor_y = y
  BY <1>1 DEF Terminal, SameWindow, MovedTo
<1> QED
  BY <1>1, <1>2, WindowFits

\* u is t after a character: the cursor is at most one line below the grid, and the
\* text has changed at most where the cursor was or is.
Moved(t, u) ==
    /\ Fits(u) /\ SameWindow(t, u)
    /\ u.cursor_x \in 0 .. t.cols - 1 /\ u.cursor_y \in 0 .. t.rows
    /\ \A x \in 0 .. t.cols - 1, y \in 0 .. t.rows - 1 :
          \/ x = t.cursor_x /\ y = t.cursor_y
          \/ x = u.cursor_x /\ y = u.cursor_y
          \/ u.text_buffer[y * t.cols + x] = t.text_buffer[y * t.cols + x]

\* A cell of the grid has its own place in text_buffer.
LEMMA OtherCell ==
    ASSUME NEW t, Fits(t), NEW x, x \in 0 .. t.cols - 1, NEW y, y \in 0 .. t.rows - 1,
           NEW c, c \in 0 .. t.cols - 1, NEW d, d \in 0 .. t.rows - 1, ~ (x = c /\ y = d)
    PROVE  y * t.cols + x # d * t.cols + c
<1>1. t.cols \in Nat \ {0} /\ t.rows \in Nat
  BY GridFacts
<1>2. PICK n \in Nat \ {0} : n = t.cols
  BY <1>1
<1>3. x \in 0 .. n - 1 /\ c \in 0 .. n - 1 /\ y \in Nat /\ d \in Nat
  BY <1>1, <1>2
<1>4. y * n + x = d * n + c => y = d /\ x = c
  BY <1>3, OnePlace
<1> QED
  BY <1>2, <1>4

\* The cases of Advanced.
LEMMA AdvancedFacts ==
    ASSUME NEW t, Fits(t), CursorIn(t), NEW c \in Glyphs, NEW u, u = Advanced(t, c)
    PROVE  Moved(t, u)
<1>1. /\ t \in Terminal /\ t.cols \in Nat \ {0} /\ t.rows \in Nat \ {0}
      /\ t.cursor_x \in 0 .. t.cols - 1 /\ t.cursor_y \in 0 .. t.rows - 1
  <2>1. t \in Terminal /\ t.cursor_x \in Nat /\ t.cursor_y \in Nat
    BY DEF Fits, Terminal
  <2> QED
    BY <2>1, GridFacts DEF CursorIn
<1> DEFINE right == [t EXCEPT !.cursor_x = @ + 1]
           back == IF t.cursor_x > 0 THEN [t EXCEPT !.cursor_x = @ - 1]
                   ELSE IF t.cursor_y > 0
                        THEN [t EXCEPT !.cursor_y = t.cursor_y - 1, !.cursor_x = t.cols - 1]
                        ELSE t
           next == [t EXCEPT !.cursor_x = 0, !.cursor_y = t.cursor_y + 1]
           put == Put(IF right.cursor_x >= t.cols THEN next ELSE right,
                      t.cursor_x, t.cursor_y, c)
<1>2. NEWLINE # BACKSPACE
  BY DEF NEWLINE, BACKSPACE
<1>3. /\ c = NEWLINE => u = next
      /\ c = BACKSPACE => u = Put(back, back.cursor_x, back.cursor_y, " ")
      /\ c # NEWLINE /\ c # BACKSPACE => u = put
  <2>1. c = NEWLINE => u = next
    BY <1>2 DEF Advanced
  <2>2. c = BACKSPACE => u = Put(back, back.cursor_x, back.cursor_y, " ")
    BY <1>2 DEF Advanced
  <2>3. c # NEWLINE /\ c # BACKSPACE => u = put
    BY <1>2 DEF Advanced
  <2> QED
    BY <2>1, <2>2, <2>3
<1>4. /\ Fits(next) /\ SameWindow(t, next) /\ next.text_buffer = t.text_buffer
      /\ next.cursor_x = 0 /\ next.cursor_y = t.cursor_y + 1
  <2>1. next = MovedTo(t, 0, t.cursor_y + 1)
    BY <1>1 DEF Terminal, MovedTo
  <2>2. PICK x \in Nat, y \in Nat : x = 0 /\ y = t.cursor_y + 1
    BY <1>1
  <2>3. PICK v : v = next
    OBVIOUS
  <2> HIDE DEF next
  <2>4. v = MovedTo(t, x, y)
    BY <2>1, <2>2, <2>3
  <2>5. /\ Fits(v) /\ SameWindow(t, v) /\ v.text_buffer = t.text_buffer
        /\ v.cursor_x = x /\ v.cursor_y = y
    BY <2>4, MoveFacts
  <2> QED
    BY <2>2, <2>3, <2>5
<1>5. /\ Fits(right) /\ SameWindow(t, right) /\ right.text_buffer = t.text_buffer
      /\ right.cursor_x = t.cursor_x + 1 /\ right.cursor_y = t.cursor_y
  <2>1. right = MovedTo(t, t.cursor_x + 1, t.cursor_y)
    BY <1>1 DEF Terminal, MovedTo
  <2>2. PICK x \in Nat, y \in Nat : x = t.cursor_x + 1 /\ y = t.cursor_y
    BY <1>1
  <2>3. PICK v : v = right
    OBVIOUS
  <2> HIDE DEF right
  <2>4. v = MovedTo(t, x, y)
    BY <2>1, <2>2, <2>3
  <2>5. /\ Fits(v) /\ SameWindow(t, v) /\ v.text_buffer = t.text_buffer
        /\ v.cursor_x = x /\ v.cursor_y = y
    BY <2>4, MoveFacts
  <2> QED
    BY <2>2, <2>3, <2>5
<1>6. /\ Fits(back) /\ SameWindow(t, back) /\ back.text_buffer = t.text_buffer
      /\ back.cursor_x \in 0 .. t.cols - 1 /\ back.cursor_y \in 0 .. t.rows - 1
  <2>1. PICK x, y : /\ x \in 0 .. t.cols - 1 /\ y \in 0 .. t.rows - 1
                    /\ back = MovedTo(t, x, y)
    <3>1. CASE t.cursor_x > 0
      <4>1. back = MovedTo(t, t.cursor_x - 1, t.cursor_y)
        BY <1>1, <3>1 DEF Terminal, MovedTo
      <4>2. t.cursor_x - 1 \in 0 .. t.cols - 1
        BY <1>1, <3>1
      <4> QED
        BY <1>1, <4>1, <4>2
    <3>2. CASE ~ (t.cursor_x > 0) /\ t.cursor_y > 0
      <4>1. back = MovedTo(t, t.cols - 1, t.cursor_y - 1)
        BY <1>1, <3>2 DEF Terminal, MovedTo
      <4>2. t.cols - 1 \in 0 .. t.cols - 1 /\ t.cursor_y - 1 \in 0 .. t.rows - 1
        BY <1>1, <3>2
      <4> QED
        BY <1>1, <4>1, <4>2
    <3>3. CASE ~ (t.cursor_x > 0) /\ ~ (t.cursor_y > 0)
      <4>1. back = MovedTo(t, t.cursor_x, t.cursor_y)
        BY <1>1, <3>3 DEF Terminal, MovedTo
      <4> QED
        BY <1>1, <4>1
    <3> QED
      BY <3>1, <3>2, <3>3
  <2>2. x \in Nat /\ y \in Nat
    BY <2>1
  <2>3. PICK v : v = back
    OBVIOUS
  <2> HIDE DEF back
  <2>4. v = MovedTo(t, x, y)
    BY <2>1, <2>3
  <2>5. /\ Fits(v) /\ SameWindow(t, v) /\ v.text_buffer = t.text_buffer
        /\ v.cursor_x = x /\ v.cursor_y = y
    BY <2>2, <2>4, MoveFacts
  <2> QED
    BY <2>1, <2>3, <2>5
<1> HIDE DEF next, right, back
<1>7. CASE c = NEWLINE
  <2>1. u = next
    BY <1>3, <1>7
  <2>2. u.cursor_x \in 0 .. t.cols - 1 /\ u.cursor_y \in 0 .. t.rows
    BY <1>1, <1>4, <2>1
  <2> QED
    BY <1>4, <2>1, <2>2 DEF Moved
<1>8. CASE c # NEWLINE /\ c = BACKSPACE
  <2>1. PICK v, x, y : v = back /\ x = v.cursor_x /\ y = v.cursor_y
    OBVIOUS
  <2>2. u = Put(v, x, y, " ") /\ Fits(v)
    BY <1>3, <1>6, <1>8, <2>1
  <2>3. v.cols = t.cols /\ v.rows = t.rows
    BY <1>6, <2>1 DEF SameWindow
  <2>4. x \in 0 .. v.cols - 1 /\ y \in 0 .. v.rows - 1
    BY <1>6, <2>1, <2>3
  <2>5. PICK s \in Glyphs : u = Put(v, x, y, s)
    BY <2>2 DEF Glyphs
  <2>6. /\ Fits(u) /\ SameWindow(v, u) /\ u.cursor_x = x /\ u.cursor_y = y
        /\ \A i \in 0 .. v.cols * v.rows - 1 :
              i # y * v.cols + x => u.text_buffer[i] = v.text_buffer[i]
    <3>1. /\ Fits(u) /\ SameWindow(v, u)
          /\ u.cursor_x = v.cursor_x /\ u.cursor_y = v.cursor_y
          /\ \A i \in 0 .. v.cols * v.rows - 1 :
                i # y * v.cols + x => u.text_buffer[i] = v.text_buffer[i]
      <4>1. Fits(v)
        BY <2>2
      <4> QED
        BY <2>4, <2>5, <4>1, PutFacts
    <3> QED
      BY <2>1, <3>1
  <2>7. SameWindow(t, u)
    BY <1>6, <2>1, <2>6, Zenon DEF SameWindow
  <2>8. ASSUME NEW a \in 0 .. t.cols - 1, NEW b \in 0 .. t.rows - 1, ~ (a = x /\ b = y)
        PROVE  u.text_buffer[b * t.cols + a] = t.text_buffer[b * t.cols + a]
    <3>1. b * t.cols + a \in 0 .. t.cols * t.rows - 1
      BY GridFacts
    <3>2. b * t.cols + a # y * t.cols + x
      BY <2>3, <2>4, <2>8, OtherCell
    <3> QED
      BY <1>6, <2>1, <2>3, <2>6, <3>1, <3>2
  <2>9. u.cursor_x \in 0 .. t.cols - 1 /\ u.cursor_y \in 0 .. t.rows
    BY <1>1, <2>3, <2>4, <2>6
  <2> QED
    BY <2>6, <2>7, <2>8, <2>9 DEF Moved
<1>9. CASE c # NEWLINE /\ c # BACKSPACE
  <2>1. PICK v : v = IF right.cursor_x >= t.cols THEN next ELSE right
    OBVIOUS
  <2>2. u = Put(v, t.cursor_x, t.cursor_y, c)
    BY <1>3, <1>9, <2>1
  <2>3. /\ Fits(v) /\ SameWindow(t, v) /\ v.text_buffer = t.text_buffer
        /\ v.cursor_x \in 0 .. t.cols - 1 /\ v.cursor_y \in 0 .. t.rows
    <3>1. CASE right.cursor_x >= t.cols
      BY <1>1, <1>4, <2>1, <3>1
    <3>2. CASE ~ (right.cursor_x >= t.cols)
      BY <1>1, <1>5, <2>1, <3>2
    <3> QED
      BY <3>1, <3>2
  <2>4. v.cols = t.cols /\ v.rows = t.rows
    BY <2>3 DEF SameWindow
  <2>5. PICK x, y : x = t.cursor_x /\ y = t.cursor_y
    OBVIOUS
  <2>6. x \in 0 .. v.cols - 1 /\ y \in 0 .. v.rows - 1
    BY <1>1, <2>4, <2>5
  <2>7. /\ Fits(u) /\ SameWindow(v, u)
        /\ u.cursor_x = v.cursor_x /\ u.cursor_y = v.cursor_y
        /\ \A i \in 0 .. v.cols * v.rows - 1 :
              i # y * v.cols + x => u.text_buffer[i] = v.text_buffer[i]
    BY <2>2, <2>3, <2>5, <2>6, PutFacts
  <2>8. SameWindow(t, u)
    BY <2>3, <2>7, Zenon DEF SameWindow
  <2>9. ASSUME NEW a \in 0 .. t.cols - 1, NEW b \in 0 .. t.rows - 1, ~ (a = x /\ b = y)
        PROVE  u.text_buffer[b * t.cols + a] = t.text_buffer[b * t.cols + a]
    <3>1. b * t.cols + a \in 0 .. t.cols * t.rows - 1
      BY GridFacts
    <3>2. b * t.cols + a # y * t.cols + x
      BY <2>4, <2>6, <2>9, OtherCell
    <3> QED
      BY <2>3, <2>4, <2>7, <3>1, <3>2
  <2>10. u.cursor_x \in 0 .. t.cols - 1 /\ u.cursor_y \in 0 .. t.rows
    BY <2>3, <2>7
  <2> QED
    BY <2>5, <2>7, <2>8, <2>9, <2>10 DEF Moved
<1> QED
  BY <1>7, <1>8, <1>9

\* All that holds of a terminal between two characters.
Right(t) == Fits(t) /\ CursorIn(t) /\ Exact(t)

\* In u the pixels that t has to report, and those that changed since, are to be reported.
Tells(t, u) ==
    /\ u.width = t.width /\ u.height = t.height
    /\ \A a \in 0 .. t.width - 1, b \in 0 .. t.height - 1 :
          \/ Inside(a, b, t.last_update)
          \/ u.fb[b * t.width + a] # t.fb[b * t.width + a]
          => Inside(a, b, u.last_update)

\* A redrawn terminal reports everything.
LEMMA RedrawTells ==
    ASSUME NEW t, NEW v, Fits(v), CursorIn(v), v.width = t.width, v.height = t.height,
           NEW u, u = term_redraw_full(v)
    PROVE  Right(u) /\ Tells(t, u)
<1>1. /\ SameGrid(v, u) /\ Fits(u) /\ Exact(u) /\ CursorIn(u)
      /\ \A a \in 0 .. v.width - 1, b \in 0 .. v.height - 1 : Inside(a, b, u.last_update)
  BY RedrawFacts
<1>2. u.width = t.width /\ u.height = t.height
  BY <1>1 DEF SameGrid
<1> QED
  BY <1>1, <1>2 DEF Right, Tells

\* The last line scrolls in.
LEMMA ScrollFacts ==
    ASSUME NEW t, Fits(t), t.cursor_x \in 0 .. t.cols - 1, t.cursor_y = t.rows,
           NEW u, u = term_scroll(t)
    PROVE  Right(u) /\ Tells(t, u)
<1>1. /\ t \in Terminal /\ t.text_buffer \in [0 .. t.cols * t.rows - 1 -> GridCell]
      /\ t.cols \in Nat \ {0} /\ t.rows \in Nat \ {0} /\ t.cols * t.rows \in Nat
      /\ 0 * t.cols + 0 \in 0 .. t.cols * t.rows - 1
  <2>1. 0 \in 0 .. t.cols - 1 /\ 0 \in 0 .. t.rows - 1
    BY GridFacts
  <2>2. 0 * t.cols + 0 \in 0 .. t.cols * t.rows - 1
    BY <2>1, GridFacts
  <2> QED
    BY <2>2, GridFacts DEF Fits
<1>2. PICK cell : cell = [c |-> " ", fg |-> t.fg_color, bg |-> t.bg_color]
  OBVIOUS
<1>3. cell \in GridCell
  <2>1. " " \in Glyphs
    BY DEF Glyphs
  <2> QED
    BY <1>1, <1>2, <2>1, CellType
<1>4. PICK g : g = [i \in DOMAIN t.text_buffer |->
                      IF i + t.cols \in DOMAIN t.text_buffer THEN t.text_buffer[i + t.cols]
                      ELSE cell]
  OBVIOUS
<1>5. g \in [0 .. t.cols * t.rows - 1 -> GridCell]
  BY <1>1, <1>3, <1>4
<1>6. g \in Grids
  <2>1. PICK n \in Nat : n = t.cols * t.rows
    BY <1>1
  <2> QED
    BY <1>5, <2>1, GridType
<1>7. PICK y : y = t.cursor_y - 1
  OBVIOUS
<1>8. y \in Nat /\ y < t.rows /\ t.cursor_y > 0
  BY <1>1, <1>7
<1>9. PICK v : v = [t EXCEPT !.cursor_y = y, !.text_buffer = g]
  OBVIOUS
<1>10. DOMAIN t.text_buffer # {}
  BY <1>1
<1>11. y = IF t.cursor_y > 0 THEN t.cursor_y - 1 ELSE t.cursor_y
  BY <1>7, <1>8
<1>12. u = term_redraw_full(v)
  BY <1>2, <1>4, <1>9, <1>10, <1>11 DEF term_scroll
<1>13. /\ v \in Terminal /\ SameWindow(t, v) /\ v.text_buffer = g
       /\ v.cursor_x = t.cursor_x /\ v.cursor_y = y
  BY <1>1, <1>6, <1>8, <1>9 DEF Terminal, SameWindow
<1>14. Fits(v)
  BY <1>5, <1>13, WindowFits
<1>15. v.width = t.width /\ v.height = t.height /\ v.cols = t.cols /\ v.rows = t.rows
  BY <1>13 DEF SameWindow
<1>16. CursorIn(v)
  BY <1>1, <1>8, <1>13, <1>15 DEF CursorIn
<1> QED
  BY <1>12, <1>14, <1>15, <1>16, RedrawTells

\* Where neither the text nor the cursor changed, the same is to be shown.
LEMMA SameShown ==
    ASSUME NEW t, Fits(t), NEW u, Moved(t, u), NEW a \in Nat, NEW b \in Nat,
           ~ (a \div CW = t.cursor_x /\ b \div CH = t.cursor_y),
           ~ (a \div CW = u.cursor_x /\ b \div CH = u.cursor_y)
    PROVE  Shown(u, a, b) = Shown(t, a, b)
<1>1. /\ CW \in Nat \ {0} /\ CH \in Nat \ {0} /\ t.cols \in Nat /\ t.rows \in Nat
      /\ u.cols = t.cols /\ u.rows = t.rows
  BY GridFacts DEF Moved, SameWindow
<1>2. PICK c, r : c = a \div CW /\ r = b \div CH
  OBVIOUS
<1>3. c \in Nat /\ r \in Nat
  BY <1>1, <1>2, Divide
<1>4. CASE c >= t.cols \/ r >= t.rows
  BY <1>1, <1>2, <1>4 DEF Shown
<1>5. CASE ~ (c >= t.cols \/ r >= t.rows)
  <2>1. c \in 0 .. t.cols - 1 /\ r \in 0 .. t.rows - 1
    BY <1>1, <1>3, <1>5
  <2>2. u.text_buffer[r * t.cols + c] = t.text_buffer[r * t.cols + c]
    BY <1>2, <2>1 DEF Moved
  <2>3. PICK cell : cell = t.text_buffer[r * t.cols + c]
    OBVIOUS
  <2>4. Shown(t, a, b) = Pixel(cell.c, cell.fg, cell.bg, b % CH, a % CW)
    BY <1>2, <1>5, <2>3 DEF Shown
  <2>5. Shown(u, a, b) = Pixel(cell.c, cell.fg, cell.bg, b % CH, a % CW)
    BY <1>1, <1>2, <1>5, <2>2, <2>3 DEF Shown
  <2> QED
    BY <2>4, <2>5
<1> QED
  BY <1>4, <1>5

\* A character that is shown, or moves the cursor.
LEMMA CharFacts ==
    ASSUME NEW t, Right(t), NEW c \in Glyphs, NEW u, u = term_put_char(t, c)
    PROVE  Right(u) /\ Tells(t, u)
<1>1. Fits(t) /\ CursorIn(t) /\ Exact(t)
  BY DEF Right
<1>2. PICK v : v = Advanced(t, c)
  OBVIOUS
<1>3. Moved(t, v)
  BY <1>1, <1>2, AdvancedFacts
<1>4. /\ Fits(v) /\ ~ v.broken /\ v.cols = t.cols /\ v.rows = t.rows /\ v.width = t.width
      /\ v.height = t.height /\ v.fb = t.fb /\ v.last_update = t.last_update
      /\ v.cursor_x \in 0 .. v.cols - 1 /\ v.cursor_y \in 0 .. v.rows
  BY <1>3 DEF Moved, SameWindow, Fits
<1>5. /\ t.cols \in Nat \ {0} /\ t.rows \in Nat \ {0} /\ t.width \in Nat /\ t.height \in Nat
      /\ CW \in Nat \ {0} /\ CH \in Nat \ {0}
  BY <1>1, GridFacts
<1>6. CASE v.cursor_y >= v.rows
  <2>1. u = term_scroll(v)
    BY <1>2, <1>4, <1>6 DEF term_put_char
  <2>2. v.cursor_y = v.rows
    BY <1>4, <1>5, <1>6
  <2>3. Right(u) /\ Tells(v, u)
    BY <1>4, <2>1, <2>2, ScrollFacts
  <2> QED
    BY <1>4, <2>3 DEF Tells
<1>7. CASE ~ (v.cursor_y >= v.rows)
  <2>1. PICK x, y : x = t.cursor_x /\ y = t.cursor_y
    OBVIOUS
  <2>2. PICK p, q : p = v.cursor_x /\ q = v.cursor_y
    OBVIOUS
  <2>3. PICK m : m = draw_cell(v, x, y)
    OBVIOUS
  <2>4. u = draw_cell(m, p, q)
    BY <1>2, <1>4, <1>7, <2>1, <2>2, <2>3 DEF term_put_char
  <2>5. x \in 0 .. v.cols - 1 /\ y \in 0 .. v.rows - 1
    <3>1. x \in Nat /\ y \in Nat
      BY <1>1, <2>1 DEF Fits, Terminal
    <3>2. x < t.cols /\ y < t.rows
      BY <1>1, <2>1 DEF CursorIn
    <3> QED
      BY <1>4, <1>5, <3>1, <3>2
  <2>6. p \in 0 .. v.cols - 1 /\ q \in 0 .. v.rows - 1 /\ CursorIn(v)
    BY <1>4, <1>5, <1>7, <2>2 DEF CursorIn
  <2>7. DrawnAt(v, m, x, y)
    BY <1>4, <2>3, <2>5, CellFacts
  <2>8. m \in Terminal /\ SameGrid(v, m)
    BY <2>7 DEF DrawnAt
  <2>9. Fits(m) /\ CursorIn(m) /\ \A a, b : Shown(m, a, b) = Shown(v, a, b)
    BY <1>4, <2>6, <2>8, ViewFits
  <2>10. m.cols = v.cols /\ m.rows = v.rows /\ m.width = t.width /\ m.height = t.height
    BY <1>4, <2>8 DEF SameGrid
  <2>11. DrawnAt(m, u, p, q)
    <3>1. p \in 0 .. m.cols - 1 /\ q \in 0 .. m.rows - 1
      BY <2>6, <2>10
    <3> QED
      BY <2>4, <2>9, <3>1, CellFacts
  <2>12. u \in Terminal /\ SameGrid(m, u)
    BY <2>11 DEF DrawnAt
  <2>13. Fits(u) /\ CursorIn(u) /\ \A a, b : Shown(u, a, b) = Shown(v, a, b)
    <3>1. Fits(u) /\ CursorIn(u) /\ \A a, b : Shown(u, a, b) = Shown(m, a, b)
      BY <2>9, <2>12, ViewFits
    <3> QED
      BY <2>9, <3>1
  <2>14. u.width = t.width /\ u.height = t.height
    BY <2>10, <2>12 DEF SameGrid
  <2>15. ASSUME NEW a \in 0 .. t.width - 1, NEW b \in 0 .. t.height - 1
         PROVE  /\ a \div CW = p /\ b \div CH = q =>
                      /\ u.fb[b * t.width + a] = Shown(v, a, b)
                      /\ Inside(a, b, u.last_update)
                /\ a \div CW = x /\ b \div CH = y =>
                      /\ u.fb[b * t.width + a] = Shown(v, a, b)
                      /\ Inside(a, b, u.last_update)
                /\ ~ (a \div CW = x /\ b \div CH = y) /\ ~ (a \div CW = p /\ b \div CH = q) =>
                      /\ u.fb[b * t.width + a] = t.fb[b * t.width + a]
                      /\ Shown(v, a, b) = Shown(t, a, b)
                /\ Inside(a, b, t.last_update) => Inside(a, b, u.last_update)
    <3>1. a \in Nat /\ b \in Nat
      BY <1>5
    <3>2. m.fb[b * t.width + a] = IF a \div CW = x /\ b \div CH = y THEN Shown(v, a, b)
                                  ELSE t.fb[b * t.width + a]
      BY <1>4, <2>7 DEF DrawnAt
    <3>3. u.fb[b * t.width + a] = IF a \div CW = p /\ b \div CH = q THEN Shown(m, a, b)
                                  ELSE m.fb[b * t.width + a]
      BY <2>10, <2>11 DEF DrawnAt
    <3>4. /\ a \div CW = x /\ b \div CH = y => Inside(a, b, m.last_update)
          /\ Inside(a, b, t.last_update) => Inside(a, b, m.last_update)
      BY <1>4, <2>7, <3>1 DEF DrawnAt
    <3>5. /\ a \div CW = p /\ b \div CH = q => Inside(a, b, u.last_update)
          /\ Inside(a, b, m.last_update) => Inside(a, b, u.last_update)
      BY <2>11, <3>1 DEF DrawnAt
    <3>6. ~ (a \div CW = x /\ b \div CH = y) /\ ~ (a \div CW = p /\ b \div CH = q) =>
             Shown(v, a, b) = Shown(t, a, b)
      BY <1>1, <1>3, <2>1, <2>2, <3>1, SameShown
    <3>7. Shown(m, a, b) = Shown(v, a, b)
      BY <2>9
    <3> QED
      BY <3>2, <3>3, <3>4, <3>5, <3>6, <3>7, Zenon
  <2>16. Exact(u)
    <3> SUFFICES ASSUME NEW a \in 0 .. t.width - 1, NEW b \in 0 .. t.height - 1
                 PROVE  u.fb[b * t.width + a] \in {Shown(u, a, b), <<"picture">>}
      BY <2>14 DEF Exact
    <3>1. t.fb[b * t.width + a] \in {Shown(t, a, b), <<"picture">>}
      BY <1>1 DEF Exact
    <3>2. Shown(u, a, b) = Shown(v, a, b)
      BY <2>13
    <3> QED
      BY <2>15, <3>1, <3>2
  <2>17. Tells(t, u)
    BY <2>14, <2>15 DEF Tells
  <2> QED
    BY <2>13, <2>16, <2>17 DEF Right
<1> QED
  BY <1>6, <1>7

-----------------------------------------------------------------------------
(***************************************************************************)
(* Clearing and resizing.                                                  *)
(***************************************************************************)

\* term_clear leaves blanks and the cursor in the corner.
LEMMA ClearGridFacts ==
    ASSUME NEW t, Fits(t), NEW u, u = term_clear(t)
    PROVE  Right(u) /\ Tells(t, u)
<1>1. /\ t \in Terminal /\ t.text_buffer \in [0 .. t.cols * t.rows - 1 -> GridCell]
      /\ t.cols \in Nat \ {0} /\ t.rows \in Nat \ {0} /\ t.cols * t.rows \in Nat
  BY GridFacts DEF Fits
<1>2. PICK cell : cell = [c |-> " ", fg |-> t.fg_color, bg |-> t.bg_color]
  OBVIOUS
<1>3. cell \in GridCell
  <2>1. " " \in Glyphs
    BY DEF Glyphs
  <2> QED
    BY <1>1, <1>2, <2>1, CellType
<1>4. PICK g : g = [i \in DOMAIN t.text_buffer |-> cell]
  OBVIOUS
<1>5. g \in [0 .. t.cols * t.rows - 1 -> GridCell]
  BY <1>1, <1>3, <1>4
<1>6. g \in Grids
  <2>1. PICK n \in Nat : n = t.cols * t.rows
    BY <1>1
  <2> QED
    BY <1>5, <2>1, GridType
<1>7. PICK v : v = [t EXCEPT !.cursor_x = 0, !.cursor_y = 0, !.text_buffer = g]
  OBVIOUS
<1>9. u = term_redraw_full(v)
  BY <1>2, <1>4, <1>7 DEF term_clear
<1>10. /\ v \in Terminal /\ SameWindow(t, v) /\ v.text_buffer = g
       /\ v.cursor_x = 0 /\ v.cursor_y = 0
  BY <1>1, <1>6, <1>7 DEF Terminal, SameWindow
<1>11. Fits(v)
  BY <1>5, <1>10, WindowFits
<1>12. v.width = t.width /\ v.height = t.height /\ v.cols = t.cols /\ v.rows = t.rows
  BY <1>10 DEF SameWindow
<1>13. CursorIn(v)
  BY <1>1, <1>10, <1>12 DEF CursorIn
<1> QED
  BY <1>9, <1>11, <1>12, <1>13, RedrawTells

\* A terminal that may be resized: its grid has a cell for each row and column,
\* none at first.
Sizeable(t) ==
    /\ t \in Terminal /\ ~ t.broken /\ t.ansi_param_count < NPARAMS
    /\ t.text_buffer \in [0 .. t.cols * t.rows - 1 -> GridCell]

\* The grid of the new size.
NewGrid(t, cols, rows) ==
    [i \in 0 .. cols * rows - 1 |->
        IF i % cols < t.cols /\ i \div cols < t.rows
        THEN t.text_buffer[(i \div cols) * t.cols + (i % cols)] ELSE Blank]

\* It has cells of the old one and blanks.
LEMMA NewGridType ==
    ASSUME NEW t, Sizeable(t), NEW cols \in Nat \ {0}, NEW rows \in Nat
    PROVE  NewGrid(t, cols, rows) \in [0 .. cols * rows - 1 -> GridCell]
<1>1. /\ t.cols \in Nat /\ t.rows \in Nat
      /\ t.text_buffer \in [0 .. t.cols * t.rows - 1 -> GridCell]
  BY DEF Sizeable, Terminal
<1>2. Blank \in GridCell
  BY DEF Blank, GridCell, Glyphs, Colors
<1>3. ASSUME NEW i \in 0 .. cols * rows - 1, i % cols < t.cols, i \div cols < t.rows
      PROVE  t.text_buffer[(i \div cols) * t.cols + (i % cols)] \in GridCell
  <2>1. PICK x, y : x = i % cols /\ y = i \div cols
    OBVIOUS
  <2>2. i \in Nat
    OBVIOUS
  <2>3. x \in Nat /\ y \in Nat
    BY <2>1, <2>2, Divide
  <2>4. x \in 0 .. t.cols - 1 /\ y \in 0 .. t.rows - 1
    BY <1>1, <1>3, <2>1, <2>3
  <2>5. y * t.cols + x \in 0 .. t.cols * t.rows - 1
    BY <1>1, <2>4, InArray
  <2> QED
    BY <1>1, <2>1, <2>5
<1> QED
  BY <1>2, <1>3 DEF NewGrid

\* A window of at least one glyph that fits into the buffer.
LEMMA ResizeFacts ==
    ASSUME NEW t, Sizeable(t), NEW w \in Nat, NEW h \in Nat, CW <= w, CH <= h, w * h <= FB,
           NEW u, u = term_resize(t, w, h)
    PROVE  /\ Right(u) /\ u.width = w /\ u.height = h
           /\ \A a \in 0 .. w - 1, b \in 0 .. h - 1 : Inside(a, b, u.last_update)
<1>1. CW \in Nat \ {0} /\ CH \in Nat \ {0} /\ t \in Terminal
  BY TermConstants DEF Sizeable
<1>2. PICK cols, rows : cols = w \div CW /\ rows = h \div CH
  OBVIOUS
<1>3. cols \in Nat \ {0} /\ rows \in Nat \ {0}
  <2>1. cols \in Nat /\ rows \in Nat
    BY <1>1, <1>2, Divide
  <2>2. 0 * CW + CW <= w /\ 0 * CH + CH <= h /\ 0 \in Nat
    BY <1>1
  <2>3. 0 < cols /\ 0 < rows
    BY <1>1, <1>2, <2>2, Between
  <2> QED
    BY <2>1, <2>3
<1>4. PICK g : g = NewGrid(t, cols, rows)
  OBVIOUS
<1>5. g \in [0 .. cols * rows - 1 -> GridCell]
  BY <1>3, <1>4, NewGridType
<1>6. g \in Grids
  <2>1. PICK n \in Nat : n = cols * rows
    BY <1>3
  <2> QED
    BY <1>5, <2>1, GridType
<1>7. PICK m : m = [t EXCEPT !.width = w, !.height = h, !.cols = cols, !.rows = rows,
                             !.text_buffer = g]
  OBVIOUS
<1>8. PICK x, y : /\ x = IF t.cursor_x >= cols THEN cols - 1 ELSE t.cursor_x
                  /\ y = IF t.cursor_y >= rows THEN rows - 1 ELSE t.cursor_y
  OBVIOUS
<1>9. t.cursor_x \in Nat /\ t.cursor_y \in Nat
  BY <1>1 DEF Terminal
<1>10. x \in Nat /\ y \in Nat /\ x < cols /\ y < rows
  BY <1>3, <1>8, <1>9
<1>11. /\ m \in Terminal /\ m.width = w /\ m.height = h /\ m.cols = cols /\ m.rows = rows
       /\ m.text_buffer = g /\ m.cursor_x = t.cursor_x /\ m.cursor_y = t.cursor_y
       /\ m.broken = t.broken /\ m.ansi_param_count = t.ansi_param_count
  BY <1>1, <1>3, <1>6, <1>7 DEF Terminal
<1>12. PICK v : v = [m EXCEPT !.cursor_x = x, !.cursor_y = y]
  OBVIOUS
<1>13. v = Clamped(m)
  BY <1>8, <1>11, <1>12 DEF Clamped, Terminal
<1>14. u = term_redraw_full(v)
  <2>1. u = term_redraw_full(Clamped(m))
    BY <1>2, <1>4, <1>7 DEF term_resize, NewGrid
  <2> QED
    BY <1>13, <2>1
<1>15. /\ v \in Terminal /\ v.width = w /\ v.height = h /\ v.cols = cols /\ v.rows = rows
       /\ v.text_buffer = g /\ v.cursor_x = x /\ v.cursor_y = y
       /\ v.broken = t.broken /\ v.ansi_param_count = t.ansi_param_count
  BY <1>10, <1>11, <1>12 DEF Terminal
<1>16. Fits(v)
  BY <1>2, <1>5, <1>15 DEF Fits, Sizeable
<1>17. CursorIn(v)
  BY <1>10, <1>15 DEF CursorIn
<1>18. /\ SameGrid(v, u) /\ Fits(u) /\ Exact(u) /\ CursorIn(u)
       /\ \A a \in 0 .. v.width - 1, b \in 0 .. v.height - 1 : Inside(a, b, u.last_update)
  BY <1>14, <1>16, <1>17, RedrawFacts
<1>19. u.width = w /\ u.height = h
  BY <1>15, <1>18 DEF SameGrid
<1> QED
  BY <1>15, <1>18, <1>19 DEF Right

-----------------------------------------------------------------------------
(***************************************************************************)
(* The parser.                                                             *)
(***************************************************************************)

\* u is t after a change of the parser or of the colours only.
SameScreen(t, u) ==
    /\ u.width = t.width /\ u.height = t.height /\ u.cols = t.cols /\ u.rows = t.rows
    /\ u.fb = t.fb /\ u.text_buffer = t.text_buffer /\ u.cursor_x = t.cursor_x
    /\ u.cursor_y = t.cursor_y /\ u.last_update = t.last_update /\ u.broken = t.broken

\* Such a change keeps what is shown.
LEMMA ScreenKept ==
    ASSUME NEW t, Right(t), NEW u, u \in Terminal, SameScreen(t, u),
           u.ansi_param_count < NPARAMS
    PROVE  Right(u) /\ Tells(t, u)
<1>1. Fits(u)
  BY DEF Right, Fits, SameScreen
<1>2. CursorIn(u)
  BY DEF Right, CursorIn, SameScreen
<1>3. \A a, b : Shown(u, a, b) = Shown(t, a, b)
  BY ZenonT(60) DEF Shown, SameScreen
<1>4. u.width = t.width /\ u.height = t.height /\ u.fb = t.fb /\ u.last_update = t.last_update
  BY DEF SameScreen
<1>5. Exact(u)
  <2>1. Exact(t)
    BY DEF Right
  <2> QED
    BY <1>3, <1>4, <2>1 DEF Exact
<1>6. Tells(t, u)
  BY <1>4 DEF Tells
<1> QED
  BY <1>1, <1>2, <1>5, <1>6 DEF Right

\* A code changes a colour at most.
LEMMA ApplyFacts ==
    ASSUME NEW t, t \in Terminal, NEW code, NEW u, u = apply_ansi_code(t, code)
    PROVE  u \in Terminal /\ SameScreen(t, u)
<1>1. DEFAULT_FG \in Colors /\ DEFAULT_BG \in Colors
  BY DEF Colors
<1>2. CASE code = 0
  BY <1>1, <1>2 DEF apply_ansi_code, Terminal, SameScreen
<1>3. CASE code # 0 /\ code \notin DOMAIN Ansi
  BY <1>3 DEF apply_ansi_code, SameScreen
<1>4. CASE code # 0 /\ code \in DOMAIN Ansi /\ "fg" \in DOMAIN Ansi[code]
  <2>1. PICK f : f = Ansi[code].fg
    OBVIOUS
  <2>2. f \in Colors
    BY <1>4, <2>1 DEF Colors, Fore
  <2>3. u = [t EXCEPT !.fg_color = f]
    BY <1>4, <2>1 DEF apply_ansi_code
  <2> QED
    BY <2>2, <2>3 DEF Terminal, SameScreen
<1>5. CASE code # 0 /\ code \in DOMAIN Ansi /\ "fg" \notin DOMAIN Ansi[code]
  <2>1. PICK f : f = Ansi[code].bg
    OBVIOUS
  <2>2. f \in Colors
    BY <1>5, <2>1 DEF Colors, Fore
  <2>3. u = [t EXCEPT !.bg_color = f]
    BY <1>5, <2>1 DEF apply_ansi_code
  <2> QED
    BY <2>2, <2>3 DEF Terminal, SameScreen
<1> QED
  BY <1>2, <1>3, <1>4, <1>5

\* The codes of a list, one after the other.
LEMMA EndFacts ==
    ASSUME NEW t, t \in Terminal, NEW c, NEW u, u = term_process_ansi_end(t, c)
    PROVE  u \in Terminal /\ SameScreen(t, u) /\ u.ansi_param_count < NPARAMS
<1>1. NPARAMS \in Nat \ {0} /\ t.ansi_param_count \in 0 .. NPARAMS
  BY TermConstants DEF Terminal
<1>2. PICK N \in Nat : N = t.ansi_param_count
  BY <1>1
<1>3. PICK S : S = {v \in Terminal : SameScreen(t, v)}
  OBVIOUS
<1>4. t \in S
  BY <1>3 DEF SameScreen
<1>5. \A v \in S : \A code : apply_ansi_code(v, code) \in S
  <2> SUFFICES ASSUME NEW v \in S, NEW code  PROVE apply_ansi_code(v, code) \in S
    OBVIOUS
  <2>1. PICK m : m = apply_ansi_code(v, code)
    OBVIOUS
  <2>2. v \in Terminal /\ SameScreen(t, v)
    BY <1>3
  <2>3. m \in Terminal /\ SameScreen(v, m)
    BY <2>1, <2>2, ApplyFacts
  <2>4. SameScreen(t, m)
    BY <2>2, <2>3, Zenon DEF SameScreen
  <2> QED
    BY <1>3, <2>1, <2>3, <2>4
<1>6. PICK G : G = [k \in 0 .. N - 1 |-> [v \in S |-> apply_ansi_code(v, t.ansi_params[k])]]
  OBVIOUS
<1>7. Turns(S, N, G)
  <2>1. \A k \in 0 .. N - 1 : [v \in S |-> apply_ansi_code(v, t.ansi_params[k])] \in [S -> S]
    BY <1>5
  <2> QED
    BY <1>6, <2>1 DEF Turns
<1>8. PICK f : Loops(S, t, N, G, f)
  BY <1>4, <1>7, LoopRuns
<1> DEFINE Val(g, n) == IF n = 0 THEN t ELSE apply_ansi_code(g[n - 1], t.ansi_params[n - 1])
           Is(g) == g = [n \in 0 .. t.ansi_param_count |-> Val(g, n)]
           Applied == CHOOSE g : Is(g)
           v == IF c # "m" THEN t
                ELSE IF t.ansi_param_count = 0 THEN apply_ansi_code(t, 0)
                ELSE Applied[t.ansi_param_count]
<1>9. Is(f)
  <2>1. ASSUME NEW n \in 0 .. N  PROVE f[n] = Val(f, n)
    <3>1. CASE n = 0
      BY <1>8, <3>1 DEF Loops
    <3>2. CASE n # 0
      <4>1. n - 1 \in 0 .. N - 1 /\ (n - 1) + 1 = n /\ n - 1 \in 0 .. N
        BY <3>2
      <4>2. f[n] = G[n - 1][f[n - 1]] /\ f[n - 1] \in S
        BY <1>8, <4>1 DEF Loops
      <4>3. G[n - 1][f[n - 1]] = apply_ansi_code(f[n - 1], t.ansi_params[n - 1])
        BY <1>6, <4>1, <4>2
      <4> QED
        BY <3>2, <4>2, <4>3
    <3> QED
      BY <3>1, <3>2
  <2>2. f = [n \in 0 .. N |-> f[n]]
    BY <1>8 DEF Loops
  <2> HIDE DEF Val
  <2> QED
    BY <1>2, <2>1, <2>2
<1>10. Is(Applied)
  <2> HIDE DEF Is
  <2> QED
    BY <1>9
<1>11. u = [v EXCEPT !.ansi_state = "NORMAL", !.ansi_param_count = 0,
                     !.ansi_params = [v.ansi_params EXCEPT ![0] = 0]]
  BY DEF term_process_ansi_end
<1> HIDE DEF Applied
<1>12. \A n \in 0 .. N : Applied[n] = Val(Applied, n)
  <2> HIDE DEF Val
  <2> QED
    BY <1>2, <1>10
<1>13. PICK H : H = {n \in 0 .. N : Applied[n] \in S}
  OBVIOUS
<1>14. 0 \in H
  <2>1. 0 \in 0 .. N /\ Applied[0] = t
    BY <1>12
  <2> QED
    BY <1>4, <1>13, <2>1
<1>15. ASSUME NEW k \in 0 .. N - 1, k \in H  PROVE k + 1 \in H
  <2>1. k + 1 \in 0 .. N /\ k + 1 # 0 /\ (k + 1) - 1 = k
    OBVIOUS
  <2>2. Applied[k + 1] = apply_ansi_code(Applied[k], t.ansi_params[k])
    BY <1>12, <2>1
  <2>3. Applied[k] \in S
    BY <1>13, <1>15
  <2> QED
    BY <1>5, <1>13, <2>1, <2>2, <2>3
<1>16. N \in H
  BY <1>14, <1>15, Rounds
<1>17. Applied[t.ansi_param_count] \in S
  BY <1>2, <1>13, <1>16
<1>18. v \in S
  BY <1>4, <1>5, <1>17
<1> HIDE DEF v
<1>19. v \in Terminal /\ SameScreen(t, v)
  BY <1>3, <1>18
<1>20. PICK ps : ps = [v.ansi_params EXCEPT ![0] = 0]
  OBVIOUS
<1>21. ps \in [0 .. NPARAMS - 1 -> Nat]
  <2>1. v.ansi_params \in [0 .. NPARAMS - 1 -> Nat]
    BY <1>19 DEF Terminal
  <2> QED
    BY <1>20, <2>1
<1>22. u = [v EXCEPT !.ansi_state = "NORMAL", !.ansi_param_count = 0, !.ansi_params = ps]
  BY <1>11, <1>20
<1>23. 0 \in 0 .. NPARAMS /\ "NORMAL" \in States
  BY <1>1 DEF States
<1>24. u \in Terminal /\ SameScreen(v, u) /\ u.ansi_param_count = 0
  <2>1. PICK s \in States, z \in 0 .. NPARAMS : s = "NORMAL" /\ z = 0
    BY <1>23
  <2>2. u = [v EXCEPT !.ansi_state = s, !.ansi_param_count = z, !.ansi_params = ps]
    BY <1>22, <2>1
  <2>3. u \in Terminal
    BY <1>19, <1>21, <2>2 DEF Terminal
  <2>4. SameScreen(v, u) /\ u.ansi_param_count = z
    BY <1>19, <2>2 DEF Terminal, SameScreen
  <2> QED
    BY <2>1, <2>3, <2>4
<1>25. SameScreen(t, u)
  BY <1>19, <1>24, Zenon DEF SameScreen
<1> QED
  BY <1>1, <1>24, <1>25

\* A digit has a value.
LEMMA DigitValue ==
    ASSUME NEW c \in DOMAIN Digit
    PROVE  Digit[c] \in Nat
<1>1. Digit = [d \in Range(Digits) |-> CHOOSE n \in 0 .. 9 : Digits[n + 1] = d]
  BY DEF Digit
<1>2. c \in Range(Digits)
  BY <1>1
<1>3. DOMAIN Digits = 1 .. 10
  BY DEF Digits
<1>4. PICK i \in 1 .. 10 : Digits[i] = c
  BY <1>2, <1>3 DEF Range
<1>5. i - 1 \in 0 .. 9 /\ (i - 1) + 1 = i
  OBVIOUS
<1>6. \E n \in 0 .. 9 : Digits[n + 1] = c
  BY <1>4, <1>5
<1>7. (CHOOSE n \in 0 .. 9 : Digits[n + 1] = c) \in 0 .. 9
  BY <1>6
<1>8. Digit[c] = CHOOSE n \in 0 .. 9 : Digits[n + 1] = c
  BY <1>1, <1>2, Zenon
<1>9. Digit[c] \in 0 .. 9
  BY <1>7, <1>8, Zenon
<1> QED
  BY <1>9

\* A character of a list of parameters.
LEMMA CsiFacts ==
    ASSUME NEW t, Right(t), NEW c, NEW u, u = InCsi(t, c)
    PROVE  Right(u) /\ Tells(t, u)
<1>1. /\ t \in Terminal /\ NPARAMS \in Nat \ {0} /\ t.ansi_param_count \in 0 .. NPARAMS - 1
      /\ t.ansi_params \in [0 .. NPARAMS - 1 -> Nat]
  <2>1. t \in Terminal /\ t.ansi_param_count < NPARAMS
    BY DEF Right, Fits
  <2>2. t.ansi_param_count \in 0 .. NPARAMS /\ t.ansi_params \in [0 .. NPARAMS - 1 -> Nat]
    BY <2>1 DEF Terminal
  <2>3. NPARAMS \in Nat \ {0}
    BY TermConstants
  <2> QED
    BY <2>1, <2>2, <2>3
<1>2. PICK n \in 0 .. NPARAMS - 1 : n = t.ansi_param_count
  BY <1>1
<1>3. u \in Terminal /\ SameScreen(t, u) /\ u.ansi_param_count < NPARAMS
  <2>1. CASE c \in DOMAIN Digit
    <3>1. PICK k : k = 10 * t.ansi_params[n] + Digit[c]
      OBVIOUS
    <3>2. k \in Nat
      <4>1. t.ansi_params[n] \in Nat /\ Digit[c] \in Nat
        BY <1>1, <2>1, DigitValue
      <4> QED
        BY <3>1, <4>1
    <3>3. PICK ps : ps = [t.ansi_params EXCEPT ![n] = k]
      OBVIOUS
    <3>4. ps \in [0 .. NPARAMS - 1 -> Nat]
      BY <1>1, <3>2, <3>3
    <3>5. u = [t EXCEPT !.ansi_params = ps]
      BY <1>2, <2>1, <3>1, <3>3 DEF InCsi
    <3>6. u \in Terminal /\ SameScreen(t, u) /\ u.ansi_param_count = n
      BY <1>1, <1>2, <3>4, <3>5 DEF Terminal, SameScreen
    <3> QED
      BY <1>1, <3>6
  <2>2. CASE c \notin DOMAIN Digit /\ c = ";"
    <3>1. u = Semicolon(t)
      BY <2>2 DEF InCsi
    <3>2. CASE t.ansi_param_count < NPARAMS - 1
      <4>1. PICK k : k = t.ansi_param_count + 1
        OBVIOUS
      <4>2. k \in 0 .. NPARAMS - 1 /\ k \in 0 .. NPARAMS /\ k < NPARAMS
        BY <1>1, <3>2, <4>1
      <4>3. PICK ps : ps = [t.ansi_params EXCEPT ![k] = 0]
        OBVIOUS
      <4>4. ps \in [0 .. NPARAMS - 1 -> Nat]
        BY <1>1, <4>3
      <4>5. u = [t EXCEPT !.ansi_param_count = k, !.ansi_params = ps]
        BY <3>1, <3>2, <4>1, <4>3 DEF Semicolon
      <4>6. u \in Terminal /\ SameScreen(t, u) /\ u.ansi_param_count = k
        BY <1>1, <4>2, <4>4, <4>5 DEF Terminal, SameScreen
      <4> QED
        BY <4>2, <4>6
    <3>3. CASE ~ (t.ansi_param_count < NPARAMS - 1)
      <4>1. u = t
        BY <3>1, <3>3 DEF Semicolon
      <4> QED
        BY <1>1, <4>1 DEF SameScreen
    <3> QED
      BY <3>2, <3>3
  <2>3. CASE c \notin DOMAIN Digit /\ c # ";"
    <3>1. PICK v : v = IF t.ansi_param_count = 0 /\ t.ansi_params[0] = 0 THEN t
                       ELSE [t EXCEPT !.ansi_param_count = @ + 1]
      OBVIOUS
    <3>2. v \in Terminal /\ SameScreen(t, v)
      <4>1. CASE t.ansi_param_count = 0 /\ t.ansi_params[0] = 0
        BY <1>1, <3>1, <4>1 DEF SameScreen
      <4>2. CASE ~ (t.ansi_param_count = 0 /\ t.ansi_params[0] = 0)
        <5>1. PICK k : k = t.ansi_param_count + 1
          OBVIOUS
        <5>2. k \in 0 .. NPARAMS
          BY <1>1, <5>1
        <5>3. v = [t EXCEPT !.ansi_param_count = k]
          BY <3>1, <4>2, <5>1
        <5> QED
          BY <1>1, <5>2, <5>3 DEF Terminal, SameScreen
      <4> QED
        BY <4>1, <4>2
    <3>3. u = term_process_ansi_end(v, c)
      BY <2>3, <3>1 DEF InCsi
    <3>4. u \in Terminal /\ SameScreen(v, u) /\ u.ansi_param_count < NPARAMS
      BY <3>2, <3>3, EndFacts
    <3>5. SameScreen(t, u)
      BY <3>2, <3>4, Zenon DEF SameScreen
    <3> QED
      BY <3>4, <3>5
  <2> QED
    BY <2>1, <2>2, <2>3
<1> QED
  BY <1>3, ScreenKept

\* A picture is drawn over the window, which is then to be reported as a whole.
LEMMA PictureFacts ==
    ASSUME NEW t, Right(t), NEW u, u = Picture(t)
    PROVE  Right(u) /\ Tells(t, u)
<1>1. /\ t \in Terminal /\ Fits(t) /\ CursorIn(t) /\ Exact(t)
      /\ t.width * t.height <= FB /\ t.cursor_x \in Nat /\ t.cursor_y \in Nat
  BY DEF Right, Fits, Terminal
<1>2. CW \in Nat \ {0} /\ CH \in Nat \ {0} /\ PicW \in Nat /\ PicH \in Nat
  BY TermConstants
<1>3. PICK X, Y : X = t.cursor_x * CW /\ Y = t.cursor_y * CH
  OBVIOUS
<1>4. X \in Nat /\ Y \in Nat
  BY <1>1, <1>2, <1>3
<1>5. PICK val : val = [p \in Area(PicW, PicH) |-> <<"picture">>]
  OBVIOUS
<1>6. val \in [Area(PicW, PicH) -> Pixels]
  <2>1. <<"picture">> \in Pixels
    BY DEF Pixels
  <2> QED
    BY <1>5, <2>1
<1>7. PICK f \in [0 .. FB - 1 -> Pixels] :
         Painted(t, X, Y, val) = [t EXCEPT !.fb = f] /\ Paints(t, X, Y, PicW, PicH, val, f)
  BY <1>1, <1>2, <1>4, <1>6, PaintFacts
<1>8. PICK v : v = [t EXCEPT !.fb = f]
  OBVIOUS
<1>9. v \in Terminal /\ SameGrid(t, v) /\ v.fb = f
  BY <1>1, <1>8 DEF Terminal, SameGrid
<1>10. u = AllDirty(v)
  BY <1>3, <1>5, <1>7, <1>8 DEF Picture, gfx_draw_image
<1>11. /\ u \in Terminal /\ SameGrid(v, u) /\ u.fb = v.fb
       /\ \A a \in 0 .. v.width - 1, b \in 0 .. v.height - 1 : Inside(a, b, u.last_update)
  BY <1>9, <1>10, DirtyFacts
<1>12. SameGrid(t, u) /\ v.width = t.width /\ v.height = t.height
       /\ u.width = t.width /\ u.height = t.height
  BY <1>9, <1>11, Zenon DEF SameGrid
<1>13. Fits(u) /\ CursorIn(u) /\ \A a, b : Shown(u, a, b) = Shown(t, a, b)
  BY <1>1, <1>11, <1>12, ViewFits
<1>14. ASSUME NEW a \in 0 .. t.width - 1, NEW b \in 0 .. t.height - 1
       PROVE  u.fb[b * t.width + a] \in {Shown(t, a, b), <<"picture">>}
  <2>1. f[b * t.width + a] = IF a \in X .. X + PicW - 1 /\ b \in Y .. Y + PicH - 1
                             THEN val[<<b - Y, a - X>>] ELSE t.fb[b * t.width + a]
    BY <1>7 DEF Paints
  <2>2. CASE a \in X .. X + PicW - 1 /\ b \in Y .. Y + PicH - 1
    <3>1. b - Y \in 0 .. PicH - 1 /\ a - X \in 0 .. PicW - 1
      BY <1>2, <1>4, <2>2
    <3>2. <<b - Y, a - X>> \in Area(PicW, PicH)
      BY <3>1 DEF Area
    <3>3. val[<<b - Y, a - X>>] = <<"picture">>
      BY <1>5, <3>2
    <3> QED
      BY <1>9, <1>11, <2>1, <2>2, <3>3
  <2>3. CASE ~ (a \in X .. X + PicW - 1 /\ b \in Y .. Y + PicH - 1)
    <3>1. t.fb[b * t.width + a] \in {Shown(t, a, b), <<"picture">>}
      BY <1>1 DEF Exact
    <3> QED
      BY <1>9, <1>11, <2>1, <2>3, <3>1
  <2> QED
    BY <2>2, <2>3
<1>15. Exact(u)
  BY <1>12, <1>13, <1>14 DEF Exact
<1>16. Tells(t, u)
  BY <1>11, <1>12 DEF Tells
<1> QED
  BY <1>13, <1>15, <1>16 DEF Right

\* What one terminal has to report, the next has, and so has the one after it.
LEMMA TellsOn ==
    ASSUME NEW t, NEW u, NEW v, Tells(t, u), Tells(u, v)
    PROVE  Tells(t, v)
  BY DEF Tells

\* The parser goes to another state.
LEMMA StateFacts ==
    ASSUME NEW t, Right(t), NEW s \in States, NEW u, u = [t EXCEPT !.ansi_state = s]
    PROVE  Right(u) /\ Tells(t, u) /\ u.ansi_state = s
<1>1. t \in Terminal /\ t.ansi_param_count < NPARAMS
  BY DEF Right, Fits
<1>2. /\ u \in Terminal /\ SameScreen(t, u) /\ u.ansi_state = s
      /\ u.ansi_param_count = t.ansi_param_count
  BY <1>1 DEF Terminal, SameScreen
<1> QED
  BY <1>1, <1>2, ScreenKept

\* A character after an escape character.
LEMMA EscFacts ==
    ASSUME NEW t, Right(t), NEW c \in Glyphs, NEW u, u = InEsc(t, c)
    PROVE  Right(u) /\ Tells(t, u)
<1>1. /\ t \in Terminal /\ NPARAMS \in Nat \ {0} /\ t.ansi_param_count \in 0 .. NPARAMS - 1
      /\ t.ansi_params \in [0 .. NPARAMS - 1 -> Nat]
  <2>1. t \in Terminal /\ t.ansi_param_count < NPARAMS
    BY DEF Right, Fits
  <2>2. t.ansi_param_count \in 0 .. NPARAMS /\ t.ansi_params \in [0 .. NPARAMS - 1 -> Nat]
    BY <2>1 DEF Terminal
  <2>3. NPARAMS \in Nat \ {0}
    BY TermConstants
  <2> QED
    BY <2>1, <2>2, <2>3
<1>2. CASE c = "["
  <2>1. PICK ps : ps = [t.ansi_params EXCEPT ![0] = 0]
    OBVIOUS
  <2>2. ps \in [0 .. NPARAMS - 1 -> Nat]
    BY <1>1, <2>1
  <2>3. u = [t EXCEPT !.ansi_state = "CSI", !.ansi_param_count = 0, !.ansi_params = ps]
    BY <1>2, <2>1 DEF InEsc
  <2>4. "CSI" \in States /\ 0 \in 0 .. NPARAMS /\ 0 < NPARAMS
    BY <1>1 DEF States
  <2>5. u \in Terminal /\ SameScreen(t, u) /\ u.ansi_param_count = 0
    <3>1. PICK s \in States, z \in 0 .. NPARAMS : s = "CSI" /\ z = 0
      BY <2>4
    <3>2. u = [t EXCEPT !.ansi_state = s, !.ansi_param_count = z, !.ansi_params = ps]
      BY <2>3, <3>1
    <3>3. u \in Terminal
      BY <1>1, <2>2, <3>2 DEF Terminal
    <3>4. SameScreen(t, u) /\ u.ansi_param_count = z
      BY <1>1, <3>2 DEF Terminal, SameScreen
    <3> QED
      BY <3>1, <3>3, <3>4
  <2> QED
    BY <2>4, <2>5, ScreenKept
<1>3. CASE c = "]"
  <2>1. PICK e : e = <<>>
    OBVIOUS
  <2>2. e \in Seq(Glyphs)
    BY <2>1
  <2>3. u = [t EXCEPT !.ansi_state = "OSC", !.osc_buffer = e]
    BY <1>3, <2>1 DEF InEsc
  <2>4. "OSC" \in States
    BY DEF States
  <2>5. /\ u \in Terminal /\ SameScreen(t, u)
        /\ u.ansi_param_count = t.ansi_param_count
    BY <1>1, <2>2, <2>3, <2>4 DEF Terminal, SameScreen
  <2>6. u.ansi_param_count < NPARAMS
    BY <1>1, <2>5
  <2> QED
    BY <2>5, <2>6, ScreenKept
<1>4. CASE c # "[" /\ c # "]"
  <2>1. PICK v : v = [t EXCEPT !.ansi_state = "NORMAL"]
    OBVIOUS
  <2>2. "NORMAL" \in States
    BY DEF States
  <2>3. Right(v) /\ Tells(t, v)
    <3>1. PICK s \in States : v = [t EXCEPT !.ansi_state = s]
      BY <2>1, <2>2
    <3> QED
      BY <3>1, StateFacts
  <2>4. u = term_put_char(v, c)
    BY <1>4, <2>1 DEF InEsc
  <2>5. Right(u) /\ Tells(v, u)
    BY <2>3, <2>4, CharFacts
  <2> QED
    BY <2>3, <2>5, TellsOn
<1> QED
  BY <1>2, <1>3, <1>4

\* A character of an operating system command.
LEMMA OscFacts ==
    ASSUME NEW t, Right(t), NEW c \in Glyphs, NEW u, u = InOsc(t, c)
    PROVE  Right(u) /\ Tells(t, u)
<1>1. t \in Terminal /\ t.osc_buffer \in Seq(Glyphs) /\ t.ansi_param_count < NPARAMS
  BY DEF Right, Fits, Terminal
<1>2. PICK path : path = SubSeq(t.osc_buffer, Len(OscImage) + 1, Len(t.osc_buffer))
  OBVIOUS
<1>3. PICK v : v = IF IsPrefix(OscImage, t.osc_buffer) /\ path \in Pictures THEN Picture(t)
                   ELSE t
  OBVIOUS
<1>4. Right(v) /\ Tells(t, v)
  <2>1. CASE v = Picture(t)
    BY <2>1, PictureFacts
  <2>2. CASE v = t
    <3>1. SameScreen(t, v)
      BY <2>2 DEF SameScreen
    <3> QED
      BY <1>1, <2>2, <3>1, ScreenKept
  <2> QED
    BY <1>3, <2>1, <2>2
<1>5. CASE c = BEL
  <2>1. u = [v EXCEPT !.ansi_state = "NORMAL"]
    BY <1>2, <1>3, <1>5 DEF InOsc
  <2>2. PICK s \in States : u = [v EXCEPT !.ansi_state = s]
    BY <2>1 DEF States
  <2>3. Right(u) /\ Tells(v, u)
    BY <1>4, <2>2, StateFacts
  <2> QED
    BY <1>4, <2>3, TellsOn
<1>6. CASE c # BEL /\ Len(t.osc_buffer) < OSC_MAX
  <2>1. PICK e : e = Append(t.osc_buffer, c)
    OBVIOUS
  <2>2. e \in Seq(Glyphs)
    BY <1>1, <2>1
  <2>3. u = [t EXCEPT !.osc_buffer = e]
    BY <1>6, <2>1 DEF InOsc
  <2>4. /\ u \in Terminal /\ SameScreen(t, u)
        /\ u.ansi_param_count = t.ansi_param_count
    BY <1>1, <2>2, <2>3 DEF Terminal, SameScreen
  <2> QED
    BY <1>1, <2>4, ScreenKept
<1>7. CASE c # BEL /\ ~ (Len(t.osc_buffer) < OSC_MAX)
  <2>1. u = t
    BY <1>7 DEF InOsc
  <2>2. SameScreen(t, u)
    BY <2>1 DEF SameScreen
  <2> QED
    BY <1>1, <2>1, <2>2, ScreenKept
<1> QED
  BY <1>5, <1>6, <1>7

\* One round of the loop of term_write.
LEMMA WriteFacts ==
    ASSUME NEW t, Right(t), NEW c, c \in Output[t.ansi_state], NEW u, u = Written(t, c)
    PROVE  Right(u) /\ Tells(t, u)
<1>1. t \in Terminal /\ t.ansi_state \in States
  BY DEF Right, Fits, Terminal
<1>2. c \in Glyphs
  BY <1>1 DEF Glyphs
<1>3. CASE t.ansi_state = "ESC"
  <2>1. u = InEsc(t, c)
    BY <1>3 DEF Written
  <2> QED
    BY <1>2, <2>1, EscFacts
<1>4. CASE t.ansi_state = "OSC"
  <2>1. u = InOsc(t, c)
    BY <1>4 DEF Written
  <2> QED
    BY <1>2, <2>1, OscFacts
<1>5. CASE t.ansi_state = "CSI"
  <2>1. u = InCsi(t, c)
    BY <1>5 DEF Written
  <2> QED
    BY <2>1, CsiFacts
<1>6. CASE t.ansi_state = "NORMAL" /\ c = ESC
  <2>1. u = [t EXCEPT !.ansi_state = "ESC"]
    BY <1>6 DEF Written
  <2>2. PICK s \in States : u = [t EXCEPT !.ansi_state = s]
    BY <2>1 DEF States
  <2> QED
    BY <2>2, StateFacts
<1>7. CASE t.ansi_state = "NORMAL" /\ c # ESC
  <2>1. u = term_put_char(t, c)
    BY <1>7 DEF Written
  <2> QED
    BY <1>2, <2>1, CharFacts
<1> QED
  BY <1>1, <1>3, <1>4, <1>5, <1>6, <1>7 DEF States

-----------------------------------------------------------------------------
(***************************************************************************)
(* The steps.                                                              *)
(***************************************************************************)

\* Pixels that were covered, and those that a step changes, are covered after it.
LEMMA ToldFacts ==
    ASSUME NEW t, NEW u, NEW ps, t \in Terminal, Covered(t, ps), Tells(t, u)
    PROVE  Covered(u, ps \cup Changed(t, u))
<1>1. u.width = t.width /\ u.height = t.height
  BY DEF Tells
<1> SUFFICES ASSUME NEW p \in ps \cup Changed(t, u)
             PROVE  /\ p \in (0 .. u.width - 1) \X (0 .. u.height - 1)
                    /\ Inside(p[1], p[2], u.last_update)
  BY DEF Covered
<1>2. CASE p \in ps
  <2>1. p \in (0 .. t.width - 1) \X (0 .. t.height - 1) /\ Inside(p[1], p[2], t.last_update)
    BY <1>2 DEF Covered
  <2>2. PICK a \in 0 .. t.width - 1, b \in 0 .. t.height - 1 : a = p[1] /\ b = p[2]
    BY <2>1
  <2>3. Inside(a, b, u.last_update)
    BY <2>1, <2>2 DEF Tells
  <2> QED
    BY <1>1, <2>1, <2>2, <2>3
<1>3. CASE p \in Changed(t, u)
  <2>1. /\ p \in (0 .. t.width - 1) \X (0 .. t.height - 1)
        /\ t.fb[p[2] * t.width + p[1]] # u.fb[p[2] * t.width + p[1]]
    BY <1>3 DEF Changed
  <2>2. PICK a \in 0 .. t.width - 1, b \in 0 .. t.height - 1 : a = p[1] /\ b = p[2]
    BY <2>1
  <2>3. Inside(a, b, u.last_update)
    BY <2>1, <2>2 DEF Tells
  <2> QED
    BY <1>1, <2>1, <2>2, <2>3
<1> QED
  BY <1>2, <1>3

\* A size that is not narrow.
LEMMA WideFacts ==
    ASSUME NEW s \in Sizes, ~ (s[1] < CW \/ s[2] < CH)
    PROVE  /\ s[1] \in Nat /\ s[2] \in Nat /\ CW <= s[1] /\ CH <= s[2]
           /\ s[1] * s[2] <= FB
<1>1. s \in Nat \X Nat /\ s[1] * s[2] <= FB /\ CW \in Nat /\ CH \in Nat
  BY TermConstants
<1>2. s[1] \in Nat /\ s[2] \in Nat
  BY <1>1
<1> QED
  BY <1>1, <1>2

\* The record that term_init starts from can be given a size.
LEMMA FreshFacts ==
    ASSUME NEW t,
           t = [width |-> 0, height |-> 0, cols |-> 0, rows |-> 0,
               fb |-> [i \in 0 .. FB - 1 |-> <<>>], text_buffer |-> [i \in {} |-> Blank],
               cursor_x |-> 0, cursor_y |-> 0, fg_color |-> DEFAULT_FG, bg_color |-> DEFAULT_BG,
               last_update |-> [x |-> 0, y |-> 0, w |-> 0, h |-> 0, dirty |-> FALSE],
               ansi_state |-> "NORMAL", ansi_param_count |-> 0,
               ansi_params |-> [i \in 0 .. NPARAMS - 1 |-> 0], osc_buffer |-> <<>>,
               broken |-> FALSE]
    PROVE  Sizeable(t)
<1>1. PICK f : f = [i \in 0 .. FB - 1 |-> <<>>]
  OBVIOUS
<1>2. f \in [0 .. FB - 1 -> Pixels]
  <2>1. PICK e : e = <<>>
    OBVIOUS
  <2>2. e \in Pixels
    BY <2>1 DEF Pixels
  <2>3. f = [i \in 0 .. FB - 1 |-> e]
    BY <1>1, <2>1
  <2> QED
    BY <2>2, <2>3
<1>3. PICK g : g = [i \in {} |-> Blank]
  OBVIOUS
<1>4. 0 .. 0 - 1 = {}
  OBVIOUS
<1>5. g \in [0 .. 0 - 1 -> GridCell] /\ g \in [0 .. 0 * 0 - 1 -> GridCell]
  <2>1. 0 * 0 = 0
    OBVIOUS
  <2>2. g \in [{} -> GridCell]
    BY <1>3
  <2> QED
    BY <1>4, <2>1, <2>2
<1>6. g \in Grids
  <2>1. PICK n \in Nat : n = 0
    OBVIOUS
  <2> QED
    BY <1>5, <2>1, GridType
<1>7. PICK r : r = [x |-> 0, y |-> 0, w |-> 0, h |-> 0, dirty |-> FALSE]
  OBVIOUS
<1>8. r \in Rect
  <2>1. PICK d \in BOOLEAN : d = FALSE
    OBVIOUS
  <2>2. r = [x |-> 0, y |-> 0, w |-> 0, h |-> 0, dirty |-> d]
    BY <1>7, <2>1
  <2> QED
    BY <2>2 DEF Rect
<1>9. PICK ps : ps = [i \in 0 .. NPARAMS - 1 |-> 0]
  OBVIOUS
<1>10. ps \in [0 .. NPARAMS - 1 -> Nat]
  BY <1>9
<1>11. PICK e : e = <<>>
  OBVIOUS
<1>12. e \in Seq(Glyphs)
  BY <1>11
<1>13. PICK fg \in Colors, bg \in Colors : fg = DEFAULT_FG /\ bg = DEFAULT_BG
  BY DEF Colors
<1>14. PICK d \in BOOLEAN : d = FALSE
  OBVIOUS
<1>15. PICK s \in States : s = "NORMAL"
  BY DEF States
<1>16. 0 \in 0 .. NPARAMS /\ 0 < NPARAMS
  BY TermConstants
<1>17. t = [width |-> 0, height |-> 0, cols |-> 0, rows |-> 0, fb |-> f, text_buffer |-> g,
            cursor_x |-> 0, cursor_y |-> 0, fg_color |-> fg, bg_color |-> bg,
            last_update |-> r, ansi_state |-> s, ansi_param_count |-> 0,
            ansi_params |-> ps, osc_buffer |-> e, broken |-> d]
  BY <1>1, <1>3, <1>7, <1>9, <1>11, <1>13, <1>14, <1>15
<1>18. t \in Terminal
  <2>1. PICK z \in Nat, y \in 0 .. NPARAMS : z = 0 /\ y = 0
    BY <1>16
  <2>2. [width |-> z, height |-> z, cols |-> z, rows |-> z, fb |-> f, text_buffer |-> g,
         cursor_x |-> z, cursor_y |-> z, fg_color |-> fg, bg_color |-> bg,
         last_update |-> r, ansi_state |-> s, ansi_param_count |-> y,
         ansi_params |-> ps, osc_buffer |-> e, broken |-> d] \in Terminal
    <3>1. /\ fg \in Colors /\ bg \in Colors /\ s \in States /\ d \in BOOLEAN
          /\ z \in Nat /\ y \in 0 .. NPARAMS
      BY <1>13, <1>14, <1>15, <2>1
    <3> QED
      BY <1>2, <1>6, <1>8, <1>10, <1>12, <3>1 DEF Terminal
  <2> QED
    BY <1>17, <2>1, <2>2
<1>19. t.broken = FALSE /\ t.ansi_param_count = 0 /\ t.cols = 0 /\ t.rows = 0 /\ t.text_buffer = g
  BY <1>14, <1>17
<1> QED
  BY <1>5, <1>16, <1>18, <1>19 DEF Sizeable

\* The invariant holds when the window is there.
LEMMA InitTermInv == TermInit => TermInv
<1> SUFFICES ASSUME TermInit  PROVE TermInv
  OBVIOUS
<1>1. PICK t :
           t = [width |-> 0, height |-> 0, cols |-> 0, rows |-> 0,
               fb |-> [i \in 0 .. FB - 1 |-> <<>>], text_buffer |-> [i \in {} |-> Blank],
               cursor_x |-> 0, cursor_y |-> 0, fg_color |-> DEFAULT_FG, bg_color |-> DEFAULT_BG,
               last_update |-> [x |-> 0, y |-> 0, w |-> 0, h |-> 0, dirty |-> FALSE],
               ansi_state |-> "NORMAL", ansi_param_count |-> 0,
               ansi_params |-> [i \in 0 .. NPARAMS - 1 |-> 0], osc_buffer |-> <<>>,
               broken |-> FALSE]
  OBVIOUS
<1>2. PICK s \in Sizes : /\ term = term_resize(t, s[1], s[2])
                         /\ narrow = (s[1] < CW \/ s[2] < CH)
                         /\ unsent = (0 .. s[1] - 1) \X (0 .. s[2] - 1)
  BY <1>1, Zenon DEF TermInit
<1>3. Sizeable(t)
  BY <1>1, FreshFacts
<1>4. narrow \in BOOLEAN
  BY <1>2, Zenon
<1>5. ASSUME ~ narrow  PROVE Fits(term) /\ CursorIn(term) /\ Exact(term) /\ Covered(term, unsent)
  <2>1. ~ (s[1] < CW \/ s[2] < CH)
    BY <1>2, <1>5, Zenon
  <2>2. PICK w \in Nat, h \in Nat : w = s[1] /\ h = s[2] /\ CW <= w /\ CH <= h /\ w * h <= FB
    BY <2>1, WideFacts
  <2>3. term = term_resize(t, w, h)
    BY <1>2, <2>2
  <2>4. /\ Right(term) /\ term.width = w /\ term.height = h
        /\ \A a \in 0 .. w - 1, b \in 0 .. h - 1 : Inside(a, b, term.last_update)
    BY <1>3, <2>2, <2>3, ResizeFacts
  <2>5. unsent = (0 .. w - 1) \X (0 .. h - 1)
    BY <1>2, <2>2
  <2>6. Covered(term, unsent)
    BY <2>4, <2>5 DEF Covered
  <2> QED
    BY <2>4, <2>6 DEF Right
<1> QED
  BY <1>4, <1>5, Zenon DEF TermInv

\* Every step keeps the invariant.
LEMMA NextTermInv == TermInv /\ [TermNext]_term_vars => TermInv'
<1> SUFFICES ASSUME TermInv, [TermNext]_term_vars  PROVE TermInv'
  OBVIOUS
<1>1. narrow \in BOOLEAN
  BY DEF TermInv
<1>2. ASSUME ~ narrow  PROVE Right(term) /\ Covered(term, unsent) /\ term \in Terminal
  BY <1>2, Zenon DEF TermInv, Right, Fits
<1>3. ASSUME narrow' \in BOOLEAN, ~ narrow' => Right(term') /\ Covered(term', unsent')
      PROVE  TermInv'
  BY <1>3, Zenon DEF TermInv, Right
<1>4. ASSUME NEW c \in Output[term.ansi_state], Write(c)  PROVE TermInv'
  <2>1. PICK t, u : t = term /\ u = Written(t, c)
    OBVIOUS
  <2>2. term' = u /\ unsent' = unsent \cup Changed(t, u) /\ narrow' = narrow
    BY <1>4, <2>1, Zenon DEF Write
  <2>3. ASSUME ~ narrow  PROVE Right(term') /\ Covered(term', unsent')
    <3>1. Right(t) /\ Covered(t, unsent) /\ t \in Terminal /\ c \in Output[t.ansi_state]
      BY <1>2, <1>4, <2>1, <2>3
    <3>2. Right(u) /\ Tells(t, u)
      BY <2>1, <3>1, WriteFacts
    <3>3. Covered(u, unsent \cup Changed(t, u))
      BY <3>1, <3>2, ToldFacts
    <3> QED
      BY <2>2, <3>2, <3>3
  <2> QED
    BY <1>1, <1>3, <2>2, <2>3, Zenon
<1>5. ASSUME Report  PROVE TermInv'
  <2>1. PICK t, u : t = term /\ u = [t EXCEPT !.last_update = [t.last_update EXCEPT !.dirty = FALSE]]
    OBVIOUS
  <2>2. /\ term' = u /\ narrow' = narrow
        /\ unsent' = IF t.last_update.dirty THEN {} ELSE unsent
    BY <1>5, <2>1 DEF Report
  <2>3. ASSUME ~ narrow  PROVE Right(term') /\ Covered(term', unsent')
    <3>1. Right(t) /\ Covered(t, unsent) /\ t \in Terminal
      BY <1>2, <2>1, <2>3
    <3>2. PICK r : r = [t.last_update EXCEPT !.dirty = FALSE]
      OBVIOUS
    <3>3. r \in Rect
      <4>1. t.last_update \in Rect
        BY <3>1 DEF Terminal
      <4>2. PICK d \in BOOLEAN : d = FALSE
        OBVIOUS
      <4>3. r = [t.last_update EXCEPT !.dirty = d]
        BY <3>2, <4>2
      <4> QED
        BY <4>1, <4>3 DEF Rect
    <3>4. u = [t EXCEPT !.last_update = r]
      BY <2>1, <3>2
    <3>5. /\ u \in Terminal /\ u.width = t.width /\ u.height = t.height
          /\ u.cols = t.cols /\ u.rows = t.rows /\ u.fb = t.fb /\ u.text_buffer = t.text_buffer
          /\ u.cursor_x = t.cursor_x /\ u.cursor_y = t.cursor_y /\ u.broken = t.broken
          /\ u.ansi_param_count = t.ansi_param_count
      BY <3>1, <3>3, <3>4 DEF Terminal
    <3>6. Fits(u)
      BY <3>1, <3>5 DEF Right, Fits
    <3>7. CursorIn(u)
      BY <3>1, <3>5 DEF Right, CursorIn
    <3>8. \A a, b : Shown(u, a, b) = Shown(t, a, b)
      BY <3>5, ZenonT(60) DEF Shown
    <3>9. Exact(u)
      <4>1. Exact(t)
        BY <3>1 DEF Right
      <4> QED
        BY <3>5, <3>8, <4>1 DEF Exact
    <3>10. unsent' = {}
      <4>1. CASE unsent = {}
        BY <2>2, <4>1
      <4>2. CASE unsent # {}
        <5>1. PICK p : p \in unsent
          BY <4>2
        <5>2. t.last_update.dirty
          BY <3>1, <5>1, Zenon DEF Covered, Inside
        <5> QED
          BY <2>2, <5>2, Zenon
      <4> QED
        BY <4>1, <4>2
    <3>11. Covered(u, unsent')
      BY <3>10 DEF Covered
    <3> QED
      BY <2>2, <3>6, <3>7, <3>9, <3>11 DEF Right
  <2> QED
    BY <1>1, <1>3, <2>2, <2>3, Zenon
<1>6. ASSUME NEW s \in Sizes, ResizeGrid(s)  PROVE TermInv'
  <2>1. /\ term' = term_resize(term, s[1], s[2]) /\ unsent' = {}
        /\ narrow' = (narrow \/ s[1] < CW \/ s[2] < CH)
    BY <1>6 DEF ResizeGrid
  <2>2. narrow' \in BOOLEAN
    BY <1>1, <2>1, Zenon
  <2>3. ASSUME ~ narrow'  PROVE Right(term') /\ Covered(term', unsent')
    <3>1. ~ narrow /\ ~ (s[1] < CW \/ s[2] < CH)
      BY <2>1, <2>3, Zenon
    <3>2. PICK t : t = term
      OBVIOUS
    <3>3. Sizeable(t)
      BY <1>2, <3>1, <3>2 DEF Right, Fits, Sizeable
    <3>4. PICK w \in Nat, h \in Nat : w = s[1] /\ h = s[2] /\ CW <= w /\ CH <= h /\ w * h <= FB
      BY <3>1, WideFacts
    <3>5. term' = term_resize(t, w, h)
      BY <2>1, <3>2, <3>4
    <3>6. Right(term')
      BY <3>3, <3>4, <3>5, ResizeFacts
    <3>7. Covered(term', unsent')
      BY <2>1 DEF Covered
    <3> QED
      BY <3>6, <3>7
  <2> QED
    BY <1>3, <2>2, <2>3, Zenon
<1>7. ASSUME ClearGrid  PROVE TermInv'
  <2>1. PICK t, u : t = term /\ u = term_clear(t)
    OBVIOUS
  <2>2. term' = u /\ unsent' = unsent \cup Changed(t, u) /\ narrow' = narrow
    BY <1>7, <2>1 DEF ClearGrid
  <2>3. ASSUME ~ narrow  PROVE Right(term') /\ Covered(term', unsent')
    <3>1. Right(t) /\ Fits(t) /\ Covered(t, unsent) /\ t \in Terminal
      BY <1>2, <2>1, <2>3 DEF Right
    <3>2. Right(u) /\ Tells(t, u)
      BY <2>1, <3>1, ClearGridFacts
    <3>3. Covered(u, unsent \cup Changed(t, u))
      BY <3>1, <3>2, ToldFacts
    <3> QED
      BY <2>2, <3>2, <3>3
  <2> QED
    BY <1>1, <1>3, <2>2, <2>3, Zenon
<1>8. ASSUME UNCHANGED term_vars  PROVE TermInv'
  <2>1. term' = term /\ narrow' = narrow /\ unsent' = unsent
    BY <1>8 DEF term_vars
  <2>2. ~ narrow => Right(term') /\ Covered(term', unsent')
    BY <1>2, <2>1
  <2> QED
    BY <1>1, <1>3, <2>1, <2>2, Zenon
<1> QED
  BY <1>4, <1>5, <1>6, <1>7, <1>8 DEF TermNext

\* As long as no window is smaller than a glyph, the grid fits its window and the
\* window its buffer, the cursor is in the grid, the window shows the grid, and
\* what the window manager was not told of is in the rectangle it will be told of.
THEOREM TermInvariant == TermSpec => []TermInv
  BY InitTermInv, NextTermInv, PTL DEF TermSpec

\* No character, escape code, picture, scroll, clear or resize reads or writes
\* outside text_buffer or the frame buffer, and the cursor is in the grid after it.
THEOREM GridTheorem == TermSpec => []GridSafe
<1>1. TermInv => GridSafe
  <2> SUFFICES ASSUME TermInv, ~ narrow
               PROVE  /\ ~ term.broken
                      /\ term.cursor_x \in 0 .. term.cols - 1
                      /\ term.cursor_y \in 0 .. term.rows - 1
    BY DEF GridSafe
  <2>1. Fits(term) /\ CursorIn(term)
    BY Zenon DEF TermInv
  <2>2. ~ term.broken /\ term \in Terminal
    BY <2>1, Zenon DEF Fits
  <2>3. term.cursor_x \in Nat /\ term.cursor_y \in Nat /\ term.cols \in Nat /\ term.rows \in Nat
    BY <2>2 DEF Terminal
  <2>4. term.cursor_x < term.cols /\ term.cursor_y < term.rows
    BY <2>1 DEF CursorIn
  <2>5. term.cursor_x \in 0 .. term.cols - 1 /\ term.cursor_y \in 0 .. term.rows - 1
    BY <2>3, <2>4
  <2> QED
    BY <2>2, <2>5
<1> QED
  BY <1>1, TermInvariant, PTL

\* Drawing only the two cells a character touches, and everything after a scroll,
\* a clear or a resize, leaves every pixel of the window as the grid says.
THEOREM ScreenTheorem == TermSpec => []ScreenExact
<1>1. TermInv => ScreenExact
  <2>1. ASSUME TermInv, ~ narrow  PROVE Exact(term)
    BY <2>1, Zenon DEF TermInv
  <2> QED
    BY <2>1 DEF ScreenExact, Exact
<1> QED
  BY <1>1, TermInvariant, PTL

\* last_update takes in every pixel that changed since the last report.
THEOREM DirtyTheorem == TermSpec => []DirtyCovers
<1>1. TermInv => DirtyCovers
  <2>1. ASSUME TermInv, ~ narrow  PROVE Covered(term, unsent)
    BY <2>1, Zenon DEF TermInv
  <2> QED
    BY <2>1, Zenon DEF DirtyCovers, Covered, Inside
<1> QED
  BY <1>1, TermInvariant, PTL
=============================================================================

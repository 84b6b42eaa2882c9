---------------------------- MODULE QueueProofs ----------------------------
(***************************************************************************)
(* The two kinds of ring buffer.  The message queues implement bounded     *)
(* FIFO queues, for every queue size and any number of processes: these    *)
(* theorems are about Spec of Ipc and use nothing of the keyboard.  And    *)
(* the keys that wait for sys_read_key are the strokes that were made, for *)
(* a ring of any size, any keyboard of scan code set 1 and any number of   *)
(* codes waiting in the controller.                                        *)
(***************************************************************************)
EXTENDS Keyboard, SequenceTheorems, TLAPS

\* The remainder of an index that ran over the end of a ring at most once.
LEMMA ModFacts ==
    ASSUME NEW n \in Nat \ {0}, NEW x \in Nat, x < 2 * n
    PROVE  /\ x % n = IF x < n THEN x ELSE x - n
           /\ x % n \in 0 .. n - 1
  OBVIOUS

IndInv == TypeOK /\ RingConsistent

\* Advancing an index of the ring.
LEMMA AdvanceIndex ==
    ASSUME NEW i \in Index
    PROVE  Advance(i) \in Index /\ Advance(i) = IF i + 1 = MSG_QUEUE_SIZE THEN 0 ELSE i + 1
<1>. DEFINE x == i + 1
<1>1. MSG_QUEUE_SIZE \in Nat \ {0} /\ x \in Nat /\ x < 2 * MSG_QUEUE_SIZE
      /\ x <= MSG_QUEUE_SIZE
  BY IpcConstants DEF Index
<1>2. Advance(i) = x % MSG_QUEUE_SIZE
  BY DEF Advance
<1>3. Advance(i) \in Index /\ Advance(i) = IF x = MSG_QUEUE_SIZE THEN 0 ELSE x
  <2>. HIDE DEF x
  <2>1. Advance(i) = IF x < MSG_QUEUE_SIZE THEN x ELSE x - MSG_QUEUE_SIZE
    BY <1>1, <1>2, ModFacts
  <2>. QED
    BY <1>1, <2>1 DEF Index
<1>. QED
  BY <1>3

\* The slots a ring reaches from its head.
LEMMA SlotIndex ==
    ASSUME TypeOK, NEW p \in Pid, NEW i \in 1 .. MSG_QUEUE_SIZE + 1
    PROVE  /\ Slot(p, i) \in Index
           /\ Slot(p, i) = IF msg_head[p] + i - 1 < MSG_QUEUE_SIZE
                           THEN msg_head[p] + i - 1
                           ELSE msg_head[p] + i - 1 - MSG_QUEUE_SIZE
<1>. DEFINE x == msg_head[p] + i - 1
<1>1. MSG_QUEUE_SIZE \in Nat \ {0} /\ x \in Nat /\ x < 2 * MSG_QUEUE_SIZE
  BY IpcConstants DEF TypeOK, Index
<1>2. Slot(p, i) = x % MSG_QUEUE_SIZE
  BY DEF Slot
<1>3. /\ Slot(p, i) = IF x < MSG_QUEUE_SIZE THEN x ELSE x - MSG_QUEUE_SIZE
      /\ Slot(p, i) \in Index
  <2>. HIDE DEF x
  <2>1. Slot(p, i) = IF x < MSG_QUEUE_SIZE THEN x ELSE x - MSG_QUEUE_SIZE
    BY <1>1, <1>2, ModFacts
  <2>. QED
    BY <1>1, <2>1 DEF Index
<1>4. msg_head[p] \in Nat /\ i \in Nat /\ MSG_QUEUE_SIZE \in Nat
  BY IpcConstants DEF TypeOK, Index
<1>. QED
  BY <1>3, <1>4

\* The tail is the slot behind the last pending message.
LEMMA TailSlot ==
    ASSUME IndInv, NEW p \in Pid
    PROVE  msg_tail[p] = Slot(p, msg_count[p] + 1)
<1>1. msg_count[p] \in Nat /\ msg_head[p] \in Nat
  BY IpcConstants DEF IndInv, TypeOK, Index
<1>2. msg_head[p] + (msg_count[p] + 1) - 1 = msg_head[p] + msg_count[p]
  BY <1>1
<1>. QED
  BY <1>2 DEF IndInv, RingConsistent, Slot

\* A send appends.
LEMMA SendAppends ==
    ASSUME IndInv, NEW p \in Pid, NEW dest \in Pid, NEW d \in Payload, SendOk(p, dest, d)
    PROVE  /\ IndInv'
           /\ msg_count[dest] < MSG_QUEUE_SIZE
           /\ \A r \in Pid \ {dest} : Pending(r)' = Pending(r)
           /\ msg_count'[dest] = msg_count[dest] + 1
           /\ \A i \in 1 .. msg_count[dest] : Pending(dest)'[i] = Pending(dest)[i]
           /\ Pending(dest)'[msg_count[dest] + 1] = [sender_pid |-> p, payload |-> d]
<1>. DEFINE m == [sender_pid |-> p, payload |-> d]
            c == msg_count[dest]
            t == msg_tail[dest]
<1>1. /\ MSG_QUEUE_SIZE \in Nat \ {0} /\ c \in Nat /\ c < MSG_QUEUE_SIZE
      /\ t \in Index /\ m \in Message /\ m # NoMsg /\ msg_head[dest] \in Index
  BY IpcConstants DEF IndInv, TypeOK, SendOk, Full, Message
<1>2. /\ msgs' = [msgs EXCEPT ![dest] = [@ EXCEPT ![t] = m]]
      /\ msg_tail' = [msg_tail EXCEPT ![dest] = Advance(t)]
      /\ msg_count' = [msg_count EXCEPT ![dest] = c + 1]
      /\ msg_head' = msg_head /\ state' = state
      /\ reply' = Reply(p, 0, NoMsg)
  BY DEF SendOk, IndInv, TypeOK
<1>3. TypeOK'
  <2>1. msgs' \in [Pid -> [Index -> Message \cup {NoMsg}]]
    BY <1>1, <1>2 DEF IndInv, TypeOK
  <2>2. msg_tail' \in [Pid -> Index]
    BY <1>1, <1>2, AdvanceIndex DEF IndInv, TypeOK
  <2>3. msg_count' \in [Pid -> 0 .. MSG_QUEUE_SIZE]
    BY <1>1, <1>2 DEF IndInv, TypeOK
  <2>4. reply' \in [pid : Pid, ret : {0, -1, -2}, msg : Message \cup {NoMsg}]
    BY <1>2 DEF Reply
  <2>. QED
    BY <2>1, <2>2, <2>3, <2>4, <1>2 DEF IndInv, TypeOK
<1>4. \A r \in Pid, i \in Nat : Slot(r, i)' = Slot(r, i)
  BY <1>2 DEF Slot
<1>5. t = Slot(dest, c + 1)
  BY TailSlot
<1>6. \A i \in 1 .. c : Slot(dest, i) \in Index /\ Slot(dest, i) # t
  <2>. SUFFICES ASSUME NEW i \in 1 .. c
                PROVE  Slot(dest, i) \in Index /\ Slot(dest, i) # Slot(dest, c + 1)
    BY <1>5
  <2>1. i \in 1 .. MSG_QUEUE_SIZE + 1 /\ c + 1 \in 1 .. MSG_QUEUE_SIZE + 1
        /\ i <= MSG_QUEUE_SIZE /\ c + 1 <= MSG_QUEUE_SIZE
    BY <1>1
  <2>2. /\ Slot(dest, i) \in Index
        /\ Slot(dest, i) = IF msg_head[dest] + i - 1 < MSG_QUEUE_SIZE
                           THEN msg_head[dest] + i - 1
                           ELSE msg_head[dest] + i - 1 - MSG_QUEUE_SIZE
    BY <2>1, SlotIndex DEF IndInv
  <2>3. Slot(dest, c + 1) = IF msg_head[dest] + (c + 1) - 1 < MSG_QUEUE_SIZE
                            THEN msg_head[dest] + (c + 1) - 1
                            ELSE msg_head[dest] + (c + 1) - 1 - MSG_QUEUE_SIZE
    BY <2>1, SlotIndex DEF IndInv
  <2>. QED
    BY <2>2, <2>3, <1>1 DEF Index
<1>7. /\ \A i \in 1 .. c : msgs'[dest][Slot(dest, i)] = msgs[dest][Slot(dest, i)]
      /\ msgs'[dest][t] = m
      /\ \A r \in Pid \ {dest} : msgs'[r] = msgs[r]
  BY <1>1, <1>2, <1>6 DEF IndInv, TypeOK
<1>8. msg_count'[dest] = c + 1 /\ \A r \in Pid \ {dest} : msg_count'[r] = msg_count[r]
  BY <1>2 DEF IndInv, TypeOK
<1>9. RingConsistent'
  <2>. SUFFICES ASSUME NEW r \in Pid
                PROVE  /\ msg_tail'[r] = (msg_head'[r] + msg_count'[r]) % MSG_QUEUE_SIZE
                       /\ \A i \in 1 .. msg_count'[r] : msgs'[r][Slot(r, i)'] # NoMsg
    BY DEF RingConsistent
  <2>1. CASE r # dest
    <3>1. msg_tail'[r] = msg_tail[r] /\ msg_count'[r] = msg_count[r] /\ msgs'[r] = msgs[r]
      BY <2>1, <1>2, <1>7, <1>8 DEF IndInv, TypeOK
    <3>2. \A i \in 1 .. msg_count[r] : Slot(r, i)' = Slot(r, i)
      BY <1>4
    <3>. QED
      BY <3>1, <3>2, <1>2 DEF IndInv, RingConsistent
  <2>2. CASE r = dest
    <3>1. msg_tail'[dest] = (msg_head[dest] + (c + 1)) % MSG_QUEUE_SIZE
      <4>1. msg_tail'[dest] = Advance(t)
        BY <1>2 DEF IndInv, TypeOK
      <4>2. t = (msg_head[dest] + c) % MSG_QUEUE_SIZE
        BY DEF IndInv, RingConsistent
      <4>. DEFINE x == msg_head[dest] + c
                  y == msg_head[dest] + (c + 1)
      <4>3. x \in Nat /\ x < 2 * MSG_QUEUE_SIZE /\ y \in Nat /\ y < 2 * MSG_QUEUE_SIZE
            /\ y = x + 1
        BY <1>1 DEF Index
      <4>4. Advance(t) = IF t + 1 = MSG_QUEUE_SIZE THEN 0 ELSE t + 1
        BY <1>1, AdvanceIndex
      <4>. HIDE DEF x, y
      <4>5. t = IF x < MSG_QUEUE_SIZE THEN x ELSE x - MSG_QUEUE_SIZE
        <5>1. t = x % MSG_QUEUE_SIZE
          BY <4>2 DEF x
        <5>. QED
          BY <5>1, <4>3, <1>1, ModFacts
      <4>6. y % MSG_QUEUE_SIZE = IF y < MSG_QUEUE_SIZE THEN y ELSE y - MSG_QUEUE_SIZE
        BY <4>3, <1>1, ModFacts
      <4>7. msg_tail'[dest] = y % MSG_QUEUE_SIZE
        BY <4>1, <4>3, <4>4, <4>5, <4>6, <1>1
      <4>. QED
        BY <4>7 DEF y
    <3>2. \A i \in 1 .. c + 1 : Slot(dest, i)' = Slot(dest, i)
      BY <1>1, <1>4
    <3>3. ASSUME NEW i \in 1 .. c + 1
          PROVE  msgs'[dest][Slot(dest, i)] # NoMsg
      <4>1. CASE i = c + 1
        BY <4>1, <1>1, <1>5, <1>7
      <4>2. CASE i # c + 1
        <5>1. i \in 1 .. c
          BY <4>2, <1>1
        <5>. QED
          BY <5>1, <1>7 DEF IndInv, RingConsistent
      <4>. QED
        BY <4>1, <4>2
    <3>. QED
      BY <2>2, <3>1, <3>2, <3>3, <1>2, <1>8
  <2>. QED
    BY <2>1, <2>2
<1>10. \A r \in Pid \ {dest} : Pending(r)' = Pending(r)
  <2>. SUFFICES ASSUME NEW r \in Pid \ {dest}
                PROVE  Pending(r)' = Pending(r)
    OBVIOUS
  <2>1. \A i \in 1 .. msg_count[r] : Slot(r, i)' = Slot(r, i)
    BY <1>4
  <2>. QED
    BY <2>1, <1>7, <1>8 DEF Pending
<1>11. \A i \in 1 .. c + 1 : Pending(dest)'[i] = msgs'[dest][Slot(dest, i)]
  BY <1>1, <1>4, <1>8 DEF Pending
<1>12. \A i \in 1 .. c : Pending(dest)'[i] = Pending(dest)[i]
  BY <1>1, <1>7, <1>11 DEF Pending
<1>13. Pending(dest)'[c + 1] = m
  BY <1>1, <1>5, <1>7, <1>11
<1>. QED
  BY <1>1, <1>3, <1>8, <1>9, <1>10, <1>12, <1>13 DEF IndInv

\* A receive takes the oldest message.
LEMMA RecvTakesOldest ==
    ASSUME IndInv, NEW p \in Pid, RecvOk(p)
    PROVE  /\ IndInv'
           /\ msg_count[p] > 0
           /\ \A r \in Pid \ {p} : Pending(r)' = Pending(r)
           /\ msg_count'[p] = msg_count[p] - 1
           /\ \A i \in 1 .. msg_count[p] - 1 : Pending(p)'[i] = Pending(p)[i + 1]
           /\ reply' = Reply(p, 0, Pending(p)[1])
<1>. DEFINE c == msg_count[p]
            h == msg_head[p]
<1>1. /\ MSG_QUEUE_SIZE \in Nat \ {0} /\ c \in 1 .. MSG_QUEUE_SIZE
      /\ h \in Index /\ h \in Nat /\ h < MSG_QUEUE_SIZE
  BY IpcConstants DEF IndInv, TypeOK, RecvOk, Index
<1>2. /\ msg_head' = [msg_head EXCEPT ![p] = Advance(h)]
      /\ msg_count' = [msg_count EXCEPT ![p] = c - 1]
      /\ msgs' = msgs /\ msg_tail' = msg_tail /\ state' = state
      /\ reply' = Reply(p, 0, msgs[p][h])
  BY DEF RecvOk, IndInv, TypeOK
<1>3. TypeOK'
  <2>1. msg_head' \in [Pid -> Index]
    BY <1>1, <1>2, AdvanceIndex DEF IndInv, TypeOK
  <2>2. msg_count' \in [Pid -> 0 .. MSG_QUEUE_SIZE]
    BY <1>1, <1>2 DEF IndInv, TypeOK
  <2>3. reply' \in [pid : Pid, ret : {0, -1, -2}, msg : Message \cup {NoMsg}]
    BY <1>1, <1>2 DEF Reply, IndInv, TypeOK
  <2>. QED
    BY <2>1, <2>2, <2>3, <1>2 DEF IndInv, TypeOK
<1>4. \A r \in Pid \ {p} : msg_head'[r] = msg_head[r] /\ msg_count'[r] = msg_count[r]
  BY <1>2 DEF IndInv, TypeOK
<1>5. msg_head'[p] = Advance(h) /\ msg_count'[p] = c - 1
  BY <1>2 DEF IndInv, TypeOK
<1>6. Advance(h) = IF h + 1 = MSG_QUEUE_SIZE THEN 0 ELSE h + 1
  BY <1>1, AdvanceIndex
<1>7. ASSUME NEW i \in 1 .. MSG_QUEUE_SIZE
      PROVE  Slot(p, i)' = Slot(p, i + 1)
  <2>1. i \in Nat /\ i >= 1 /\ i <= MSG_QUEUE_SIZE
        /\ i \in 1 .. MSG_QUEUE_SIZE + 1 /\ i + 1 \in 1 .. MSG_QUEUE_SIZE + 1
    BY <1>1
  <2>2. Slot(p, i + 1) = IF h + (i + 1) - 1 < MSG_QUEUE_SIZE
                         THEN h + (i + 1) - 1
                         ELSE h + (i + 1) - 1 - MSG_QUEUE_SIZE
    BY <2>1, SlotIndex DEF IndInv
  <2>. DEFINE g == msg_head'[p]
              x == g + i - 1
  <2>3. g \in Nat /\ g < MSG_QUEUE_SIZE
    BY <1>1, <1>5, <1>6
  <2>4. x \in Nat /\ x < 2 * MSG_QUEUE_SIZE
    BY <2>1, <2>3, <1>1
  <2>5. Slot(p, i)' = x % MSG_QUEUE_SIZE
    BY DEF Slot
  <2>6. Slot(p, i)' = IF x < MSG_QUEUE_SIZE THEN x ELSE x - MSG_QUEUE_SIZE
    <3>. HIDE DEF x
    <3>. QED
      BY <2>4, <2>5, <1>1, ModFacts
  <2>7. CASE h + 1 = MSG_QUEUE_SIZE
    <3>1. g = 0
      BY <2>7, <1>5, <1>6
    <3>. QED
      BY <3>1, <2>1, <2>2, <2>6, <2>7, <1>1
  <2>8. CASE h + 1 # MSG_QUEUE_SIZE
    <3>1. g = h + 1
      BY <2>8, <1>5, <1>6
    <3>. QED
      BY <3>1, <2>1, <2>2, <2>6, <2>8, <1>1
  <2>. QED
    BY <2>7, <2>8
<1>8. \A r \in Pid \ {p}, i \in Nat : Slot(r, i)' = Slot(r, i)
  BY <1>4 DEF Slot
<1>9. RingConsistent'
  <2>. SUFFICES ASSUME NEW r \in Pid
                PROVE  /\ msg_tail'[r] = (msg_head'[r] + msg_count'[r]) % MSG_QUEUE_SIZE
                       /\ \A i \in 1 .. msg_count'[r] : msgs'[r][Slot(r, i)'] # NoMsg
    BY DEF RingConsistent
  <2>1. CASE r # p
    <3>1. \A i \in 1 .. msg_count[r] : Slot(r, i)' = Slot(r, i)
      BY <2>1, <1>8
    <3>. QED
      BY <2>1, <3>1, <1>2, <1>4 DEF IndInv, RingConsistent
  <2>2. CASE r = p
    <3>1. \A i \in 1 .. c - 1 : Slot(p, i)' = Slot(p, i + 1) /\ i + 1 \in 1 .. c
      BY <1>1, <1>7
    <3>2. \A i \in 1 .. msg_count'[p] : msgs'[p][Slot(p, i)'] # NoMsg
      BY <3>1, <1>2, <1>5 DEF IndInv, RingConsistent
    <3>. PICK k \in 1 .. MSG_QUEUE_SIZE : k = c
      BY <1>1
    <3>3. msg_tail[p] = Slot(p, k + 1)
      BY TailSlot
    <3>4. Slot(p, k)' = Slot(p, k + 1)
      BY <1>7
    <3>5. Slot(p, k)' = (msg_head'[p] + k - 1) % MSG_QUEUE_SIZE
      BY DEF Slot
    <3>6. msg_head'[p] + k - 1 = msg_head'[p] + msg_count'[p]
      BY <1>5
    <3>. QED
      BY <2>2, <3>2, <3>3, <3>4, <3>5, <3>6, <1>2
  <2>. QED
    BY <2>1, <2>2
<1>10. \A r \in Pid \ {p} : Pending(r)' = Pending(r)
  <2>. SUFFICES ASSUME NEW r \in Pid \ {p}
                PROVE  Pending(r)' = Pending(r)
    OBVIOUS
  <2>1. \A i \in 1 .. msg_count[r] : Slot(r, i)' = Slot(r, i)
    BY <1>8
  <2>. QED
    BY <2>1, <1>2, <1>4 DEF Pending
<1>11. \A i \in 1 .. c - 1 : Pending(p)'[i] = Pending(p)[i + 1]
  <2>. SUFFICES ASSUME NEW i \in 1 .. c - 1
                PROVE  Pending(p)'[i] = Pending(p)[i + 1]
    OBVIOUS
  <2>1. Slot(p, i)' = Slot(p, i + 1)
    BY <1>1, <1>7
  <2>2. Pending(p)'[i] = msgs'[p][Slot(p, i)']
    BY <1>5 DEF Pending
  <2>3. Pending(p)[i + 1] = msgs[p][Slot(p, i + 1)]
    BY <1>1 DEF Pending
  <2>. QED
    BY <2>1, <2>2, <2>3, <1>2
<1>12. reply' = Reply(p, 0, Pending(p)[1])
  <2>1. Slot(p, 1) = h
    <3>1. 1 \in 1 .. MSG_QUEUE_SIZE + 1
      BY <1>1
    <3>2. Slot(p, 1) = IF h + 1 - 1 < MSG_QUEUE_SIZE THEN h + 1 - 1
                                                    ELSE h + 1 - 1 - MSG_QUEUE_SIZE
      BY <3>1, SlotIndex DEF IndInv
    <3>. QED
      BY <3>2, <1>1
  <2>2. Pending(p)[1] = msgs[p][h]
    BY <2>1, <1>1 DEF Pending
  <2>. QED
    BY <2>2, <1>2
<1>. QED
  BY <1>1, <1>3, <1>5, <1>9, <1>10, <1>11, <1>12 DEF IndInv

-----------------------------------------------------------------------------
(***************************************************************************)
(* The invariant and the refinement.                                       *)
(***************************************************************************)

\* The pending messages of a process are a sequence of messages.
LEMMA PendingIsSeq ==
    ASSUME IndInv, NEW p \in Pid
    PROVE  Pending(p) \in Seq(Message) /\ Len(Pending(p)) = msg_count[p]
<1>1. msg_count[p] \in Nat /\ msg_count[p] <= MSG_QUEUE_SIZE /\ MSG_QUEUE_SIZE \in Nat
  BY IpcConstants DEF IndInv, TypeOK
<1>2. ASSUME NEW i \in 1 .. msg_count[p]
      PROVE  msgs[p][Slot(p, i)] \in Message
  <2>1. i \in 1 .. MSG_QUEUE_SIZE + 1
    BY <1>1
  <2>2. Slot(p, i) \in Index
    BY <2>1, SlotIndex DEF IndInv
  <2>. QED
    BY <2>2 DEF IndInv, TypeOK, RingConsistent
<1>3. Pending(p) \in [1 .. msg_count[p] -> Message]
  BY <1>2 DEF Pending
<1>. QED
  BY <1>1, <1>3

PendingSeqs ==
    \A p \in Pid : Pending(p) \in Seq(Message) /\ Len(Pending(p)) = msg_count[p]

LEMMA PendingAreSeqs == IndInv => PendingSeqs
  BY PendingIsSeq DEF PendingSeqs

\* The invariant holds of the queues at boot.
LEMMA InitInv == Init => IndInv
<1>. SUFFICES ASSUME Init
              PROVE  IndInv
  OBVIOUS
<1>1. MSG_QUEUE_SIZE \in Nat \ {0} /\ 0 \in Index
  BY IpcConstants DEF Index
<1>2. TypeOK
  BY <1>1 DEF Init, TypeOK, Reply
<1>3. 0 % MSG_QUEUE_SIZE = 0
  BY <1>1, ModFacts
<1>4. RingConsistent
  <2>. SUFFICES ASSUME NEW p \in Pid
                PROVE  /\ msg_tail[p] = (msg_head[p] + msg_count[p]) % MSG_QUEUE_SIZE
                       /\ \A i \in 1 .. msg_count[p] : msgs[p][Slot(p, i)] # NoMsg
    BY DEF RingConsistent
  <2>1. msg_tail[p] = 0 /\ msg_head[p] + msg_count[p] = 0 /\ msg_count[p] = 0
    BY DEF Init
  <2>. QED
    BY <2>1, <1>3
<1>. QED
  BY <1>2, <1>4 DEF IndInv

\* A new process starts with an empty ring.
LEMMA CreateInv ==
    ASSUME IndInv, NEW p \in Pid, Create(p)
    PROVE  /\ IndInv'
           /\ \A r \in Pid \ {p} : Pending(r)' = Pending(r)
           /\ msg_count'[p] = 0
<1>1. MSG_QUEUE_SIZE \in Nat \ {0} /\ 0 \in Index /\ 0 % MSG_QUEUE_SIZE = 0
  BY IpcConstants, ModFacts DEF Index
<1>2. TypeOK'
  BY <1>1 DEF IndInv, TypeOK, Create
<1>3. /\ \A r \in Pid \ {p} : /\ msg_head'[r] = msg_head[r] /\ msg_tail'[r] = msg_tail[r]
                              /\ msg_count'[r] = msg_count[r] /\ msgs'[r] = msgs[r]
      /\ msg_head'[p] = 0 /\ msg_tail'[p] = 0 /\ msg_count'[p] = 0
  BY DEF IndInv, TypeOK, Create
<1>4. \A r \in Pid \ {p}, i \in Nat : Slot(r, i)' = Slot(r, i)
  BY <1>3 DEF Slot
<1>5. RingConsistent'
  <2>. SUFFICES ASSUME NEW r \in Pid
                PROVE  /\ msg_tail'[r] = (msg_head'[r] + msg_count'[r]) % MSG_QUEUE_SIZE
                       /\ \A i \in 1 .. msg_count'[r] : msgs'[r][Slot(r, i)'] # NoMsg
    BY DEF RingConsistent
  <2>1. CASE r # p
    BY <2>1, <1>3, <1>4 DEF IndInv, RingConsistent
  <2>2. CASE r = p
    BY <2>2, <1>1, <1>3
  <2>. QED
    BY <2>1, <2>2
<1>6. \A r \in Pid \ {p} : Pending(r)' = Pending(r)
  BY <1>3, <1>4 DEF Pending
<1>. QED
  BY <1>2, <1>3, <1>5, <1>6 DEF IndInv

\* The steps that leave every queue alone.
LEMMA QueuesUnchanged ==
    ASSUME IndInv, UNCHANGED queueVars,
           state' \in [Pid -> {"unborn", "alive", "dead"}],
           reply' \in [pid : Pid, ret : {0, -1, -2}, msg : Message \cup {NoMsg}]
    PROVE  IndInv' /\ \A p \in Pid : Pending(p)' = Pending(p)
<1>1. \A p \in Pid, i \in Nat : Slot(p, i)' = Slot(p, i)
  BY DEF queueVars, Slot
<1>2. TypeOK' /\ RingConsistent'
  BY <1>1 DEF IndInv, TypeOK, RingConsistent, queueVars
<1>3. \A p \in Pid : Pending(p)' = Pending(p)
  BY <1>1 DEF queueVars, Pending
<1>. QED
  BY <1>2, <1>3 DEF IndInv

\* The rings of the initial state are empty queues.
LEMMA InitRefines ==
    ASSUME Init
    PROVE  Abstract!Init
<1>1. Alive = {}
  BY DEF Init, Alive
<1>2. ASSUME NEW p \in Pid
      PROVE  Pending(p) = <<>>
  <2>1. msg_count[p] = 0
    BY DEF Init
  <2>. QED
    BY <2>1 DEF Pending
<1>. QED
  BY <1>1, <1>2 DEF Init, Abstract!Init, Reply, Abstract!Reply

\* Each step on a ring is the step of the abstract queue, or none.
LEMMA StepRefines ==
    ASSUME IndInv, [Next]_vars
    PROVE  IndInv' /\ [Abstract!Next]_Abstract!vars
<1>. DEFINE q == [r \in Pid |-> Pending(r)]
<1>0. Alive \subseteq Pid /\ q \in [Pid -> Seq(Message)]
  BY PendingIsSeq DEF Alive
<1>1. ASSUME NEW p \in Pid, Create(p)
      PROVE  IndInv' /\ Abstract!Create(p)
  <2>1. IndInv' /\ (\A r \in Pid \ {p} : Pending(r)' = Pending(r)) /\ msg_count'[p] = 0
    BY <1>1, CreateInv
  <2>2. Pending(p)' = <<>>
    BY <2>1 DEF Pending
  <2>3. Alive' = Alive \cup {p}
    BY <1>1 DEF Create, Alive, IndInv, TypeOK
  <2>4. q' = [q EXCEPT ![p] = <<>>]
    BY <2>1, <2>2
  <2>5. reply' = reply
    BY <1>1 DEF Create
  <2>. QED
    BY <2>1, <2>3, <2>4, <2>5 DEF Abstract!Create
<1>2. ASSUME NEW p \in Pid, Exit(p)
      PROVE  IndInv' /\ Abstract!Exit(p)
  <2>1. IndInv' /\ \A r \in Pid : Pending(r)' = Pending(r)
    BY <1>2, QueuesUnchanged DEF Exit, IndInv, TypeOK
  <2>2. Alive' = Alive \ {p} /\ p \in Alive
    BY <1>2 DEF Exit, Alive, IndInv, TypeOK
  <2>3. q' = q /\ reply' = reply
    BY <2>1, <1>2 DEF Exit
  <2>. QED
    BY <2>1, <2>2, <2>3 DEF Abstract!Exit
<1>3. ASSUME NEW p \in Pid, NEW dest \in Pid, NEW d \in Payload,
             SendNoTarget(p, dest) \/ SendFull(p, dest)
      PROVE  IndInv' /\ Abstract!Send(p, dest, d)
  <2>1. reply' \in [pid : Pid, ret : {0, -1, -2}, msg : Message \cup {NoMsg}]
    BY <1>3 DEF SendNoTarget, SendFull, Reply
  <2>2. IndInv' /\ \A r \in Pid : Pending(r)' = Pending(r)
    BY <1>3, <2>1, QueuesUnchanged DEF SendNoTarget, SendFull, IndInv, TypeOK
  <2>3. q' = q /\ Alive' = Alive
    BY <2>2, <1>3 DEF SendNoTarget, SendFull, Alive
  <2>4. CASE SendNoTarget(p, dest)
    BY <2>2, <2>3, <2>4 DEF SendNoTarget, Abstract!Send, Reply, Abstract!Reply
  <2>5. CASE SendFull(p, dest)
    <3>1. Len(q[dest]) = MSG_QUEUE_SIZE
      BY <2>5, PendingIsSeq, IpcConstants DEF SendFull, Full, IndInv, TypeOK
    <3>. QED
      BY <2>2, <2>3, <2>5, <3>1 DEF SendFull, Abstract!Send, Reply, Abstract!Reply
  <2>. QED
    BY <1>3, <2>4, <2>5
<1>4. ASSUME NEW p \in Pid, NEW dest \in Pid, NEW d \in Payload, SendOk(p, dest, d)
      PROVE  IndInv' /\ Abstract!Send(p, dest, d)
  <2>. DEFINE m == [sender_pid |-> p, payload |-> d]
              c == msg_count[dest]
  <2>1. /\ IndInv'
        /\ c < MSG_QUEUE_SIZE
        /\ \A r \in Pid \ {dest} : Pending(r)' = Pending(r)
        /\ msg_count'[dest] = c + 1
        /\ \A i \in 1 .. c : Pending(dest)'[i] = Pending(dest)[i]
        /\ Pending(dest)'[c + 1] = m
    BY <1>4, SendAppends
  <2>2. /\ Pending(dest) \in Seq(Message) /\ Len(Pending(dest)) = c
        /\ Pending(dest)' \in Seq(Message) /\ Len(Pending(dest)') = c + 1
    <3>1. PendingSeqs'
      BY <2>1, PendingAreSeqs, PTL
    <3>. QED
      BY <2>1, <3>1, PendingIsSeq DEF Message, PendingSeqs
  <2>3. Pending(dest)' = Append(Pending(dest), m)
    <3>1. c \in Nat /\ m \in Message
      BY <2>2 DEF Message
    <3>. QED
      BY <2>1, <2>2, <3>1
  <2>4. q' = [q EXCEPT ![dest] = Append(q[dest], m)]
    BY <2>1, <2>3
  <2>5. Len(q[dest]) < MSG_QUEUE_SIZE
    BY <2>1, <2>2
  <2>6. Alive' = Alive /\ p \in Alive /\ dest \in Alive /\ reply' = Reply(p, 0, NoMsg)
    BY <1>4 DEF SendOk, Alive
  <2>. QED
    BY <2>1, <2>4, <2>5, <2>6 DEF Abstract!Send, Reply, Abstract!Reply
<1>5. ASSUME NEW p \in Pid, RecvEmpty(p)
      PROVE  IndInv' /\ Abstract!Recv(p)
  <2>1. reply' \in [pid : Pid, ret : {0, -1, -2}, msg : Message \cup {NoMsg}]
    BY <1>5 DEF RecvEmpty, Reply
  <2>2. IndInv' /\ \A r \in Pid : Pending(r)' = Pending(r)
    BY <1>5, <2>1, QueuesUnchanged DEF RecvEmpty, IndInv, TypeOK
  <2>3. q' = q /\ Alive' = Alive
    BY <2>2, <1>5 DEF RecvEmpty, Alive
  <2>4. q[p] = <<>>
    BY <1>5 DEF RecvEmpty, Pending
  <2>. QED
    BY <2>2, <2>3, <2>4, <1>5 DEF RecvEmpty, Abstract!Recv, Reply, Abstract!Reply
<1>6. ASSUME NEW p \in Pid, RecvOk(p)
      PROVE  IndInv' /\ Abstract!Recv(p)
  <2>. DEFINE c == msg_count[p]
  <2>1. /\ IndInv'
        /\ c > 0
        /\ \A r \in Pid \ {p} : Pending(r)' = Pending(r)
        /\ msg_count'[p] = c - 1
        /\ \A i \in 1 .. c - 1 : Pending(p)'[i] = Pending(p)[i + 1]
        /\ reply' = Reply(p, 0, Pending(p)[1])
    BY <1>6, RecvTakesOldest
  <2>2. /\ Pending(p) \in Seq(Message) /\ Len(Pending(p)) = c
        /\ Pending(p)' \in Seq(Message) /\ Len(Pending(p)') = c - 1
    <3>1. PendingSeqs'
      BY <2>1, PendingAreSeqs, PTL
    <3>. QED
      BY <2>1, <3>1, PendingIsSeq DEF Message, PendingSeqs
  <2>3. Pending(p)' = Tail(Pending(p)) /\ Head(Pending(p)) = Pending(p)[1] /\ Pending(p) # <<>>
    BY <2>1, <2>2
  <2>4. q' = [q EXCEPT ![p] = Tail(q[p])]
    BY <2>1, <2>3
  <2>5. Alive' = Alive /\ p \in Alive
    BY <1>6 DEF RecvOk, Alive
  <2>. QED
    BY <2>1, <2>3, <2>4, <2>5 DEF Abstract!Recv, Reply, Abstract!Reply
<1>7. ASSUME UNCHANGED vars
      PROVE  IndInv' /\ UNCHANGED Abstract!vars
  <2>1. IndInv' /\ \A r \in Pid : Pending(r)' = Pending(r)
    BY <1>7, QueuesUnchanged DEF vars, queueVars, IndInv, TypeOK
  <2>2. q' = q /\ Alive' = Alive /\ reply' = reply
    BY <2>1, <1>7 DEF vars, Alive
  <2>. QED
    BY <2>1, <2>2 DEF Abstract!vars
<1>8. CASE UNCHANGED vars
  BY <1>7, <1>8
<1>9. CASE Next
  <2>1. PICK p \in Pid :
          \/ Create(p)
          \/ Exit(p)
          \/ \E dest \in Pid : SendNoTarget(p, dest) \/ SendFull(p, dest)
          \/ \E dest \in Pid, d \in Payload : SendOk(p, dest, d)
          \/ RecvEmpty(p)
          \/ RecvOk(p)
    BY <1>9 DEF Next
  <2>. QED
    BY <2>1, <1>1, <1>2, <1>3, <1>4, <1>5, <1>6, IpcConstants DEF Abstract!Next
<1>. QED
  BY <1>8, <1>9

\* Every reachable state satisfies the invariant.
LEMMA Invariance == Spec => []IndInv
<1>1. IndInv /\ [Next]_vars => IndInv'
  BY StepRefines
<1>. QED
  BY <1>1, InitInv, PTL DEF Spec

\* No index of a message ring leaves it and no count exceeds the queue size.
THEOREM TypeCorrect == Spec => []TypeOK
  BY Invariance, PTL DEF IndInv

\* Head, tail and count of every queue agree, and only written slots are
\* received.
THEOREM RingTheorem == Spec => []RingConsistent
  BY Invariance, PTL DEF IndInv

\* sys_ipc_send and sys_ipc_recv implement bounded FIFO queues.
THEOREM QueueTheorem == Spec => ImplementsQueues
<1>1. Init => Abstract!Init
  BY InitRefines
<1>2. IndInv /\ [Next]_vars => [Abstract!Next]_Abstract!vars
  BY StepRefines
<1>. QED
  BY <1>1, <1>2, Invariance, PTL DEF Spec, ImplementsQueues, Abstract!Spec

-----------------------------------------------------------------------------
(***************************************************************************)
(* The keyboard driver.                                                    *)
(***************************************************************************)

N == KEYBOARD_RING_BUFFER_SIZE
KbIndex == 0 .. N - 1

\* The number of keys in a ring, and where the i-th is.
Count(k) == (k.head + N - k.tail) % N
Place(k, i) == (k.tail + i - 1) % N

\* What of the driver decides how it reads the codes to come.
Mode(k) == [mods |-> k.mods, e0_prefix |-> k.e0_prefix]

\* How a code changes it, and the key it gives.
After(s, code) ==
    LET mod == Sets(s, code % \h80)
    IN  IF code = \hE0 THEN [mods |-> s.mods, e0_prefix |-> TRUE]
        ELSE [mods |-> IF mod = "" THEN s.mods
                       ELSE IF code >= \h80 THEN s.mods \ {mod} ELSE s.mods \cup {mod},
              e0_prefix |-> FALSE]
Gives(s, code) ==
    IF \/ code = \hE0 \/ code >= \h80 \/ s.e0_prefix
       \/ Sets(s, code % \h80) # "" \/ code \notin DOMAIN scancode_map
    THEN NoKey
    ELSE <<IF "shift" \in s.mods THEN scancode_map_shifted[code] ELSE scancode_map[code], s.mods>>

\* The codes of w lead the driver through the modes h from one to another, and each
\* gives the key it should on its way.
Path(h, w, from, to) ==
    /\ DOMAIN h = 1 .. Len(w) + 1
    /\ h[1] = from
    /\ \A i \in 1 .. Len(w) : /\ h[i + 1] = After(h[i], w[i].code)
                              /\ w[i].means = Gives(h[i], w[i].code)
    /\ h[Len(w) + 1] = to

\* The mode that the keys in ks call for, between two strokes.
Rest(ks) == [mods |-> Held(ks), e0_prefix |-> FALSE]

\* The codes that the controller still has will bring the driver to the mode that
\* the keys that are down now call for.
WireInv ==
    /\ \A j, k \in down : Keys[j].mod = Keys[k].mod /\ Keys[j].mod # "" => j = k
    /\ \E h : Path(h, wire, Mode(kb), Rest(down))

RingInv ==
    kept = [i \in 1 .. Count(kb) |-> kb.ring[Place(kb, i)]]

\* A driver with a well-formed ring.
KbOK(k) ==
    /\ k = [ring |-> k.ring, head |-> k.head, tail |-> k.tail,
            mods |-> k.mods, e0_prefix |-> k.e0_prefix]
    /\ k.ring = [i \in KbIndex |-> k.ring[i]]
    /\ k.head \in KbIndex /\ k.tail \in KbIndex

KeyTypes ==
    /\ KbOK(kb)
    /\ down \subseteq DOMAIN Keys
    /\ \E S : wire \in Seq(S)
    /\ twin \in BOOLEAN

\* The inductive invariant.
KeyInv == KeyTypes /\ (~ twin => WireInv /\ RingInv)

-----------------------------------------------------------------------------
(***************************************************************************)
(* The ring.                                                               *)
(***************************************************************************)

\* Count and places of the ring without remainders.
LEMMA RingIndex ==
    ASSUME NEW k, k.head \in KbIndex, k.tail \in KbIndex
    PROVE  /\ N \in Nat \ {0, 1}
           /\ Count(k) = IF k.head >= k.tail THEN k.head - k.tail ELSE k.head + N - k.tail
           /\ Count(k) \in 0 .. N - 1
           /\ \A i \in 1 .. N : /\ Place(k, i) \in KbIndex
                               /\ Place(k, i) = IF k.tail + i - 1 < N THEN k.tail + i - 1
                                                 ELSE k.tail + i - 1 - N
           /\ (k.head + 1) % N = IF k.head + 1 = N THEN 0 ELSE k.head + 1
           /\ (k.tail + 1) % N = IF k.tail + 1 = N THEN 0 ELSE k.tail + 1
<1>1. N \in Nat \ {0, 1}
  BY KeyboardConstants DEF N
<1> HIDE DEF N
<1>2. k.head \in Nat /\ k.tail \in Nat /\ k.head < N /\ k.tail < N
  BY <1>1 DEF KbIndex
<1>3. /\ Count(k) = IF k.head >= k.tail THEN k.head - k.tail ELSE k.head + N - k.tail
      /\ Count(k) \in 0 .. N - 1
  <2> DEFINE x == k.head + N - k.tail
  <2>1. x \in Nat /\ x < 2 * N /\ (x < N <=> k.head < k.tail) /\ x - N = k.head - k.tail
    BY <1>1, <1>2
  <2>2. Count(k) = x % N
    BY DEF Count
  <2>3. Count(k) = IF x < N THEN x ELSE x - N
    <3> HIDE DEF x
    <3> QED
      BY <1>1, <2>1, <2>2, ModFacts
  <2>4. Count(k) \in 0 .. N - 1
    <3> HIDE DEF x
    <3> QED
      BY <1>1, <2>1, <2>2, ModFacts
  <2> QED
    BY <1>1, <1>2, <2>1, <2>3, <2>4
<1>4. ASSUME NEW i \in 1 .. N
      PROVE  /\ Place(k, i) \in KbIndex
             /\ Place(k, i) = IF k.tail + i - 1 < N THEN k.tail + i - 1 ELSE k.tail + i - 1 - N
  <2> DEFINE x == k.tail + i - 1
  <2>1. x \in Nat /\ x < 2 * N
    BY <1>1, <1>2
  <2>2. Place(k, i) = x % N
    BY DEF Place
  <2>3. Place(k, i) = (IF x < N THEN x ELSE x - N) /\ Place(k, i) \in 0 .. N - 1
    <3> HIDE DEF x
    <3> QED
      BY <1>1, <2>1, <2>2, ModFacts
  <2> QED
    BY <1>1, <1>2, <2>3 DEF KbIndex
<1>5. ASSUME NEW y \in Nat, y < N
      PROVE  (y + 1) % N = IF y + 1 = N THEN 0 ELSE y + 1
  <2> DEFINE x == y + 1
  <2>1. x \in Nat /\ x < 2 * N /\ x <= N
    BY <1>1, <1>5
  <2>2. x % N = IF x < N THEN x ELSE x - N
    <3> HIDE DEF x
    <3> QED
      BY <1>1, <2>1, ModFacts
  <2> QED
    BY <1>1, <2>1, <2>2
<1> QED
  BY <1>1, <1>2, <1>3, <1>4, <1>5

\* keyboard_buffer_write adds a key behind the others, unless one slot is left.
LEMMA WriteAdds ==
    ASSUME NEW k, KbOK(k), NEW data
    PROVE  LET u == keyboard_buffer_write(k, data)
               n == Count(k)
           IN  /\ KbOK(u) /\ Mode(u) = Mode(k)
               /\ n = N - 1 => u = k
               /\ n < N - 1 =>
                     /\ Count(u) = n + 1
                     /\ \A i \in 1 .. n : u.ring[Place(u, i)] = k.ring[Place(k, i)]
                     /\ u.ring[Place(u, n + 1)] = data
<1> DEFINE u == keyboard_buffer_write(k, data)
           n == Count(k)
<1>1. k.head \in KbIndex /\ k.tail \in KbIndex
  BY DEF KbOK
<1>0. (k.head + 1) % N = IF k.head + 1 = N THEN 0 ELSE k.head + 1
  BY <1>1, RingIndex
<1>2. /\ N \in Nat \ {0, 1} /\ n \in 0 .. N - 1
      /\ n = IF k.head >= k.tail THEN k.head - k.tail ELSE k.head + N - k.tail
  BY <1>1, RingIndex
<1>p. \A i \in 1 .. N : /\ Place(k, i) \in KbIndex
                       /\ Place(k, i) = IF k.tail + i - 1 < N THEN k.tail + i - 1
                                         ELSE k.tail + i - 1 - N
  BY <1>1, RingIndex
<1>3. k.head \in Nat /\ k.head < N /\ k.tail \in Nat /\ k.tail < N
  BY <1>1, <1>2 DEF KbIndex
<1> DEFINE hd == IF k.head + 1 = N THEN 0 ELSE k.head + 1
<1>4. hd \in KbIndex /\ (hd = k.tail <=> n = N - 1)
  <2> HIDE DEF N
  <2> QED
    BY <1>2, <1>3 DEF KbIndex
<1>5. u = IF hd = k.tail THEN k
          ELSE [k EXCEPT !.ring = [@ EXCEPT ![k.head] = data], !.head = hd]
  BY <1>0 DEF keyboard_buffer_write, N
<1>6. CASE n = N - 1
  BY <1>2, <1>4, <1>5, <1>6
<1>7. CASE n < N - 1
  <2>1. u = [ring |-> [k.ring EXCEPT ![k.head] = data], head |-> hd, tail |-> k.tail,
             mods |-> k.mods, e0_prefix |-> k.e0_prefix]
    <3>1. hd # k.tail
      BY <1>2, <1>4, <1>7
    <3> QED
      BY <1>5, <3>1 DEF KbOK
  <2>2. /\ u.ring = [k.ring EXCEPT ![k.head] = data] /\ u.head = hd /\ u.tail = k.tail
        /\ u.mods = k.mods /\ u.e0_prefix = k.e0_prefix
    BY <2>1
  <2>3. u.ring = [i \in KbIndex |-> IF i = k.head THEN data ELSE k.ring[i]]
    BY <1>1, <2>2 DEF KbOK
  <2>4. KbOK(u) /\ Mode(u) = Mode(k)
    BY <1>1, <1>4, <2>1, <2>2, <2>3 DEF KbOK, Mode
  <2>5. Count(u) = n + 1
    <3>1. Count(u) = IF hd >= k.tail THEN hd - k.tail ELSE hd + N - k.tail
      BY <1>1, <1>4, <2>2, RingIndex
    <3> HIDE DEF N, n
    <3> QED
      BY <1>2, <1>3, <1>7, <3>1
  <2>6. \A i : Place(u, i) = Place(k, i)
    BY <2>2 DEF Place
  <2>7. Place(k, n + 1) = k.head
    <3>1. n + 1 \in 1 .. N
      BY <1>2
    <3>2. Place(k, n + 1) = IF k.tail + (n + 1) - 1 < N THEN k.tail + (n + 1) - 1
                            ELSE k.tail + (n + 1) - 1 - N
      BY <1>p, <3>1
    <3> HIDE DEF N, n
    <3> QED
      BY <1>2, <1>3, <3>2
  <2>8. ASSUME NEW i \in 1 .. n
        PROVE  Place(k, i) \in KbIndex /\ Place(k, i) # k.head
    <3>1. i \in 1 .. N
      BY <1>2
    <3>2. Place(k, i) \in KbIndex
          /\ Place(k, i) = IF k.tail + i - 1 < N THEN k.tail + i - 1 ELSE k.tail + i - 1 - N
      BY <1>p, <3>1
    <3> HIDE DEF N, n
    <3> QED
      BY <1>2, <1>3, <2>8, <3>2
  <2> QED
    BY <1>1, <1>2, <1>7, <2>3, <2>4, <2>5, <2>6, <2>7, <2>8
<1>8. Mode(u) = Mode(k) /\ KbOK(u)
  <2>1. CASE hd = k.tail
    BY <1>5, <2>1
  <2>2. CASE hd # k.tail
    <3>1. n < N - 1
      BY <1>2, <1>4, <2>2
    <3> QED
      BY <1>7, <3>1
  <2> QED
    BY <2>1, <2>2
<1> QED
  BY <1>2, <1>6, <1>7, <1>8

\* keyboard_read_key takes the oldest key out.
LEMMA ReadTakes ==
    ASSUME NEW k, KbOK(k)
    PROVE  LET u == keyboard_read_key(k)
               n == Count(k)
           IN  /\ KbOK(u) /\ Mode(u) = Mode(k)
               /\ n = 0 => u = k
               /\ n # 0 => /\ Count(u) = n - 1
                           /\ \A i \in 1 .. n - 1 : u.ring[Place(u, i)] = k.ring[Place(k, i + 1)]
<1> DEFINE u == keyboard_read_key(k)
           n == Count(k)
<1>1. k.head \in KbIndex /\ k.tail \in KbIndex
  BY DEF KbOK
<1>0. (k.tail + 1) % N = IF k.tail + 1 = N THEN 0 ELSE k.tail + 1
  BY <1>1, RingIndex
<1>2. /\ N \in Nat \ {0, 1} /\ n \in 0 .. N - 1
      /\ n = IF k.head >= k.tail THEN k.head - k.tail ELSE k.head + N - k.tail
  BY <1>1, RingIndex
<1>p. \A i \in 1 .. N : /\ Place(k, i) \in KbIndex
                       /\ Place(k, i) = IF k.tail + i - 1 < N THEN k.tail + i - 1
                                         ELSE k.tail + i - 1 - N
  BY <1>1, RingIndex
<1>3. k.head \in Nat /\ k.head < N /\ k.tail \in Nat /\ k.tail < N
  BY <1>1, <1>2 DEF KbIndex
<1> DEFINE tl == IF k.tail + 1 = N THEN 0 ELSE k.tail + 1
<1>4. tl \in KbIndex /\ (k.head = k.tail <=> n = 0)
  <2> HIDE DEF N
  <2> QED
    BY <1>2, <1>3 DEF KbIndex
<1>5. u = IF k.head = k.tail THEN k ELSE [k EXCEPT !.tail = tl]
  BY <1>0 DEF keyboard_read_key, N
<1>6. CASE n = 0
  BY <1>4, <1>5, <1>6
<1>7. CASE n # 0
  <2>1. u = [ring |-> k.ring, head |-> k.head, tail |-> tl,
             mods |-> k.mods, e0_prefix |-> k.e0_prefix]
    BY <1>4, <1>5, <1>7 DEF KbOK
  <2>2. /\ u.ring = k.ring /\ u.head = k.head /\ u.tail = tl
        /\ u.mods = k.mods /\ u.e0_prefix = k.e0_prefix
    BY <2>1
  <2>3. KbOK(u) /\ Mode(u) = Mode(k)
    BY <1>1, <1>4, <2>1, <2>2 DEF KbOK, Mode
  <2>4. /\ Count(u) = IF k.head >= tl THEN k.head - tl ELSE k.head + N - tl
        /\ \A i \in 1 .. N : Place(u, i) = IF tl + i - 1 < N THEN tl + i - 1
                                            ELSE tl + i - 1 - N
    BY <1>1, <1>4, <2>2, RingIndex
  <2>5. Count(u) = n - 1
    <3> HIDE DEF N, n
    <3> QED
      BY <1>2, <1>3, <1>7, <2>4
  <2>6. ASSUME NEW i \in 1 .. n - 1
        PROVE  Place(u, i) = Place(k, i + 1)
    <3>1. i \in 1 .. N /\ i + 1 \in 1 .. N
      BY <1>2
    <3>2. Place(k, i + 1) = IF k.tail + (i + 1) - 1 < N THEN k.tail + (i + 1) - 1
                            ELSE k.tail + (i + 1) - 1 - N
      BY <1>p, <3>1
    <3>3. Place(u, i) = IF tl + i - 1 < N THEN tl + i - 1 ELSE tl + i - 1 - N
      BY <2>4, <3>1
    <3> HIDE DEF N, n
    <3> QED
      BY <1>2, <1>3, <2>6, <3>1, <3>2, <3>3
  <2> QED
    BY <1>7, <2>2, <2>3, <2>5, <2>6
<1> QED
  BY <1>6, <1>7

\* A queue with a key more, and with a key less.
LEMMA AppendIs ==
    ASSUME NEW S, NEW q \in Seq(S), NEW m
    PROVE  Append(q, m) = [i \in 1 .. Len(q) + 1 |-> IF i <= Len(q) THEN q[i] ELSE m]
<1>1. q \in Seq(S \cup {m}) /\ m \in S \cup {m} /\ Len(q) \in Nat
  OBVIOUS
<1>2. /\ Append(q, m) \in Seq(S \cup {m}) /\ Len(Append(q, m)) = Len(q) + 1
      /\ \A i \in 1 .. Len(q) : Append(q, m)[i] = q[i]
      /\ Append(q, m)[Len(q) + 1] = m
  BY <1>1, AppendProperties
<1>3. Append(q, m) \in [1 .. Len(q) + 1 -> S \cup {m}]
  BY <1>2, LenProperties
<1>4. \A i \in 1 .. Len(q) + 1 : Append(q, m)[i] = IF i <= Len(q) THEN q[i] ELSE m
  <2> TAKE i \in 1 .. Len(q) + 1
  <2>1. CASE i <= Len(q)
    <3>1. i \in 1 .. Len(q)
      BY <1>1, <2>1
    <3> QED
      BY <1>2, <2>1, <3>1
  <2>2. CASE ~ (i <= Len(q))
    <3>1. i = Len(q) + 1
      BY <1>1, <2>2
    <3> QED
      BY <1>2, <2>2, <3>1
  <2> QED
    BY <2>1, <2>2
<1>5. ASSUME NEW f \in [1 .. Len(q) + 1 -> S \cup {m}],
             \A i \in 1 .. Len(q) + 1 : f[i] = IF i <= Len(q) THEN q[i] ELSE m
      PROVE  f = [i \in 1 .. Len(q) + 1 |-> IF i <= Len(q) THEN q[i] ELSE m]
  BY <1>5
<1> QED
  BY <1>3, <1>4, <1>5, Zenon

\* The tail of a sequence as a function.
LEMMA TailIs ==
    ASSUME NEW S, NEW q \in Seq(S), q # <<>>
    PROVE  Tail(q) = [i \in 1 .. Len(q) - 1 |-> q[i + 1]]
<1>1. /\ Tail(q) \in Seq(S) /\ Len(Tail(q)) = Len(q) - 1
      /\ \A i \in 1 .. Len(q) - 1 : Tail(q)[i] = q[i + 1]
  BY HeadTailProperties
<1>2. Tail(q) \in [1 .. Len(q) - 1 -> S]
  BY <1>1, LenProperties
<1> QED
  BY <1>1, <1>2

-----------------------------------------------------------------------------
(***************************************************************************)
(* The codes on the wire.                                                  *)
(***************************************************************************)

\* The handler changes the mode and writes the key as After and Gives say.
LEMMA HandlerIs ==
    ASSUME NEW k, KbOK(k), NEW code
    PROVE  LET u == keyboard_handler(k, code)
               g == Gives(Mode(k), code)
           IN  /\ KbOK(u) /\ Mode(u) = After(Mode(k), code)
               /\ \E v : /\ KbOK(v) /\ v.ring = k.ring /\ v.head = k.head /\ v.tail = k.tail
                        /\ u = IF g = NoKey THEN v ELSE keyboard_buffer_write(v, g)
<1> DEFINE mod == Sets(k, code % \h80)
           plain == [ring |-> k.ring, head |-> k.head, tail |-> k.tail,
                     mods |-> k.mods, e0_prefix |-> FALSE]
           pre == [ring |-> k.ring, head |-> k.head, tail |-> k.tail,
                   mods |-> k.mods, e0_prefix |-> TRUE]
           ms == IF code >= \h80 THEN k.mods \ {mod} ELSE k.mods \cup {mod}
           set == [ring |-> k.ring, head |-> k.head, tail |-> k.tail,
                   mods |-> ms, e0_prefix |-> FALSE]
           key == <<IF "shift" \in k.mods THEN scancode_map_shifted[code]
                    ELSE scancode_map[code], k.mods>>
           u == keyboard_handler(k, code)
           g == Gives(Mode(k), code)
<1>1. [k EXCEPT !.e0_prefix = FALSE] = plain /\ [k EXCEPT !.e0_prefix = TRUE] = pre
  <2>1. PICK r, h, t, m, e : k = [ring |-> r, head |-> h, tail |-> t, mods |-> m, e0_prefix |-> e]
    <3>1. k = [ring |-> k.ring, head |-> k.head, tail |-> k.tail,
               mods |-> k.mods, e0_prefix |-> k.e0_prefix]
      BY DEF KbOK
    <3> QED
      BY <3>1, Zenon
  <2>2. k.ring = r /\ k.head = h /\ k.tail = t /\ k.mods = m
    BY <2>1
  <2>3. ASSUME NEW x
        PROVE  [k EXCEPT !.e0_prefix = x]
                 = [ring |-> k.ring, head |-> k.head, tail |-> k.tail, mods |-> k.mods,
                    e0_prefix |-> x]
    BY <2>1, <2>2
  <2> QED
    BY <2>3, Zenon
<1>2. Mode(k).mods = k.mods /\ Mode(k).e0_prefix = k.e0_prefix
      /\ Sets(Mode(k), code % \h80) = mod
  BY DEF Mode, Sets
<1>3. KbOK(plain) /\ KbOK(pre) /\ KbOK(set)
  BY DEF KbOK
<1>4. /\ Mode(plain) = [mods |-> k.mods, e0_prefix |-> FALSE]
      /\ Mode(pre) = [mods |-> k.mods, e0_prefix |-> TRUE]
      /\ Mode(set) = [mods |-> ms, e0_prefix |-> FALSE]
  BY DEF Mode
<1>5. key # NoKey
  BY DEF NoKey
<1>6. CASE code = \hE0
  <2>1. u = pre
    BY <1>1, <1>6 DEF keyboard_handler
  <2>2. g = NoKey /\ After(Mode(k), code) = [mods |-> k.mods, e0_prefix |-> TRUE]
    BY <1>2, <1>6 DEF Gives, After
  <2> HIDE DEF u, g, pre
  <2>3. pre.ring = k.ring /\ pre.head = k.head /\ pre.tail = k.tail
    BY DEF pre
  <2> QED
    BY <1>3, <1>4, <2>1, <2>2, <2>3 DEF u, g
<1>7. CASE code # \hE0 /\ mod # ""
  <2>1. u = set
    <3>1. u = [plain EXCEPT !.mods = IF code >= \h80 THEN @ \ {mod} ELSE @ \cup {mod}]
      BY <1>1, <1>7 DEF keyboard_handler
    <3> QED
      BY <3>1
  <2>2. g = NoKey /\ After(Mode(k), code) = [mods |-> ms, e0_prefix |-> FALSE]
    BY <1>2, <1>7 DEF Gives, After
  <2> HIDE DEF u, g, set, ms, mod
  <2>3. set.ring = k.ring /\ set.head = k.head /\ set.tail = k.tail
    BY DEF set
  <2> QED
    BY <1>3, <1>4, <2>1, <2>2, <2>3 DEF u, g
<1>8. CASE code # \hE0 /\ mod = ""
  <2>1. After(Mode(k), code) = [mods |-> k.mods, e0_prefix |-> FALSE]
    BY <1>2, <1>8 DEF After
  <2>2. plain.ring = k.ring /\ plain.head = k.head /\ plain.tail = k.tail
    OBVIOUS
  <2>3. CASE code >= \h80 \/ k.e0_prefix \/ code \notin DOMAIN scancode_map
    <3>1. u = plain
      BY <1>1, <1>8, <2>3 DEF keyboard_handler
    <3>2. g = NoKey
      BY <1>2, <2>3 DEF Gives
    <3> HIDE DEF u, g, plain
    <3> QED
      BY <1>3, <1>4, <2>1, <2>2, <3>1, <3>2 DEF u, g
  <2>4. CASE ~ (code >= \h80 \/ k.e0_prefix \/ code \notin DOMAIN scancode_map)
    <3>1. u = keyboard_buffer_write(plain, key)
      BY <1>1, <1>8, <2>4 DEF keyboard_handler
    <3>2. g = key
      BY <1>2, <1>8, <2>4 DEF Gives
    <3> HIDE DEF u, g, plain, key
    <3>3. KbOK(u) /\ Mode(u) = Mode(plain)
      BY <1>3, <3>1, WriteAdds
    <3> QED
      BY <1>3, <1>4, <1>5, <2>1, <2>2, <3>1, <3>2, <3>3 DEF u, g
  <2> QED
    BY <2>3, <2>4
<1> QED
  BY <1>6, <1>7, <1>8

\* A path goes on with one more code.
LEMMA PathAppend ==
    ASSUME NEW S, NEW w \in Seq(S), NEW h, NEW a, NEW b, Path(h, w, a, b), NEW c
    PROVE  \E f : Path(f, Append(w, [code |-> c, means |-> Gives(b, c)]), a, After(b, c))
<1> DEFINE x == [code |-> c, means |-> Gives(b, c)]
           w2 == Append(w, x)
           f == [i \in 1 .. Len(w) + 2 |-> IF i <= Len(w) + 1 THEN h[i] ELSE After(b, c)]
<1>0. x.code = c /\ x.means = Gives(b, c)
  OBVIOUS
<1>1. /\ Len(w) \in Nat /\ Len(w2) = Len(w) + 1
      /\ \A i \in 1 .. Len(w) : w2[i] = w[i]
      /\ w2[Len(w) + 1] = x
  OBVIOUS
<1> HIDE DEF x, w2
<1>2. /\ DOMAIN f = 1 .. Len(w2) + 1
      /\ \A i \in 1 .. Len(w) + 1 : f[i] = h[i]
      /\ f[Len(w) + 2] = After(b, c)
  BY <1>1
<1> HIDE DEF f
<1>3. f[1] = a /\ f[Len(w) + 1] = b /\ f[Len(w2) + 1] = After(b, c)
  BY <1>1, <1>2 DEF Path
<1>4. ASSUME NEW i \in 1 .. Len(w2)
      PROVE  f[i + 1] = After(f[i], w2[i].code) /\ w2[i].means = Gives(f[i], w2[i].code)
  <2>1. CASE i \in 1 .. Len(w)
    <3>1. i \in 1 .. Len(w) + 1 /\ i + 1 \in 1 .. Len(w) + 1
      BY <1>1, <2>1
    <3> QED
      BY <1>1, <1>2, <2>1, <3>1 DEF Path
  <2>2. CASE i = Len(w) + 1
    <3>1. i + 1 = Len(w) + 2
      BY <1>1, <2>2
    <3> QED
      BY <1>0, <1>1, <1>2, <1>3, <2>2, <3>1
  <2> QED
    BY <1>1, <2>1, <2>2
<1>5. Path(f, w2, a, After(b, c))
  BY <1>2, <1>3, <1>4 DEF Path
<1> QED
  BY <1>5 DEF w2, x

\* The rest of a path once its first code has been read.
LEMMA PathTail ==
    ASSUME NEW S, NEW w \in Seq(S), w # <<>>, NEW h, NEW a, NEW b, Path(h, w, a, b)
    PROVE  /\ Head(w).means = Gives(a, Head(w).code)
           /\ \E f : Path(f, Tail(w), After(a, Head(w).code), b)
<1> DEFINE f == [i \in 1 .. Len(w) |-> h[i + 1]]
           w2 == Tail(w)
<1>1. /\ Len(w) \in Nat /\ Len(w) > 0 /\ Head(w) = w[1] /\ Len(w2) = Len(w) - 1
      /\ \A i \in 1 .. Len(w) - 1 : w2[i] = w[i + 1]
  OBVIOUS
<1> HIDE DEF w2
<1>2. DOMAIN f = 1 .. Len(w2) + 1 /\ \A i \in 1 .. Len(w) : f[i] = h[i + 1]
  BY <1>1
<1> HIDE DEF f
<1>3. 1 \in 1 .. Len(w) /\ Len(w2) + 1 = Len(w) /\ Len(w) \in 1 .. Len(w)
  BY <1>1
<1>4. h[1] = a /\ h[1 + 1] = After(h[1], w[1].code) /\ w[1].means = Gives(h[1], w[1].code)
  BY <1>3 DEF Path
<1>5. f[1] = After(a, Head(w).code) /\ f[Len(w2) + 1] = b
  BY <1>1, <1>2, <1>3, <1>4 DEF Path
<1>6. ASSUME NEW i \in 1 .. Len(w2)
      PROVE  f[i + 1] = After(f[i], w2[i].code) /\ w2[i].means = Gives(f[i], w2[i].code)
  <2>1. i \in 1 .. Len(w) - 1 /\ i \in 1 .. Len(w) /\ i + 1 \in 1 .. Len(w)
    BY <1>1
  <2> QED
    BY <1>1, <1>2, <2>1 DEF Path
<1>7. Path(f, w2, After(a, Head(w).code), b)
  BY <1>2, <1>5, <1>6 DEF Path
<1> QED
  BY <1>1, <1>4, <1>7 DEF w2

\* The codes of a key, as the driver reads them.
LEMMA KeyCodes ==
    ASSUME NEW k \in DOMAIN Keys, NEW s, s.e0_prefix = Keys[k].e0
    PROVE  /\ Keys[k].code % \h80 = Keys[k].code
           /\ (Keys[k].code + \h80) % \h80 = Keys[k].code
           /\ Keys[k].code # \hE0 /\ Keys[k].code + \h80 # \hE0
           /\ ~ (Keys[k].code >= \h80) /\ Keys[k].code + \h80 >= \h80
           /\ Sets(s, Keys[k].code) = Keys[k].mod
<1> DEFINE code == Keys[k].code
           mod == Keys[k].mod
<1>1. /\ code \in 1 .. \h7F /\ code # \h60 /\ Keys[k].e0 \in BOOLEAN
      /\ mod \in Modifier \cup {""}
      /\ mod = "shift" <=> code \in {\h2A, \h36}
      /\ mod = "ctrl" <=> code = \h1D
      /\ mod = "alt" <=> code = \h38
      /\ mod = "super" <=> code = \h5B /\ Keys[k].e0
  BY KeyboardKeys
<1>2. /\ code % \h80 = code /\ (code + \h80) % \h80 = code
      /\ code # \hE0 /\ code + \h80 # \hE0
      /\ ~ (code >= \h80) /\ code + \h80 >= \h80
  <2>1. ASSUME NEW c \in 1 .. \h7F, c # \h60
        PROVE  /\ c # \hE0 /\ c + \h80 # \hE0 /\ ~ (c >= \h80) /\ c + \h80 >= \h80
    BY <2>1
  <2>2. ASSUME NEW c \in 1 .. \h7F  PROVE c % \h80 = c
    OBVIOUS
  <2>3. ASSUME NEW c \in 1 .. \h7F  PROVE (c + \h80) % \h80 = c
    OBVIOUS
  <2>4. code \in 1 .. \h7F /\ code # \h60
    BY <1>1
  <2> HIDE DEF code
  <2>5. code % \h80 = code /\ (code + \h80) % \h80 = code
    BY <2>2, <2>3, <2>4, Zenon
  <2>6. code # \hE0 /\ code + \h80 # \hE0 /\ ~ (code >= \h80) /\ code + \h80 >= \h80
    BY <2>1, <2>4, Zenon
  <2> QED
    BY <2>5, <2>6, Zenon
<1>3. Sets(s, code) = mod
  BY <1>1 DEF Sets, Modifier
<1> QED
  BY <1>2, <1>3

\* The code of a key that goes up is neither the prefix nor that of a key that
\* goes down.
LEMMA ReleaseCode ==
    ASSUME NEW k \in DOMAIN Keys
    PROVE  Keys[k].code + \h80 # \hE0 /\ Keys[k].code + \h80 >= \h80
<1>1. ASSUME NEW c \in 1 .. \h7F, c # \h60
      PROVE  c + \h80 # \hE0 /\ c + \h80 >= \h80
  BY <1>1
<1> QED
  BY <1>1, KeyboardKeys

\* A stroke with its prefix, sent behind what is on the wire.
LEMMA StrokePath ==
    ASSUME NEW S, wire \in Seq(S), NEW k \in DOMAIN Keys, NEW c,
           NEW h, NEW a, Path(h, wire, a, Rest(down))
    PROVE  LET s == [mods |-> Held(down), e0_prefix |-> Keys[k].e0]
           IN  /\ \E f : Path(f, Sent(k, c, Gives(s, c)), a, After(s, c))
               /\ \E T : Sent(k, c, Gives(s, c)) \in Seq(T)
<1> DEFINE s == [mods |-> Held(down), e0_prefix |-> Keys[k].e0]
           m == Gives(s, c)
           last == [code |-> c, means |-> m]
           pre == [code |-> \hE0, means |-> NoKey]
<1>1. Keys[k].e0 \in BOOLEAN
  BY KeyboardKeys
<1>2. CASE ~ Keys[k].e0
  <2>1. s = Rest(down)
    BY <1>1, <1>2 DEF Rest
  <2>2. Sent(k, c, m) = wire \o <<>> \o <<last>>
    BY <1>2 DEF Sent
  <2> HIDE DEF last, m
  <2>3. Sent(k, c, m) = Append(wire, last) /\ Append(wire, last) \in Seq(S \cup {last})
    <3>1. wire \o <<>> = wire
      OBVIOUS
    <3>2. wire \o <<last>> = Append(wire, last)
      OBVIOUS
    <3> QED
      BY <2>2, <3>1, <3>2
  <2>4. \E f : Path(f, Append(wire, last), a, After(s, c))
    <3>1. \E f : Path(f, Append(wire, [code |-> c, means |-> Gives(Rest(down), c)]),
                      a, After(Rest(down), c))
      BY PathAppend
    <3> QED
      BY <2>1, <3>1, Zenon DEF last, m
  <2> QED
    BY <2>3, <2>4 DEF m
<1>3. CASE Keys[k].e0
  <2>1. /\ After(Rest(down), \hE0) = s
        /\ Gives(Rest(down), \hE0) = NoKey
    BY <1>1, <1>3 DEF After, Gives, Rest
  <2>2. Sent(k, c, m) = wire \o <<pre>> \o <<last>>
    BY <1>3 DEF Sent
  <2> HIDE DEF last, m, pre, s
  <2>3. /\ Append(wire, pre) \in Seq(S \cup {pre, last})
        /\ Append(Append(wire, pre), last) \in Seq(S \cup {pre, last})
    OBVIOUS
  <2>4. Sent(k, c, m) = Append(Append(wire, pre), last)
    <3>1. wire \o <<pre>> = Append(wire, pre)
      OBVIOUS
    <3>2. ASSUME NEW w \in Seq(S \cup {pre, last})  PROVE w \o <<last>> = Append(w, last)
      OBVIOUS
    <3> QED
      BY <2>2, <2>3, <3>1, <3>2
  <2>5. PICK f1 : Path(f1, Append(wire, pre), a, s)
    <3>1. \E f : Path(f, Append(wire, [code |-> \hE0, means |-> Gives(Rest(down), \hE0)]),
                      a, After(Rest(down), \hE0))
      BY PathAppend
    <3> QED
      BY <2>1, <3>1 DEF pre
  <2>6. \E f : Path(f, Append(Append(wire, pre), last), a, After(s, c))
    <3>1. \E f : Path(f, Append(Append(wire, pre), [code |-> c, means |-> Gives(s, c)]),
                      a, After(s, c))
      BY <2>3, <2>5, PathAppend
    <3> QED
      BY <3>1, Zenon DEF last, m
  <2> QED
    BY <2>3, <2>4, <2>6 DEF m, s
<1> QED
  BY <1>1, <1>2, <1>3

\* Key k goes down.
LEMMA PressIs ==
    ASSUME down \subseteq DOMAIN Keys, NEW k \in DOMAIN Keys
    PROVE  LET s == [mods |-> Held(down), e0_prefix |-> Keys[k].e0]
           IN  /\ After(s, Keys[k].code) = Rest(down \cup {k})
               /\ Gives(s, Keys[k].code) = Meant(k)
<1> DEFINE s == [mods |-> Held(down), e0_prefix |-> Keys[k].e0]
           code == Keys[k].code
           mod == Keys[k].mod
<1>1. s.e0_prefix = Keys[k].e0 /\ s.mods = Held(down)
  OBVIOUS
<1>2. /\ code % \h80 = code /\ code # \hE0 /\ ~ (code >= \h80) /\ Sets(s, code) = mod
  BY <1>1, KeyCodes
<1>3. Held(down \cup {k}) = IF mod = "" THEN Held(down) ELSE Held(down) \cup {mod}
  BY DEF Held
<1>4. mod = "" /\ ~ Keys[k].e0 => code \in DOMAIN scancode_map
  BY KeyboardKeys
<1> HIDE DEF s
<1>5. After(s, code) = Rest(down \cup {k})
  <2>1. After(s, code) = [mods |-> IF mod = "" THEN s.mods ELSE s.mods \cup {mod},
                          e0_prefix |-> FALSE]
    BY <1>2, Zenon DEF After
  <2>2. (IF mod = "" THEN s.mods ELSE s.mods \cup {mod}) = Held(down \cup {k})
    BY <1>1, <1>3, Zenon
  <2> QED
    BY <2>1, <2>2, Zenon DEF Rest
<1>6. Gives(s, code) = Meant(k)
  <2>1. CASE mod # "" \/ Keys[k].e0
    <3>1. Gives(s, code) = NoKey
      BY <1>1, <1>2, <2>1, Zenon DEF Gives
    <3>2. Meant(k) = NoKey
      BY <2>1, Zenon DEF Meant
    <3> QED
      BY <3>1, <3>2, Zenon
  <2>2. CASE ~ (mod # "" \/ Keys[k].e0)
    <3>1. Gives(s, code) = <<IF "shift" \in s.mods THEN scancode_map_shifted[code]
                             ELSE scancode_map[code], s.mods>>
      BY <1>1, <1>2, <1>4, <2>2, Zenon DEF Gives
    <3>2. Meant(k) = <<IF "shift" \in Held(down) THEN scancode_map_shifted[code]
                       ELSE scancode_map[code], Held(down)>>
      BY <2>2, Zenon DEF Meant
    <3> QED
      BY <1>1, <3>1, <3>2, Zenon
  <2> QED
    BY <2>1, <2>2, Zenon
<1> QED
  BY <1>5, <1>6 DEF s

\* Key k goes up, and it is the only key of its modifier.
LEMMA ReleaseIs ==
    ASSUME down \subseteq DOMAIN Keys, NEW k \in down,
           \A i, j \in down : Keys[i].mod = Keys[j].mod /\ Keys[i].mod # "" => i = j
    PROVE  LET s == [mods |-> Held(down), e0_prefix |-> Keys[k].e0]
           IN  /\ After(s, Keys[k].code + \h80) = Rest(down \ {k})
               /\ Gives(s, Keys[k].code + \h80) = NoKey
<1> DEFINE s == [mods |-> Held(down), e0_prefix |-> Keys[k].e0]
           code == Keys[k].code
           mod == Keys[k].mod
<1>1. s.e0_prefix = Keys[k].e0 /\ s.mods = Held(down) /\ k \in DOMAIN Keys
  OBVIOUS
<1> HIDE DEF s
<1>2. /\ (code + \h80) % \h80 = code /\ code + \h80 # \hE0 /\ code + \h80 >= \h80
      /\ Sets(s, code) = mod
  <2>1. (code + \h80) % \h80 = code
    BY <1>1, KeyCodes, Zenon
  <2>2. code + \h80 # \hE0 /\ code + \h80 >= \h80
    BY <1>1, ReleaseCode, Zenon
  <2>3. Sets(s, code) = mod
    BY <1>1, KeyCodes, Zenon
  <2> QED
    BY <2>1, <2>2, <2>3, Zenon
<1>3. Held(down \ {k}) = IF mod = "" THEN Held(down) ELSE Held(down) \ {mod}
  BY DEF Held
<1>5. After(s, code + \h80) = Rest(down \ {k})
  <2>1. ASSUME NEW c, c # \hE0, c >= \h80, c % \h80 = code
        PROVE  After(s, c) = [mods |-> IF mod = "" THEN s.mods ELSE s.mods \ {mod},
                              e0_prefix |-> FALSE]
    BY <1>2, <2>1, Zenon DEF After
  <2>2. After(s, code + \h80) = [mods |-> IF mod = "" THEN s.mods ELSE s.mods \ {mod},
                                 e0_prefix |-> FALSE]
    BY <1>2, <2>1, Zenon
  <2>3. (IF mod = "" THEN s.mods ELSE s.mods \ {mod}) = Held(down \ {k})
    BY <1>1, <1>3, Zenon
  <2> QED
    BY <2>2, <2>3, Zenon DEF Rest
<1>6. Gives(s, code + \h80) = NoKey
  BY <1>2 DEF Gives
<1> QED
  BY <1>5, <1>6 DEF s

-----------------------------------------------------------------------------
(***************************************************************************)
(* The steps.                                                              *)
(***************************************************************************)

\* A key that goes down, or repeats, adds its codes to the end of the path.
LEMMA PressStep ==
    ASSUME KeyInv, NEW k \in DOMAIN Keys, Press(k)
    PROVE  KeyInv'
<1> DEFINE s == [mods |-> Held(down), e0_prefix |-> Keys[k].e0]
<1>1. /\ KeyTypes /\ wire' = Sent(k, Keys[k].code, Meant(k)) /\ down' = down \cup {k}
      /\ twin' = (twin \/ \E j \in down \ {k} : Keys[j].mod = Keys[k].mod /\ Keys[k].mod # "")
      /\ UNCHANGED <<kb, kept>>
  BY DEF KeyInv, Press
<1>2. Gives(s, Keys[k].code) = Meant(k) /\ After(s, Keys[k].code) = Rest(down')
  BY <1>1, PressIs DEF KeyTypes
<1> HIDE DEF s
<1>3. PICK S : wire \in Seq(S)
  BY <1>1 DEF KeyTypes
<1>4. \E T : wire' \in Seq(T)
  <2>1. wire' = wire \o (IF Keys[k].e0 THEN <<[code |-> \hE0, means |-> NoKey]>> ELSE <<>>)
                     \o <<[code |-> Keys[k].code, means |-> Meant(k)]>>
    BY <1>1 DEF Sent
  <2>2. ASSUME NEW x, NEW y
        PROVE  wire \o <<x>> \o <<y>> \in Seq(S \cup {x, y})
               /\ wire \o <<>> \o <<y>> \in Seq(S \cup {x, y})
    BY <1>3
  <2> QED
    BY <2>1, <2>2
<1>5. KeyTypes'
  BY <1>1, <1>4 DEF KeyTypes
<1>6. ASSUME ~ twin'  PROVE WireInv' /\ RingInv'
  <2>1. ~ twin /\ ~ \E j \in down \ {k} : Keys[j].mod = Keys[k].mod /\ Keys[k].mod # ""
    BY <1>1, <1>6
  <2>2. WireInv /\ RingInv
    BY <2>1 DEF KeyInv
  <2>3. PICK h : Path(h, wire, Mode(kb), Rest(down))
    BY <2>2 DEF WireInv
  <2>4. \E f : Path(f, Sent(k, Keys[k].code, Gives(s, Keys[k].code)), Mode(kb),
                    After(s, Keys[k].code))
    BY <1>3, <2>3, StrokePath DEF s
  <2>5. \E f : Path(f, wire', Mode(kb'), Rest(down'))
    BY <1>1, <1>2, <2>4
  <2>6. \A i, j \in down' : Keys[i].mod = Keys[j].mod /\ Keys[i].mod # "" => i = j
    BY <1>1, <2>1, <2>2 DEF WireInv
  <2>7. WireInv'
    <3>1. Mode(kb)' = Mode(kb') /\ Rest(down)' = Rest(down')
      BY DEF Mode, Rest, Held
    <3> QED
      BY <2>5, <2>6, <3>1 DEF WireInv, Path, After, Gives, Sets
  <2>8. RingInv'
    BY <1>1, <2>2 DEF RingInv, Count, Place
  <2> QED
    BY <2>7, <2>8
<1> QED
  BY <1>5, <1>6 DEF KeyInv

\* So does a key that comes up.
LEMMA ReleaseStep ==
    ASSUME KeyInv, NEW k \in DOMAIN Keys, Release(k)
    PROVE  KeyInv'
<1> DEFINE s == [mods |-> Held(down), e0_prefix |-> Keys[k].e0]
           code == Keys[k].code + \h80
<1>1. /\ KeyTypes /\ k \in down /\ wire' = Sent(k, code, NoKey) /\ down' = down \ {k}
      /\ UNCHANGED <<kb, kept, twin>>
  BY DEF KeyInv, Release
<1> HIDE DEF s, code
<1>3. PICK S : wire \in Seq(S)
  BY <1>1 DEF KeyTypes
<1>4. \E T : wire' \in Seq(T)
  <2>1. wire' = wire \o (IF Keys[k].e0 THEN <<[code |-> \hE0, means |-> NoKey]>> ELSE <<>>)
                     \o <<[code |-> code, means |-> NoKey]>>
    BY <1>1 DEF Sent
  <2>2. ASSUME NEW x, NEW y
        PROVE  wire \o <<x>> \o <<y>> \in Seq(S \cup {x, y})
               /\ wire \o <<>> \o <<y>> \in Seq(S \cup {x, y})
    BY <1>3
  <2> QED
    BY <2>1, <2>2
<1>5. KeyTypes'
  BY <1>1, <1>4 DEF KeyTypes
<1>6. ASSUME ~ twin'  PROVE WireInv' /\ RingInv'
  <2>2. WireInv /\ RingInv
    BY <1>1, <1>6 DEF KeyInv
  <2>3. PICK h : Path(h, wire, Mode(kb), Rest(down))
    BY <2>2 DEF WireInv
  <2>4. \E f : Path(f, Sent(k, code, Gives(s, code)), Mode(kb), After(s, code))
    BY <1>3, <2>3, StrokePath DEF s
  <2>r. Gives(s, code) = NoKey /\ After(s, code) = Rest(down')
    <3>1. down \subseteq DOMAIN Keys
          /\ \A i, j \in down : Keys[i].mod = Keys[j].mod /\ Keys[i].mod # "" => i = j
      BY <1>1, <2>2 DEF WireInv, KeyTypes
    <3> QED
      BY <1>1, <3>1, ReleaseIs DEF s, code
  <2>5. \E f : Path(f, wire', Mode(kb'), Rest(down'))
    BY <1>1, <2>r, <2>4
  <2>6. \A i, j \in down' : Keys[i].mod = Keys[j].mod /\ Keys[i].mod # "" => i = j
    BY <1>1, <2>2 DEF WireInv
  <2>7. WireInv'
    <3>1. Mode(kb)' = Mode(kb') /\ Rest(down)' = Rest(down')
      BY DEF Mode, Rest, Held
    <3> QED
      BY <2>5, <2>6, <3>1 DEF WireInv, Path, After, Gives, Sets
  <2>8. RingInv'
    BY <1>1, <2>2 DEF RingInv, Count, Place
  <2> QED
    BY <2>7, <2>8
<1> QED
  BY <1>5, <1>6 DEF KeyInv

\* The interrupt: the code is read as it was meant, so the key it gives is put
\* behind the others or dropped exactly when it should be.
LEMMA IrqStep ==
    ASSUME KeyInv, Irq
    PROVE  KeyInv'
<1> DEFINE w == Head(wire)
           g == Gives(Mode(kb), w.code)
<1>1. /\ KeyTypes /\ wire # <<>> /\ wire' = Tail(wire) /\ kb' = keyboard_handler(kb, w.code)
      /\ kept' = (IF w.means # NoKey /\ Len(kept) < N - 1
                  THEN Append(kept, w.means) ELSE kept)
      /\ UNCHANGED <<down, twin>>
  BY DEF KeyInv, Irq, N
<1> HIDE DEF w, g
<1>2. PICK S : wire \in Seq(S)
  BY <1>1 DEF KeyTypes
<1>3. wire' \in Seq(S)
  BY <1>1, <1>2
<1>4. KbOK(kb)
  BY <1>1 DEF KeyTypes
<1>5. /\ KbOK(kb') /\ Mode(kb') = After(Mode(kb), w.code)
      /\ \E v : /\ KbOK(v) /\ v.ring = kb.ring /\ v.head = kb.head /\ v.tail = kb.tail
               /\ kb' = IF g = NoKey THEN v ELSE keyboard_buffer_write(v, g)
  BY <1>1, <1>4, HandlerIs DEF g
<1>6. KeyTypes'
  <2>1. KbOK(kb)'
    BY <1>5 DEF KbOK
  <2> QED
    BY <1>1, <1>3, <2>1 DEF KeyTypes
<1>7. ASSUME ~ twin'  PROVE WireInv' /\ RingInv'
  <2>1. WireInv /\ RingInv
    BY <1>1, <1>7 DEF KeyInv
  <2>2. PICK h : Path(h, wire, Mode(kb), Rest(down))
    BY <2>1 DEF WireInv
  <2>3. w.means = g /\ \E f : Path(f, wire', Mode(kb'), Rest(down))
    BY <1>1, <1>2, <1>5, <2>2, PathTail DEF w, g
  <2>4. WireInv'
    <3>1. Mode(kb)' = Mode(kb') /\ Rest(down)' = Rest(down)
      BY <1>1 DEF Mode, Rest, Held
    <3> QED
      BY <1>1, <2>1, <2>3, <3>1 DEF WireInv, Path, After, Gives, Sets
  <2>5. PICK v : /\ KbOK(v) /\ v.ring = kb.ring /\ v.head = kb.head /\ v.tail = kb.tail
                 /\ kb' = IF g = NoKey THEN v ELSE keyboard_buffer_write(v, g)
    BY <1>5
  <2>6. Count(v) = Count(kb) /\ \A i : Place(v, i) = Place(kb, i)
    BY <2>5 DEF Count, Place
  <2> DEFINE n == Count(kb)
  <2>7. n \in 0 .. N - 1 /\ N \in Nat \ {0, 1}
    BY <1>4, RingIndex DEF KbOK
  <2>8. kept = [i \in 1 .. n |-> kb.ring[Place(kb, i)]]
    BY <2>1 DEF RingInv
  <2> HIDE DEF n, N
  <2>9. Len(kept) = n /\ kept \in Seq({kb.ring[Place(kb, i)] : i \in 1 .. n})
    BY <2>7, <2>8
  <2>10. kept' = [i \in 1 .. Count(kb') |-> kb'.ring[Place(kb', i)]]
    <3>1. CASE g = NoKey
      BY <1>1, <2>3, <2>5, <2>6, <2>8, <3>1 DEF n
    <3>2. CASE g # NoKey /\ n = N - 1
      <4>1. keyboard_buffer_write(v, g) = v
        BY <2>5, <2>6, <3>2, WriteAdds DEF n
      <4> QED
        BY <1>1, <2>3, <2>5, <2>6, <2>7, <2>8, <2>9, <3>2, <4>1 DEF n
    <3>3. CASE g # NoKey /\ n < N - 1
      <4>1. /\ Count(kb') = n + 1
            /\ \A i \in 1 .. n : kb'.ring[Place(kb', i)] = kb.ring[Place(kb, i)]
            /\ kb'.ring[Place(kb', n + 1)] = g
        BY <2>5, <2>6, <3>3, WriteAdds DEF n
      <4>2. kept' = Append(kept, g)
        BY <1>1, <2>3, <2>9, <3>3
      <4>3. kept' = [i \in 1 .. n + 1 |-> IF i <= n THEN kept[i] ELSE g]
        BY <2>9, <4>2, AppendIs
      <4>4. \A i \in 1 .. n + 1 : (IF i <= n THEN kept[i] ELSE g) = kb'.ring[Place(kb', i)]
        <5> TAKE i \in 1 .. n + 1
        <5>1. CASE i <= n
          BY <2>7, <2>8, <4>1, <5>1
        <5>2. CASE i = n + 1
          BY <2>7, <4>1, <5>2
        <5> QED
          BY <2>7, <5>1, <5>2
      <4> QED
        BY <4>1, <4>3, <4>4
    <3> QED
      BY <2>7, <3>1, <3>2, <3>3
  <2>11. RingInv'
    BY <2>10 DEF RingInv, Count, Place
  <2> QED
    BY <2>4, <2>11
<1> QED
  BY <1>6, <1>7 DEF KeyInv

\* sys_read_key takes the oldest key kept.
LEMMA ReadKeyStep ==
    ASSUME KeyInv, ReadKey
    PROVE  KeyInv'
<1>1. /\ KeyTypes /\ kb' = keyboard_read_key(kb)
      /\ kept' = (IF kept = <<>> THEN kept ELSE Tail(kept))
      /\ UNCHANGED <<wire, down, twin>>
  BY DEF KeyInv, ReadKey
<1>2. KbOK(kb)
  BY <1>1 DEF KeyTypes
<1>3. KbOK(kb') /\ Mode(kb') = Mode(kb)
  BY <1>1, <1>2, ReadTakes
<1>4. KeyTypes'
  <2>1. KbOK(kb)'
    BY <1>3 DEF KbOK
  <2> QED
    BY <1>1, <2>1 DEF KeyTypes
<1>5. ASSUME ~ twin'  PROVE WireInv' /\ RingInv'
  <2>1. WireInv /\ RingInv
    BY <1>1, <1>5 DEF KeyInv
  <2>2. WireInv'
    <3>1. \E f : Path(f, wire', Mode(kb'), Rest(down'))
      BY <1>1, <1>3, <2>1 DEF WireInv
    <3>2. Mode(kb)' = Mode(kb') /\ Rest(down)' = Rest(down')
      BY DEF Mode, Rest, Held
    <3> QED
      BY <1>1, <2>1, <3>1, <3>2 DEF WireInv, Path, After, Gives, Sets
  <2> DEFINE n == Count(kb)
  <2>3. n \in 0 .. N - 1 /\ N \in Nat \ {0, 1}
    BY <1>2, RingIndex DEF KbOK
  <2>4. kept = [i \in 1 .. n |-> kb.ring[Place(kb, i)]]
    BY <2>1 DEF RingInv
  <2>5. /\ n = 0 => kb' = kb
        /\ n # 0 => /\ Count(kb') = n - 1
                    /\ \A i \in 1 .. n - 1 : kb'.ring[Place(kb', i)] = kb.ring[Place(kb, i + 1)]
    BY <1>1, <1>2, ReadTakes
  <2> HIDE DEF n, N
  <2>6. Len(kept) = n /\ kept \in Seq({kb.ring[Place(kb, i)] : i \in 1 .. n})
    BY <2>3, <2>4
  <2>7. kept' = [i \in 1 .. Count(kb') |-> kb'.ring[Place(kb', i)]]
    <3>1. CASE n = 0
      <4>1. kept = <<>>
        BY <2>6, <3>1
      <4> QED
        BY <1>1, <2>4, <2>5, <3>1, <4>1 DEF n
    <3>2. CASE n # 0
      <4>1. kept # <<>>
        BY <2>3, <2>6, <3>2
      <4>2. kept' = [i \in 1 .. n - 1 |-> kept[i + 1]]
        BY <1>1, <2>6, <4>1, TailIs
      <4>3. \A i \in 1 .. n - 1 : kept[i + 1] = kb'.ring[Place(kb', i)]
        <5> TAKE i \in 1 .. n - 1
        <5>1. i + 1 \in 1 .. n
          BY <2>3
        <5> QED
          BY <2>4, <2>5, <3>2, <5>1
      <4> QED
        BY <2>5, <3>2, <4>2, <4>3
    <3> QED
      BY <3>1, <3>2
  <2>8. RingInv'
    BY <2>7 DEF RingInv, Count, Place
  <2> QED
    BY <2>2, <2>8
<1> QED
  BY <1>4, <1>5 DEF KeyInv

\* A step that leaves the keyboard alone keeps the invariant.
LEMMA KeyStutters ==
    ASSUME KeyInv, UNCHANGED kbVars
    PROVE  KeyInv'
<1>1. UNCHANGED <<kb, down, wire, kept, twin>>
  BY DEF kbVars
<1>2. KeyTypes'
  BY <1>1 DEF KeyInv, KeyTypes, KbOK
<1>3. ASSUME WireInv  PROVE WireInv'
  <2>1. \E f : Path(f, wire', Mode(kb'), Rest(down'))
    BY <1>1, <1>3 DEF WireInv
  <2>2. Mode(kb)' = Mode(kb') /\ Rest(down)' = Rest(down')
    BY DEF Mode, Rest, Held
  <2> QED
    BY <1>1, <1>3, <2>1, <2>2 DEF WireInv, Path, After, Gives, Sets
<1>4. ASSUME RingInv  PROVE RingInv'
  BY <1>1, <1>4 DEF RingInv, Count, Place
<1> QED
  BY <1>1, <1>2, <1>3, <1>4 DEF KeyInv

\* The invariant holds after keyboard_init, with no key down.
LEMMA InitKeyInv == KeyInit => KeyInv
<1> SUFFICES ASSUME KeyInit  PROVE KeyInv
  OBVIOUS
<1>1. N \in Nat \ {0, 1}
  BY KeyboardConstants DEF N
<1>2. /\ kb = [ring |-> [i \in KbIndex |-> NoKey], head |-> 0, tail |-> 0, mods |-> {},
              e0_prefix |-> FALSE]
      /\ down = {} /\ wire = <<>> /\ kept = <<>> /\ twin = FALSE
  BY DEF KeyInit, KbIndex, N
<1>3. /\ kb.ring = [i \in KbIndex |-> NoKey] /\ kb.head = 0 /\ kb.tail = 0
      /\ kb.mods = {} /\ kb.e0_prefix = FALSE
  BY <1>2
<1>4. 0 \in KbIndex
  BY <1>1 DEF KbIndex
<1>5. KbOK(kb)
  BY <1>2, <1>3, <1>4 DEF KbOK
<1>6. KeyTypes
  <2>1. wire \in Seq({})
    BY <1>2
  <2> QED
    BY <1>2, <1>5, <2>1 DEF KeyTypes
<1>7. WireInv
  <2> DEFINE h == [i \in {1} |-> Mode(kb)]
  <2>1. Mode(kb) = Rest(down)
    BY <1>2, <1>3 DEF Mode, Rest, Held
  <2>2. Len(wire) = 0 /\ 1 .. 0 + 1 = {1} /\ 1 .. 0 = {}
    BY <1>2
  <2>3. DOMAIN h = {1} /\ h[1] = Mode(kb)
    OBVIOUS
  <2> HIDE DEF h
  <2>4. Path(h, wire, Mode(kb), Rest(down))
    BY <2>1, <2>2, <2>3 DEF Path
  <2> QED
    BY <1>2, <2>4 DEF WireInv
<1>8. RingInv
  <2>1. Count(kb) = 0
    BY <1>3, <1>4, RingIndex
  <2> DEFINE f == [i \in 1 .. Count(kb) |-> kb.ring[Place(kb, i)]]
  <2>2. f \in Seq({NoKey}) /\ Len(f) = 0
    BY <2>1
  <2>3. f = <<>>
    <3> HIDE DEF f
    <3> QED
      BY <2>2, EmptySeq
  <2> QED
    BY <1>2, <2>3 DEF RingInv
<1> QED
  BY <1>6, <1>7, <1>8 DEF KeyInv

\* Every step of the keyboard, the driver and the processes keeps the invariant.
LEMMA NextKeyInv == KeyInv /\ [KeyNext]_<<vars, kbVars, left>> => KeyInv'
<1> SUFFICES ASSUME KeyInv, [KeyNext]_<<vars, kbVars, left>>  PROVE KeyInv'
  OBVIOUS
<1>1. CASE Messages
  BY <1>1, KeyStutters DEF Messages
<1>2. CASE UNCHANGED <<vars, kbVars, left>>
  BY <1>2, KeyStutters
<1>3. ASSUME NEW k \in DOMAIN Keys, Press(k) \/ Release(k)  PROVE KeyInv'
  BY <1>3, PressStep, ReleaseStep
<1> QED
  BY <1>1, <1>2, <1>3, IrqStep, ReadKeyStep DEF KeyNext

\* The inductive invariant: the codes that the controller still has lead the driver
\* from its present modifiers to those of the keys that are down, each giving what
\* its stroke meant, and the ring holds the keys kept.
THEOREM KeyInvariant == KeySpec => []KeyInv
  BY InitKeyInv, NextKeyInv, PTL DEF KeySpec

\* For a ring of any size and a wire of any length the keys that wait for
\* sys_read_key are the strokes made, in order and with the modifiers held at the
\* time, however strokes, interrupts, reads and messages interleave.
THEOREM KeysTheorem == KeySpec => []KeysRight
<1>1. KeyInv => KeysRight
  <2> SUFFICES ASSUME KeyInv, ~ twin  PROVE Waiting = kept
    BY DEF KeysRight
  <2>1. kept = [i \in 1 .. Count(kb) |-> kb.ring[Place(kb, i)]]
    BY DEF KeyInv, RingInv
  <2> QED
    BY <2>1 DEF Waiting, Count, Place, N
<1> QED
  BY <1>1, KeyInvariant, PTL
=============================================================================

---------------------------- MODULE GlobalMem_proofs ----------------------------
(***************************************************************************)
(* globalmem, for any processes, memory size, bytes and offsets: calls take*)
(* effect one after the other, and no copy leaves the memory.              *)
(***************************************************************************)
EXTENDS GlobalMem, TLAPS

USE MemAssumption

Byte == Cells \cup {0}
Buffers == UNION {[1 .. n -> Byte] : n \in 0 .. MEMSIZE}
Calls == [op : {"none", "read", "write", "clear", "seek"}, p : Int,
          count : 0 .. MEMSIZE, i : 0 .. MEMSIZE + 1, buf : Buffers]

Copies(k) == k.op \in {"read", "write", "clear"}

\* A call: its bytes are those of its count, and lie in the memory.
CallOK(k) ==
  /\ k.i <= k.count + 1
  /\ Copies(k) => k.buf \in [1 .. k.count -> Byte]
  /\ Copies(k) /\ k.count > 0 => k.p \in Cell /\ k.p + k.count <= MEMSIZE
  /\ ~Copies(k) => k.count = 0 /\ k.i = 0

MemTypes == /\ mem \in [Cell -> Byte] /\ whole \in [Cell -> Byte]
            /\ mmutex \in MemProcs \cup {NoOwner} /\ f_pos \in Int
            /\ mcall \in [MemProcs -> Calls] /\ mcalls \in [MemProcs -> Nat]
            /\ \A q \in MemProcs : CallOK(mcall[q])

\* The mutex is with whoever is copying.
MutexInv == \A q \in MemProcs :
  /\ mcall[q].i >= 1 /\ mcall[q].count > 0 => mmutex = q
  /\ mmutex = q => mcall[q].i >= 1

\* What the bytes copied by k so far make of the memory w.
Done(k, w) ==
  IF k.op = "read" THEN w
  ELSE [c \in Cell |-> IF c \in k.p .. k.p + k.i - 2 THEN k.buf[c - k.p + 1] ELSE w[c]]

\* The memory is whole but for what the holder of the mutex has written, and
\* a reader that holds it has read what is there.
WholeInv ==
  /\ mmutex = NoOwner => mem = whole
  /\ \A q \in MemProcs : mmutex = q => mem = Done(mcall[q], whole)
  /\ \A q \in MemProcs : mcall[q].op = "read" =>
       \A c \in 1 .. mcall[q].i - 1 : c <= mcall[q].count =>
         mcall[q].buf[c] = mem[mcall[q].p + c - 1]

MemInv == MemTypes /\ MutexInv /\ WholeInv

\* A process outside of a call.
LEMMA NoCallFacts == NoCall \in Calls /\ CallOK(NoCall) /\ NoCall.i = 0
<1>1. <<>> \in [1 .. 0 -> Byte]
  OBVIOUS
<1>2. <<>> \in Buffers
  BY <1>1 DEF Buffers
<1> QED
  BY <1>2 DEF NoCall, Calls, CallOK, Copies

\* No call is under way at the start.
LEMMA InitOK == MemInit => MemInv
<1> SUFFICES ASSUME MemInit PROVE MemInv
  OBVIOUS
<1>1. MemTypes
  BY NoCallFacts DEF MemInit, MemTypes, Byte
<1>2. MutexInv /\ WholeInv
  BY DEF MemInit, MutexInv, WholeInv, NoCall
<1> QED
  BY <1>1, <1>2 DEF MemInv

\* Done yields a memory, and the same one when no byte is copied yet.
LEMMA DoneFacts ==
  ASSUME NEW k \in Calls, CallOK(k), Copies(k), NEW w \in [Cell -> Byte]
  PROVE  /\ k.i <= 1 => Done(k, w) = w
         /\ k.i >= 1 => Done(k, w) \in [Cell -> Byte]
<1>1. k.p \in Int /\ k.count \in Nat /\ k.i \in Nat
  BY DEF Calls
<1>2. ASSUME k.i <= 1 PROVE Done(k, w) = w
  <2>1. \A c \in Cell : c \notin k.p .. k.p + k.i - 2
    BY <1>1, <1>2 DEF Cell
  <2> QED
    BY <2>1 DEF Done
<1>3. ASSUME NEW c \in Cell, c \in k.p .. k.p + k.i - 2 PROVE k.buf[c - k.p + 1] \in Byte
  <2>1. c \in Int /\ k.p <= c /\ c <= k.p + k.i - 2 /\ k.i <= k.count + 1
    BY <1>1, <1>3 DEF CallOK, Cell
  <2>2. c - k.p + 1 \in 1 .. k.count
    BY <1>1, <2>1
  <2> QED
    BY <2>2 DEF CallOK
<1>4. Done(k, w) \in [Cell -> Byte]
  BY <1>3 DEF Done
<1> QED
  BY <1>2, <1>4

\* A step that gives q the call k, and touches the mutex and the memory as the
\* rest of MemInv allows.
LEMMA CallStep ==
  ASSUME MemInv, NEW q \in MemProcs, NEW k \in Calls, CallOK(k),
         mcall' = [mcall EXCEPT ![q] = k],
         UNCHANGED <<mem, mmutex, whole>>, f_pos' \in Int,
         mcalls' \in [MemProcs -> Nat],
         mcall[q].i = 0, k.i = 0 \/ (k.i = 1 /\ k.count = 0)
  PROVE  MemInv'
<1>1. mcall'[q] = k /\ \A r \in MemProcs \ {q} : mcall'[r] = mcall[r]
  BY DEF MemInv, MemTypes
<1>2. k.i \in Nat /\ k.count \in Nat /\ mmutex # q
  BY DEF MemInv, MemTypes, MutexInv, Calls
<1>3. MemTypes'
  BY <1>1 DEF MemInv, MemTypes
<1>4. MutexInv'
  BY <1>1, <1>2 DEF MemInv, MutexInv
<1>5. WholeInv'
  <2>1. \A c \in 1 .. k.i - 1 : FALSE
    BY <1>2
  <2>2. /\ mmutex' = NoOwner => mem' = whole'
        /\ \A r \in MemProcs : mmutex' = r => mem' = Done(mcall'[r], whole')
    BY <1>1, <1>2 DEF MemInv, WholeInv
  <2>3. ASSUME NEW r \in MemProcs, mcall'[r].op = "read",
               NEW c \in 1 .. mcall'[r].i - 1, c <= mcall'[r].count
        PROVE  mcall'[r].buf[c] = mem'[mcall'[r].p + c - 1]
    BY <1>1, <2>1, <2>3 DEF MemInv, WholeInv
  <2> QED
    BY <2>2, <2>3 DEF WholeInv
<1> QED
  BY <1>3, <1>4, <1>5 DEF MemInv

\* Calls begin, and seeks end, without the mutex.
LEMMA EnterStep ==
  ASSUME MemInv, NEW q \in MemProcs,
         MemEnter(q) \/ ClearEnter(q) \/ SeekSet(q) \/ SeekTest(q) \/ SeekMove(q)
  PROVE  MemInv'
<1>0. /\ f_pos \in Int /\ mcalls \in [MemProcs -> Nat] /\ mcall[q] \in Calls
      /\ CallOK(mcall[q])
  BY DEF MemInv, MemTypes
<1>1. CASE MemEnter(q)
  <2>1. PICK size \in 0 .. MEMSIZE + 1, v \in Cells, op \in {"read", "write"} :
          LET inside == f_pos \in Cell
              count  == IF inside THEN Clip(size, f_pos) ELSE 0
          IN  MemCall(q, [op |-> op, p |-> f_pos, count |-> count,
                          i |-> IF inside THEN 0 ELSE 1,
                          buf |-> [c \in 1 .. count |-> IF op = "write" THEN v ELSE 0]])
    BY <1>1 DEF MemEnter
  <2> DEFINE count == IF f_pos \in Cell THEN Clip(size, f_pos) ELSE 0
             buf == [c \in 1 .. count |-> IF op = "write" THEN v ELSE 0]
             k == [op |-> op, p |-> f_pos, count |-> count,
                   i |-> IF f_pos \in Cell THEN 0 ELSE 1, buf |-> buf]
  <2>2. count \in 0 .. MEMSIZE /\ (f_pos \in Cell => f_pos + count <= MEMSIZE)
    BY <1>0 DEF Clip, Cell
  <2>3. buf \in [1 .. count -> Byte]
    BY DEF Byte
  <2>4. buf \in Buffers
    BY <2>2, <2>3 DEF Buffers
  <2>5. MemCall(q, k) /\ (f_pos \notin Cell => count = 0)
    BY <2>1
  <2> HIDE DEF count, buf
  <2>6. k \in Calls /\ CallOK(k) /\ k.count = count /\ k.i \in 0 .. 1
    <3>1. k \in Calls
      BY <1>0, <2>2, <2>4 DEF Calls
    <3>2. CallOK(k)
      BY <1>0, <2>2, <2>3, <2>5 DEF CallOK, Copies
    <3> QED
      BY <3>1, <3>2
  <2>7. /\ mcall[q].i = 0 /\ mcalls' \in [MemProcs -> Nat]
        /\ mcall' = [mcall EXCEPT ![q] = k]
    BY <1>0, <2>5, NoCallFacts DEF MemCall
  <2>8. k.i = 0 \/ (k.i = 1 /\ k.count = 0)
    BY <2>5
  <2>9. UNCHANGED <<mem, mmutex, f_pos, whole>>
    BY <1>1 DEF MemEnter
  <2> HIDE DEF k
  <2> QED
    BY <1>0, <2>6, <2>7, <2>8, <2>9, CallStep
<1>2. CASE ClearEnter(q)
  <2> DEFINE buf == [c \in 1 .. MEMSIZE |-> 0]
             k == [op |-> "clear", p |-> 0, count |-> MEMSIZE, i |-> 0, buf |-> buf]
  <2>1. buf \in [1 .. MEMSIZE -> Byte] /\ buf \in Buffers
    <3>1. buf \in [1 .. MEMSIZE -> Byte]
      BY DEF Byte
    <3> QED
      BY <3>1 DEF Buffers
  <2>2. MemCall(q, k) /\ UNCHANGED <<mem, mmutex, f_pos, whole>>
    BY <1>2 DEF ClearEnter
  <2> HIDE DEF buf
  <2>3. k \in Calls /\ CallOK(k) /\ k.i = 0
    BY <2>1 DEF Calls, CallOK, Copies, Cell
  <2> HIDE DEF k
  <2>4. /\ mcall[q].i = 0 /\ mcalls' \in [MemProcs -> Nat]
        /\ mcall' = [mcall EXCEPT ![q] = k]
    BY <1>0, <2>2, NoCallFacts DEF MemCall
  <2> QED
    BY <1>0, <2>2, <2>3, <2>4, CallStep
<1>3. CASE SeekSet(q)
  <2>1. f_pos' \in Int /\ UNCHANGED <<mem, mmutex, whole>>
    BY <1>3 DEF SeekSet
  <2>2. /\ mcall[q].i = 0 /\ mcalls' \in [MemProcs -> Nat]
        /\ mcall' = [mcall EXCEPT ![q] = NoCall]
    BY <1>0, <1>3, NoCallFacts DEF SeekSet, MemCall
  <2> QED
    BY <2>1, <2>2, NoCallFacts, CallStep
<1>4. CASE SeekTest(q)
  <2>1. PICK offset \in Offsets : MemCall(q, [NoCall EXCEPT !.op = "seek", !.p = offset])
    BY <1>4 DEF SeekTest
  <2> DEFINE k == [NoCall EXCEPT !.op = "seek", !.p = offset]
  <2>2. k \in Calls /\ CallOK(k) /\ k.i = 0 /\ k.count = 0
    BY NoCallFacts DEF Calls, CallOK, Copies, NoCall
  <2>3. /\ mcall[q].i = 0 /\ mcalls' \in [MemProcs -> Nat]
        /\ mcall' = [mcall EXCEPT ![q] = k]
    BY <1>0, <2>1, NoCallFacts DEF MemCall
  <2> HIDE DEF k
  <2>4. UNCHANGED <<mem, mmutex, f_pos, whole>>
    BY <1>4 DEF SeekTest
  <2> QED
    BY <1>0, <2>2, <2>3, <2>4, CallStep
<1>5. CASE SeekMove(q)
  <2>1. /\ f_pos' \in Int /\ UNCHANGED <<mem, mmutex, whole, mcalls>>
        /\ mcall' = [mcall EXCEPT ![q] = NoCall]
    BY <1>0, <1>5 DEF SeekMove, Calls
  <2>2. mcall[q].i = 0
    BY <1>0, <1>5 DEF SeekMove, CallOK, Copies
  <2> QED
    BY <1>0, <2>1, <2>2, NoCallFacts, CallStep
<1> QED
  BY <1>1, <1>2, <1>3, <1>4, <1>5

\* The mutex is taken when no other call has it.
LEMMA LockStep ==
  ASSUME MemInv, NEW q \in MemProcs, MemLock(q)
  PROVE  MemInv'
<1> DEFINE k == [mcall[q] EXCEPT !.i = 1]
<1>1. mcall[q] \in Calls /\ CallOK(mcall[q]) /\ Copies(mcall[q]) /\ mcall[q].i = 0
  BY DEF MemInv, MemTypes, MemLock, Copies
<1>2. /\ k \in Calls /\ CallOK(k) /\ k.i = 1 /\ Copies(k)
      /\ k.op = mcall[q].op
  BY <1>1 DEF Calls, CallOK, Copies
<1>3. /\ mcall' = [mcall EXCEPT ![q] = k] /\ mmutex = NoOwner /\ mmutex' = q
      /\ UNCHANGED <<mem, f_pos, mcalls, whole>>
  BY DEF MemLock
<1> HIDE DEF k
<1>4. mcall'[q] = k /\ \A r \in MemProcs \ {q} : mcall'[r] = mcall[r]
  BY <1>3 DEF MemInv, MemTypes
<1>5. MemTypes'
  BY <1>2, <1>3, <1>4 DEF MemInv, MemTypes
<1>6. \A r \in MemProcs \ {q} : mcall[r].i < 1 \/ mcall[r].count <= 0
  <2>1. \A r \in MemProcs : mcall[r].i \in Nat /\ mcall[r].count \in Nat
    BY DEF MemInv, MemTypes, Calls
  <2> QED
    BY <1>3, <2>1 DEF MemInv, MutexInv
<1>7. MutexInv'
  BY <1>2, <1>3, <1>4, <1>6 DEF MutexInv, MemInv
<1>8. mem' = Done(mcall'[q], whole')
  BY <1>2, <1>3, <1>4, DoneFacts DEF MemInv, MemTypes, WholeInv
<1>9. WholeInv'
  BY <1>2, <1>3, <1>4, <1>8 DEF MemInv, WholeInv
<1> QED
  BY <1>5, <1>7, <1>9 DEF MemInv

\* Whoever is about to copy a byte holds the mutex alone, and the byte lies in
\* the memory.
LEMMA HolderFacts ==
  ASSUME MemInv, NEW q \in MemProcs, mcall[q].i \in 1 .. mcall[q].count
  PROVE  /\ Copies(mcall[q]) /\ mmutex = q /\ mem = Done(mcall[q], whole)
         /\ mcall[q].p + mcall[q].i - 1 \in Cell
         /\ mcall[q].buf \in [1 .. mcall[q].count -> Byte]
         /\ \A r \in MemProcs \ {q} : mcall[r].i < 1 \/ mcall[r].count <= 0
<1>1. /\ mcall[q] \in Calls /\ CallOK(mcall[q])
      /\ \A r \in MemProcs : mcall[r].i \in Nat /\ mcall[r].count \in Nat
  BY DEF MemInv, MemTypes, Calls
<1>2. mcall[q].p \in Int /\ mcall[q].count \in Nat /\ mcall[q].i \in Nat
  BY <1>1 DEF Calls
<1>3. Copies(mcall[q])
  BY <1>1, <1>2 DEF CallOK
<1>4. mmutex = q
  BY <1>2 DEF MemInv, MutexInv
<1>5. mcall[q].p + mcall[q].i - 1 \in Cell
  BY <1>1, <1>2, <1>3 DEF CallOK, Cell
<1>6. \A r \in MemProcs \ {q} : mcall[r].i < 1 \/ mcall[r].count <= 0
  <2> TAKE r \in MemProcs \ {q}
  <2>1. ~(mcall[r].i >= 1 /\ mcall[r].count > 0)
    BY <1>4 DEF MemInv, MutexInv
  <2> QED
    BY <1>1, <2>1
<1> QED
  BY <1>1, <1>3, <1>4, <1>5, <1>6 DEF CallOK, MemInv, WholeInv

\* A byte is copied under the mutex.
LEMMA CopyStep ==
  ASSUME MemInv, NEW q \in MemProcs, MemCopy(q)
  PROVE  MemInv'
<1> DEFINE k == mcall[q]
<1>1. k.i \in 1 .. k.count /\ UNCHANGED <<mmutex, f_pos, mcalls, whole>>
  BY DEF MemCopy
<1>2. /\ Copies(k) /\ mmutex = q /\ mem = Done(k, whole)
      /\ k.p + k.i - 1 \in Cell /\ k.buf \in [1 .. k.count -> Byte]
      /\ \A r \in MemProcs \ {q} : mcall[r].i < 1 \/ mcall[r].count <= 0
  BY <1>1, HolderFacts
<1>3. /\ k \in Calls /\ CallOK(k) /\ mem \in [Cell -> Byte] /\ whole \in [Cell -> Byte]
      /\ k.p \in Int /\ k.count \in 0 .. MEMSIZE /\ k.i \in Nat
  BY DEF MemInv, MemTypes, Calls
<1>4. CASE k.op = "read"
  <2> DEFINE n == [k EXCEPT !.i = k.i + 1,
                            !.buf = [k.buf EXCEPT ![k.i] = mem[k.p + k.i - 1]]]
  <2>1. mcall' = [mcall EXCEPT ![q] = n] /\ mem' = mem
    BY <1>3, <1>4 DEF MemCopy, MemInv, MemTypes, Calls
  <2>2. n.buf \in [1 .. k.count -> Byte]
    BY <1>2, <1>3 DEF Calls
  <2>3. n.buf \in Buffers
    BY <1>3, <2>2 DEF Buffers
  <2>4. /\ n \in Calls /\ n.op = "read" /\ n.i = k.i + 1 /\ n.p = k.p
        /\ n.count = k.count
    <3> DEFINE nb == [k.buf EXCEPT ![k.i] = mem[k.p + k.i - 1]]
    <3>1. n.buf = nb /\ k.i + 1 \in 0 .. MEMSIZE + 1
      BY <1>1, <1>3 DEF Calls
    <3>2. nb \in Buffers
      BY <2>3, <3>1
    <3> HIDE DEF nb
    <3> QED
      BY <1>3, <1>4, <3>1, <3>2 DEF Calls
  <2>5. CallOK(n)
    BY <1>1, <1>2, <1>3, <2>2, <2>4 DEF CallOK, Copies
  <2>6. \A c \in 1 .. n.i - 1 : n.buf[c] = mem[n.p + c - 1]
    <3>1. \A c \in 1 .. k.i - 1 : k.buf[c] = mem[k.p + c - 1]
      BY <1>1, <1>3, <1>4 DEF MemInv, WholeInv
    <3>2. n.buf = [k.buf EXCEPT ![k.i] = mem[k.p + k.i - 1]]
      BY <1>3 DEF Calls
    <3> HIDE DEF n
    <3> TAKE c \in 1 .. n.i - 1
    <3>3. c \in 1 .. k.i /\ c \in 1 .. k.count
      BY <1>1, <1>3, <2>4
    <3>4. CASE c = k.i
      BY <1>2, <2>4, <3>2, <3>3, <3>4
    <3>5. CASE c # k.i
      <4>1. c \in 1 .. k.i - 1
        BY <1>3, <3>3, <3>5
      <4> QED
        BY <1>2, <2>4, <3>1, <3>2, <3>3, <3>5, <4>1
    <3> QED
      BY <3>4, <3>5
  <2> HIDE DEF n
  <2>7. mcall'[q] = n /\ \A r \in MemProcs \ {q} : mcall'[r] = mcall[r]
    BY <2>1 DEF MemInv, MemTypes
  <2>8. MemTypes'
    BY <1>1, <2>1, <2>4, <2>5, <2>7 DEF MemInv, MemTypes
  <2>9. MutexInv'
    BY <1>1, <1>2, <1>3, <2>4, <2>7 DEF MemInv, MutexInv
  <2>10. mem' = Done(mcall'[q], whole')
    BY <1>1, <1>2, <1>4, <2>1, <2>4, <2>7 DEF Done
  <2>11. WholeInv'
    BY <1>1, <1>2, <2>1, <2>4, <2>6, <2>7, <2>10 DEF MemInv, WholeInv
  <2> QED
    BY <2>8, <2>9, <2>11 DEF MemInv
<1>5. CASE k.op # "read"
  <2> DEFINE n == [k EXCEPT !.i = k.i + 1]
  <2>1. /\ mcall' = [mcall EXCEPT ![q] = n]
        /\ mem' = [mem EXCEPT ![k.p + k.i - 1] = k.buf[k.i]]
    BY <1>5 DEF MemCopy, MemInv, MemTypes
  <2>2. /\ n \in Calls /\ n.op = k.op /\ n.i = k.i + 1 /\ n.p = k.p
        /\ n.count = k.count /\ n.buf = k.buf
    BY <1>1, <1>3 DEF Calls
  <2>3. CallOK(n)
    BY <1>1, <1>2, <1>3, <2>2 DEF CallOK, Copies
  <2> HIDE DEF n
  <2>4. mcall'[q] = n /\ \A r \in MemProcs \ {q} : mcall'[r] = mcall[r]
    BY <2>1 DEF MemInv, MemTypes
  <2>5. mem' \in [Cell -> Byte]
    BY <1>1, <1>2, <1>3, <2>1
  <2>6. MemTypes'
    BY <1>1, <2>1, <2>2, <2>3, <2>4, <2>5 DEF MemInv, MemTypes
  <2>7. MutexInv'
    BY <1>1, <1>2, <1>3, <2>2, <2>4 DEF MemInv, MutexInv
  <2>8. mem' = Done(mcall'[q], whole')
    <3>1. \A c \in Cell : mem'[c] = IF c \in k.p .. k.p + n.i - 2
                                    THEN k.buf[c - k.p + 1] ELSE whole[c]
      <4> TAKE c \in Cell
      <4>1. mem[c] = IF c \in k.p .. k.p + k.i - 2 THEN k.buf[c - k.p + 1] ELSE whole[c]
        BY <1>2, <1>5 DEF Done
      <4>2. CASE c = k.p + k.i - 1
        <5>1. mem'[c] = k.buf[k.i]
          BY <1>3, <2>1, <4>2
        <5>2. k.i = c - k.p + 1
          BY <1>3, <4>2
        <5>3. c \in k.p .. k.p + n.i - 2
          BY <1>1, <1>3, <2>2, <4>2
        <5> QED
          BY <5>1, <5>2, <5>3
      <4>3. CASE c # k.p + k.i - 1
        <5>1. c \in k.p .. k.p + n.i - 2 <=> c \in k.p .. k.p + k.i - 2
          <6> DEFINE m == k.p  j == k.i
          <6>1. m \in Int /\ j \in Nat /\ c \in Int /\ c # m + j - 1 /\ n.i = j + 1
            BY <1>3, <2>2, <4>3 DEF Cell
          <6> HIDE DEF m, j
          <6>2. c \in m .. m + (j + 1) - 2 <=> c \in m .. m + j - 2
            BY <6>1
          <6> QED
            BY <6>1, <6>2 DEF m, j
        <5> QED
          BY <1>3, <2>1, <4>1, <4>3, <5>1
      <4> QED
        BY <4>2, <4>3
    <3>2. Done(n, whole) = [c \in Cell |-> IF c \in k.p .. k.p + n.i - 2
                                          THEN k.buf[c - k.p + 1] ELSE whole[c]]
      BY <1>5, <2>2 DEF Done
    <3> QED
      BY <1>1, <2>4, <2>5, <3>1, <3>2
  <2>9. \A r \in MemProcs : mcall'[r].op = "read" =>
          \A c \in 1 .. mcall'[r].i - 1 : c > mcall'[r].count
    <3>1. \A r \in MemProcs : mcall[r] \in Calls /\ CallOK(mcall[r])
      BY DEF MemInv, MemTypes
    <3> SUFFICES ASSUME NEW r \in MemProcs, mcall'[r].op = "read",
                        NEW c \in 1 .. mcall'[r].i - 1
                 PROVE  c > mcall'[r].count
      OBVIOUS
    <3>2. r # q
      BY <1>5, <2>2, <2>4
    <3>3. /\ mcall'[r] = mcall[r] /\ (mcall[r].i < 1 \/ mcall[r].count <= 0)
          /\ mcall[r].i \in Nat /\ mcall[r].count \in Nat
      BY <1>2, <2>4, <3>1, <3>2 DEF Calls
    <3> QED
      BY <3>3
  <2>10. WholeInv'
    <3>1. \A r \in MemProcs : mcall'[r].i \in Nat /\ mcall'[r].count \in Nat
      BY <2>6 DEF MemTypes, Calls
    <3> QED
      BY <1>1, <1>2, <2>8, <2>9, <3>1 DEF WholeInv
  <2> QED
    BY <2>6, <2>7, <2>10 DEF MemInv
<1> QED
  BY <1>4, <1>5

\* A call that ends makes whole what it has done of it.
LEMMA ReturnStep ==
  ASSUME MemInv, NEW q \in MemProcs, MemDone(q) \/ MemFault(q)
  PROVE  MemInv'
<1> DEFINE k == mcall[q]
<1>1. /\ k \in Calls /\ CallOK(k) /\ mem \in [Cell -> Byte] /\ whole \in [Cell -> Byte]
      /\ k.p \in Int /\ k.count \in Nat /\ k.i \in Nat /\ f_pos \in Int
  BY DEF MemInv, MemTypes, Calls
<1>2. k.i > k.count \/ (k.i \in 1 .. k.count)
  BY DEF MemDone, MemFault
<1>3. Copies(k) /\ k.i >= 1
  BY <1>1, <1>2 DEF CallOK
<1>4. MemReturn(q)
  BY DEF MemDone, MemFault
<1>5. /\ mcall' = [mcall EXCEPT ![q] = NoCall] /\ mem' = mem /\ mcalls' = mcalls
      /\ mmutex' = (IF mmutex = q THEN NoOwner ELSE mmutex)
      /\ whole' = Done(k, whole)
  BY <1>4 DEF MemReturn, Done
<1>6. f_pos' \in Int
  BY <1>1 DEF MemDone, MemFault
<1>7. whole' \in [Cell -> Byte]
  BY <1>1, <1>3, <1>5, DoneFacts
<1>8. mmutex = q => mem = whole'
  BY <1>5 DEF MemInv, WholeInv
<1>9. mmutex # q => whole' = whole
  <2> SUFFICES ASSUME mmutex # q PROVE whole' = whole
    OBVIOUS
  <2>1. ~(k.i >= 1 /\ k.count > 0)
    BY DEF MemInv, MutexInv
  <2>2. k.i <= 1
    BY <1>1, <1>3, <2>1 DEF CallOK
  <2> QED
    BY <1>1, <1>3, <1>5, <2>2, DoneFacts
<1> HIDE DEF k
<1>10. mcall'[q] = NoCall /\ \A r \in MemProcs \ {q} : mcall'[r] = mcall[r]
  BY <1>5 DEF MemInv, MemTypes
<1>11. MemTypes'
  BY <1>5, <1>6, <1>7, <1>10, NoCallFacts DEF MemInv, MemTypes
<1>12. \A r \in MemProcs : mmutex' = r => r # q /\ mmutex = r
  BY <1>5
<1>13. MutexInv'
  <2>1. NoCall.i = 0 /\ NoCall.count = 0
    BY DEF NoCall
  <2>2. ASSUME NEW r \in MemProcs, mcall'[r].i >= 1, mcall'[r].count > 0
        PROVE  mmutex' = r
    <3>1. r # q
      BY <1>10, <2>1, <2>2
    <3> QED
      BY <1>5, <1>10, <2>2, <3>1 DEF MemInv, MutexInv
  <2>3. \A r \in MemProcs : mmutex' = r => mcall'[r].i >= 1
    BY <1>10, <1>12 DEF MemInv, MutexInv
  <2> QED
    BY <2>2, <2>3 DEF MutexInv
<1>14. WholeInv'
  <2>1. mmutex' = NoOwner => mem' = whole'
    BY <1>5, <1>8, <1>9 DEF MemInv, WholeInv
  <2>2. \A r \in MemProcs : mmutex' = r => mem' = Done(mcall'[r], whole')
    BY <1>5, <1>9, <1>10, <1>12 DEF MemInv, WholeInv
  <2>3. ASSUME NEW r \in MemProcs, mcall'[r].op = "read",
               NEW c \in 1 .. mcall'[r].i - 1, c <= mcall'[r].count
        PROVE  mcall'[r].buf[c] = mem'[mcall'[r].p + c - 1]
    <3>1. r # q
      BY <1>10, <2>3 DEF NoCall
    <3> QED
      BY <1>5, <1>10, <2>3, <3>1 DEF MemInv, WholeInv
  <2> QED
    BY <2>1, <2>2, <2>3 DEF WholeInv
<1> QED
  BY <1>11, <1>13, <1>14 DEF MemInv

\* Every step of globalmem keeps MemInv.
LEMMA MemStep == MemInv /\ [MemNext]_memvars => MemInv'
<1> SUFFICES ASSUME MemInv, [MemNext]_memvars PROVE MemInv'
  OBVIOUS
<1>1. CASE UNCHANGED memvars
  BY <1>1 DEF memvars, MemInv, MemTypes, MutexInv, WholeInv
<1>2. CASE MemNext
  <2>1. PICK q \in MemProcs :
          \/ MemEnter(q) \/ ClearEnter(q) \/ MemLock(q) \/ MemCopy(q) \/ MemDone(q)
          \/ MemFault(q) \/ SeekSet(q) \/ SeekTest(q) \/ SeekMove(q)
    BY <1>2 DEF MemNext
  <2>2. CASE MemLock(q)
    BY <2>2, LockStep
  <2>3. CASE MemCopy(q)
    BY <2>3, CopyStep
  <2>4. CASE MemDone(q) \/ MemFault(q)
    BY <2>4, ReturnStep
  <2>5. CASE MemEnter(q) \/ ClearEnter(q) \/ SeekSet(q) \/ SeekTest(q) \/ SeekMove(q)
    BY <2>5, EnterStep
  <2> QED
    BY <2>1, <2>2, <2>3, <2>4, <2>5
<1> QED
  BY <1>1, <1>2

\* MemInv holds in every state of globalmem.
THEOREM MemInductive == MemSpec => []MemInv
<1> QED
  BY InitOK, MemStep, PTL DEF MemSpec

\* Calls of globalmem take effect one after the other.
THEOREM CallsAreAtomic == MemSpec => []MemIsWhole
<1>1. MemInv => MemIsWhole
  <2> SUFFICES ASSUME MemInv PROVE MemIsWhole
    OBVIOUS
  <2>1. mmutex = NoOwner => mem = whole
    BY DEF MemInv, WholeInv
  <2>2. ASSUME NEW q \in MemProcs, mcall[q].op = "read", mcall[q].i > mcall[q].count,
               NEW c \in 1 .. mcall[q].count
        PROVE  mcall[q].buf[c] = whole[mcall[q].p + c - 1]
    <3>1. mcall[q].i \in Nat /\ mcall[q].count \in Nat
      BY DEF MemInv, MemTypes, Calls
    <3>2. /\ c \in 1 .. mcall[q].i - 1 /\ c <= mcall[q].count
          /\ mcall[q].i >= 1 /\ mcall[q].count > 0
      BY <2>2, <3>1
    <3>3. mcall[q].buf[c] = mem[mcall[q].p + c - 1]
      BY <2>2, <3>2 DEF MemInv, WholeInv
    <3>4. mem = whole
      BY <2>2, <3>2 DEF MemInv, MutexInv, WholeInv, Done
    <3> QED
      BY <3>3, <3>4
  <2> QED
    BY <2>1, <2>2 DEF MemIsWhole
<1> QED
  BY <1>1, MemInductive, PTL

\* Wherever llseek leaves the position, no copy leaves the memory.
THEOREM CopiesStayInMemory == MemSpec => []CopyInMemory
<1>1. MemInv => CopyInMemory
  BY DEF MemInv, MemTypes, CallOK, Copies, CopyInMemory
<1> QED
  BY <1>1, MemInductive, PTL
=============================================================================

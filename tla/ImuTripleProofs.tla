---------------------------- MODULE ImuTripleProofs ----------------------------
(***************************************************************************)
(* Proofs, for every size of a register group and any number of packets,   *)
(* that the triple buffer cures the torn read, and of what it serves.      *)
(***************************************************************************)
EXTENDS ImuTriple, TLAPS

(***************************************************************************)
(* imu_emulator2.c:93-96: the three indices are a permutation of 0..2, so  *)
(* that the writer's image is nobody else's.                               *)
(***************************************************************************)
Permutation ==
  /\ writer_idx \in Images /\ pending_idx \in Images /\ reader_idx \in Images
  /\ writer_idx # pending_idx /\ writer_idx # reader_idx /\ pending_idx # reader_idx

\* An image of one packet.
Shows(idx, n) == \A c \in Group : imu_buf[idx][c] = n

\* Both images that are not the writer's are of one packet each; the bytes
\* of the packet in hand are in the writer's.
ImageInv ==
  /\ imu_buf \in [Images -> [Group -> Int]] /\ written \in Int
  /\ copied \subseteq Group
  /\ \A c \in copied : imu_buf[writer_idx][c] = written + 1
  /\ \E n \in Int : Shows(pending_idx, n)
  /\ \E n \in Int : Shows(reader_idx, n)
  /\ news => Shows(pending_idx, written)

\* The read in progress is of the reader's image.
ReadInv ==
  bus = "reading" =>
    /\ Group # {} => imu_buf[reader_idx][1] = seen
    /\ \A n \in ids : n = seen

TripleInv == Permutation /\ ImageInv /\ ReadInv

\* A group that is not empty has a first register.
LEMMA FirstCell ==
  ASSUME Cells \in Int
  PROVE  Group # {} => 1 \in Group
  BY DEF Group

LEMMA TripleInit ==
  Init => TripleInv
  <1> SUFFICES ASSUME Init PROVE TripleInv
    OBVIOUS
  <1>1. Permutation
    BY DEF Init, Permutation, Images
  <1>2. \A idx \in Images : Shows(idx, 0)
    BY DEF Init, Shows
  <1>3. ImageInv
    BY <1>1, <1>2 DEF Init, ImageInv, Permutation
  <1>4. QED
    BY <1>1, <1>3 DEF Init, TripleInv, ReadInv

\* A byte of the writer's image: the others keep what they show.
LEMMA CopyStep ==
  ASSUME TripleInv, UpdateCopy
  PROVE  TripleInv'
  <1>1. PICK c \in Group \ copied :
          /\ imu_buf' = [imu_buf EXCEPT ![writer_idx] = [@ EXCEPT ![c] = written + 1]]
          /\ copied' = copied \union {c}
    BY DEF UpdateCopy
  <1>2. UNCHANGED <<writer_idx, pending_idx, reader_idx, imu_current_reg, bus,
                    written, news, ids, seen>>
    BY DEF UpdateCopy, indices, history
  <1>3. imu_buf' \in [Images -> [Group -> Int]]
    BY <1>1 DEF TripleInv, ImageInv, Permutation
  <1>4. imu_buf'[pending_idx] = imu_buf[pending_idx] /\ imu_buf'[reader_idx] = imu_buf[reader_idx]
    BY <1>1 DEF TripleInv, ImageInv, Permutation
  <1>5. /\ imu_buf'[writer_idx][c] = written + 1
        /\ \A d \in Group \ {c} : imu_buf'[writer_idx][d] = imu_buf[writer_idx][d]
    BY <1>1 DEF TripleInv, ImageInv, Permutation
  <1>6. \A n : /\ Shows(pending_idx, n) <=> Shows(pending_idx, n)'
               /\ Shows(reader_idx, n) <=> Shows(reader_idx, n)'
    BY <1>2, <1>4 DEF Shows
  <1>7. \A d \in copied' : imu_buf'[writer_idx'][d] = written' + 1
    BY <1>1, <1>2, <1>5 DEF TripleInv, ImageInv
  <1>8. ImageInv'
    BY <1>1, <1>2, <1>3, <1>6, <1>7 DEF TripleInv, ImageInv
  <1>9. QED
    BY <1>2, <1>4, <1>8 DEF TripleInv, Permutation, ReadInv

\* The exchange of the writer: its image is complete.
LEMMA PublishStep ==
  ASSUME TripleInv, UpdatePublish
  PROVE  TripleInv'
  <1>1. /\ copied = Group /\ copied' = {}
        /\ pending_idx' = writer_idx /\ writer_idx' = pending_idx
        /\ written' = written + 1
        /\ UNCHANGED <<imu_buf, reader_idx, bus, ids, seen>>
    BY DEF UpdatePublish
  <1>2. Shows(writer_idx, written + 1)
    BY <1>1 DEF TripleInv, ImageInv, Shows
  <1>3. Shows(pending_idx, written)' /\ written' \in Int
    BY <1>1, <1>2 DEF Shows, TripleInv, ImageInv
  <1>4. \E n \in Int : Shows(reader_idx, n)'
    BY <1>1 DEF Shows, TripleInv, ImageInv
  <1>5. ImageInv'
    BY <1>1, <1>3, <1>4 DEF TripleInv, ImageInv
  <1>6. QED
    BY <1>1, <1>5 DEF TripleInv, Permutation, ReadInv

\* The exchange of the reader: the image it takes is of one packet.
LEMMA ReadStep ==
  ASSUME Cells \in Int, TripleInv, ReadRequested
  PROVE  TripleInv'
  <1>1. /\ reader_idx' = pending_idx /\ pending_idx' = reader_idx
        /\ seen' = imu_buf[pending_idx][1]
        /\ ids' = ServeByte(pending_idx, imu_current_reg)
        /\ news' = FALSE
        /\ UNCHANGED <<imu_buf, writer_idx, copied, written>>
    BY DEF ReadRequested
  <1>2. (\E n \in Int : Shows(pending_idx, n))' /\ (\E n \in Int : Shows(reader_idx, n))'
    BY <1>1 DEF TripleInv, ImageInv, Shows
  <1>3. ImageInv'
    BY <1>1, <1>2 DEF TripleInv, ImageInv
  <1>4. PICK n \in Int : Shows(pending_idx, n)
    BY DEF TripleInv, ImageInv
  <1>5. \A m \in ids' : m = seen'
    <2>1. CASE imu_current_reg \in Group
      <3>1. 1 \in Group
        BY <2>1, FirstCell
      <3>2. QED
        BY <1>1, <1>4, <2>1, <3>1 DEF Shows, ServeByte
    <2>2. CASE imu_current_reg \notin Group
      BY <1>1, <2>2 DEF ServeByte
    <2>3. QED
      BY <2>1, <2>2
  <1>6. QED
    BY <1>1, <1>3, <1>5 DEF TripleInv, Permutation, ReadInv

LEMMA TripleStep ==
  ASSUME Cells \in Int, TripleInv, [Next]_vars
  PROVE  TripleInv'
  <1>1. CASE WriteRequested \/ (\E val \in ImuRegs : WriteReceived(val)) \/ Stop
    <2>1. /\ UNCHANGED <<imu_buf, writer_idx, pending_idx, reader_idx, copied, written, news, seen>>
          /\ bus' # "reading"
      BY <1>1 DEF WriteRequested, WriteReceived, Stop, indices, history
    <2>2. ImageInv'
      BY <2>1 DEF TripleInv, ImageInv, Shows
    <2>3. QED
      BY <2>1, <2>2 DEF TripleInv, Permutation, ReadInv
  <1>2. CASE ReadProcessed
    <2>1. /\ UNCHANGED <<imu_buf, writer_idx, pending_idx, reader_idx, copied, bus, written, news, seen>>
          /\ bus = "reading" /\ ids' = ids \union ServeByte(reader_idx, imu_current_reg)
      BY <1>2 DEF ReadProcessed, indices
    <2>2. ImageInv'
      BY <2>1 DEF TripleInv, ImageInv, Shows
    <2>3. PICK n \in Int : Shows(reader_idx, n)
      BY DEF TripleInv, ImageInv
    <2>4. \A m \in ServeByte(reader_idx, imu_current_reg) : m = seen
      <3>1. CASE imu_current_reg \in Group
        <4>1. 1 \in Group
          BY <3>1, FirstCell
        <4>2. imu_buf[reader_idx][1] = seen
          BY <2>1, <4>1 DEF TripleInv, ReadInv
        <4>3. QED
          BY <2>3, <3>1, <4>1, <4>2 DEF Shows, ServeByte
      <3>2. CASE imu_current_reg \notin Group
        BY <3>2 DEF ServeByte
      <3>3. QED
        BY <3>1, <3>2
    <2>5. QED
      BY <2>1, <2>2, <2>4 DEF TripleInv, Permutation, ReadInv
  <1>3. CASE UNCHANGED vars
    <2>1. UNCHANGED <<imu_buf, writer_idx, pending_idx, reader_idx, copied, bus, written, news, ids,
                      seen>>
      BY <1>3 DEF vars, indices, history
    <2>2. ImageInv'
      BY <2>1 DEF TripleInv, ImageInv, Shows
    <2>3. QED
      BY <2>1, <2>2 DEF TripleInv, Permutation, ReadInv
  <1>4. QED
    BY <1>1, <1>2, <1>3, CopyStep, PublishStep, ReadStep DEF Next, Callback

(***************************************************************************)
(* The writer's image is never the reader's nor the pending one.           *)
(***************************************************************************)
THEOREM PermutationCorrect ==
  ASSUME Cells \in Nat
  PROVE  Spec => []Permutation
  <1>1. TripleInv /\ [Next]_vars => TripleInv'
    BY TripleStep
  <1>2. TripleInv => Permutation
    BY DEF TripleInv
  <1>3. QED
    BY <1>1, <1>2, TripleInit, PTL DEF Spec

(***************************************************************************)
(* No read is torn, however long it lasts.                                 *)
(***************************************************************************)
THEOREM NeverTornCorrect ==
  ASSUME Cells \in Nat
  PROVE  Spec => []NeverTorn
  <1>1. TripleInv /\ [Next]_vars => TripleInv'
    BY TripleStep
  <1>2. TripleInv => NeverTorn
    BY DEF TripleInv, ReadInv, NeverTorn
  <1>3. QED
    BY <1>1, <1>2, TripleInit, PTL DEF Spec

(***************************************************************************)
(* A read that begins after a publication shows the newest packet; without *)
(* one it shows what the exchange gives back, which NeverOlder's run shows *)
(* to be older.                                                            *)
(***************************************************************************)
THEOREM NewsIsServedCorrect ==
  ASSUME Cells \in Nat \ {0}
  PROVE  Spec => NewsIsServed
  <1>1. TripleInv /\ [Next]_vars => TripleInv'
    BY TripleStep
  <1>2. TripleInv /\ [Next]_vars
          => [bus # "reading" /\ bus' = "reading" /\ news => seen' = written]_vars
    <2> SUFFICES ASSUME TripleInv, Next, bus # "reading", bus' = "reading", news
                 PROVE  seen' = written
      OBVIOUS
    <2>1. ReadRequested
      BY DEF Next, Callback, UpdateCopy, UpdatePublish, WriteRequested, WriteReceived,
         ReadProcessed, Stop
    <2>2. 1 \in Group
      BY DEF Group
    <2>3. QED
      BY <2>1, <2>2 DEF ReadRequested, TripleInv, ImageInv, Shows
  <1>3. QED
    BY <1>1, <1>2, TripleInit, PTL DEF Spec, NewsIsServed
================================================================================

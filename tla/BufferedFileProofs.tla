------------------------- MODULE BufferedFileProofs -------------------------
(***************************************************************************)
(* What BufferedFile promises, for all buffers, files and calls, when      *)
(* nobody seeks while writing: it is the file of module File, and a file   *)
(* that was closed without an error holds what was written.                *)
(***************************************************************************)
EXTENDS BufferedFile, SequenceTheorems, TLAPS

-----------------------------------------------------------------------------
(* Pieces of files and buffers. *)

LEMMA PieceIs ==
    ASSUME NEW S, NEW s \in Seq(S), NEW m \in Nat, NEW n \in Nat, n <= Len(s)
    PROVE  /\ SubSeq(s, m + 1, n) \in Seq(S)
           /\ Len(SubSeq(s, m + 1, n)) = IF m < n THEN n - m ELSE 0
           /\ \A i \in 1 .. n - m : SubSeq(s, m + 1, n)[i] = s[m + i]
<1>1. Len(s) \in Nat
  BY LenProperties
<1>2. \A i \in m + 1 .. n : s[i] \in S
  <2>1. \A i \in m + 1 .. n : i \in 1 .. Len(s)
    BY <1>1
  <2> QED BY <2>1, ElementOfSeq
<1>3. /\ SubSeq(s, m + 1, n) \in Seq(S)
      /\ Len(SubSeq(s, m + 1, n)) = IF m + 1 <= n THEN n - (m + 1) + 1 ELSE 0
      /\ \A i \in 1 .. n - (m + 1) + 1 : SubSeq(s, m + 1, n)[i] = s[(m + 1) + i - 1]
  BY <1>2, SubSeqProperties
<1>4. n - (m + 1) + 1 = n - m /\ (m + 1 <= n <=> m < n)
  OBVIOUS
<1>5. \A i \in 1 .. n - m : (m + 1) + i - 1 = m + i
  OBVIOUS
<1> QED BY <1>3, <1>4, <1>5

LEMMA BufferIsASeq ==
    ASSUME NEW b \in Buffer
    PROVE  b \in Seq(Byte) /\ Len(b) = BufferSize
BY FileAssumption DEF Buffer

\* What is read from the FILE is what the file holds at its position, and is less than
\* was asked for only at the end.
LEMMA FetchedIs ==
    ASSUME disk \in Seq(Byte), head \in Nat, NEW n \in Nat
    PROVE  /\ Fetched(n) \in Seq(Byte)
           /\ Len(Fetched(n)) \in 0 .. n
           /\ \A i \in 1 .. Len(Fetched(n)) :
                head + i <= Len(disk) /\ Fetched(n)[i] = disk[head + i]
           /\ Len(Fetched(n)) = n \/ head + Len(Fetched(n)) >= Len(disk)
<1> DEFINE e == Least(head + n, Len(disk))
<1>1. Len(disk) \in Nat
  BY LenProperties
<1>2. e \in Nat /\ e <= Len(disk) /\ e <= head + n /\ (e = head + n \/ e = Len(disk))
  BY <1>1 DEF Least
<1>3. /\ SubSeq(disk, head + 1, e) \in Seq(Byte)
      /\ Len(SubSeq(disk, head + 1, e)) = IF head < e THEN e - head ELSE 0
      /\ \A i \in 1 .. e - head : SubSeq(disk, head + 1, e)[i] = disk[head + i]
  BY <1>2, PieceIs
<1>4. Fetched(n) = SubSeq(disk, head + 1, e)
  BY DEF Fetched
<1> HIDE DEF e
<1>5. Len(Fetched(n)) \in 0 .. n
  BY <1>1, <1>2, <1>3, <1>4
<1>6. \A i \in 1 .. Len(Fetched(n)) :
        head + i <= Len(disk) /\ Fetched(n)[i] = disk[head + i]
  BY <1>1, <1>2, <1>3, <1>4
<1>7. Len(Fetched(n)) = n \/ head + Len(Fetched(n)) >= Len(disk)
  BY <1>1, <1>2, <1>3, <1>4
<1> QED BY <1>3, <1>4, <1>5, <1>6, <1>7

\* A write at the end of a file appends to it.
LEMMA AppendedIs ==
    ASSUME NEW f \in Seq(Byte), NEW d \in Seq(Byte)
    PROVE  Overwritten(f, Len(f), d) = f \o d
<1>1. Len(f) \in Nat /\ Len(d) \in Nat
  BY LenProperties
<1> DEFINE n == Len(f) + Len(d)
           at(i) == CASE i \in Len(f) + 1 .. Len(f) + Len(d) -> d[i - Len(f)]
                      [] i \notin Len(f) + 1 .. Len(f) + Len(d) /\ i <= Len(f) -> f[i]
                      [] OTHER -> Zero
<1>2. Overwritten(f, Len(f), d) = [i \in 1 .. n |-> at(i)]
  <2>1. (IF Len(f) + Len(d) > Len(f) THEN Len(f) + Len(d) ELSE Len(f)) = n
    BY <1>1
  <2> QED BY <2>1 DEF Overwritten
<1>3. \A i \in 1 .. n : at(i) = IF i <= Len(f) THEN f[i] ELSE d[i - Len(f)]
  <2> SUFFICES ASSUME NEW i \in 1 .. n
               PROVE  at(i) = IF i <= Len(f) THEN f[i] ELSE d[i - Len(f)]
    OBVIOUS
  <2>1. i \in Len(f) + 1 .. Len(f) + Len(d) <=> ~(i <= Len(f))
    BY <1>1
  <2> QED BY <2>1
<1>4. /\ f \o d \in Seq(Byte)
      /\ Len(f \o d) = n
      /\ \A i \in 1 .. n : (f \o d)[i] = IF i <= Len(f) THEN f[i] ELSE d[i - Len(f)]
  BY ConcatProperties
<1>5. f \o d \in [1 .. n -> Byte]
  BY <1>4, LenProperties
<1> HIDE DEF at, n
<1>6. f \o d = [i \in 1 .. n |-> (f \o d)[i]]
  BY <1>5
<1>7. \A i \in 1 .. n : at(i) = (f \o d)[i]
  BY <1>3, <1>4
<1>8. [i \in 1 .. n |-> at(i)] = [i \in 1 .. n |-> (f \o d)[i]]
  BY <1>7, Zenon
<1> QED BY <1>2, <1>6, <1>8

LEMMA OverwrittenIsASeq ==
    ASSUME NEW f \in Seq(Byte), NEW d \in Seq(Byte), NEW p \in Nat
    PROVE  Overwritten(f, p, d) \in Seq(Byte)
<1>1. Len(f) \in Nat /\ Len(d) \in Nat
  BY LenProperties
<1> DEFINE n == IF p + Len(d) > Len(f) THEN p + Len(d) ELSE Len(f)
           at(i) == CASE i \in p + 1 .. p + Len(d) -> d[i - p]
                      [] i \notin p + 1 .. p + Len(d) /\ i <= Len(f) -> f[i]
                      [] OTHER -> Zero
<1>2. n \in Nat
  BY <1>1
<1>3. \A i \in 1 .. n : at(i) \in Byte
  <2> SUFFICES ASSUME NEW i \in 1 .. n
               PROVE  at(i) \in Byte
    OBVIOUS
  <2>1. CASE i \in p + 1 .. p + Len(d)
    <3>1. i - p \in 1 .. Len(d)
      BY <1>1, <2>1
    <3> QED BY <2>1, <3>1, ElementOfSeq
  <2>2. CASE i \notin p + 1 .. p + Len(d) /\ i <= Len(f)
    <3>1. i \in 1 .. Len(f)
      BY <1>1, <1>2, <2>2
    <3> QED BY <2>2, <3>1, ElementOfSeq
  <2>3. CASE i \notin p + 1 .. p + Len(d) /\ ~(i <= Len(f))
    BY <2>3, FileAssumption
  <2> QED BY <2>1, <2>2, <2>3
<1>4. Overwritten(f, p, d) = [i \in 1 .. n |-> at(i)]
  BY DEF Overwritten
<1> HIDE DEF n, at
<1> QED BY <1>2, <1>3, <1>4, IsASeq

LEMMA Associative == \A s, t, u \in Seq(Byte) : (s \o t) \o u = s \o (t \o u)
BY ConcatAssociative

\* What has been copied into the buffer comes behind what was there.
LEMMA BufferGrows ==
    ASSUME NEW b \in Buffer, NEW c \in Buffer, NEW d \in Seq(Byte),
           NEW i \in Nat, i + Len(d) <= BufferSize,
           \A j \in 1 .. i : c[j] = b[j],
           \A j \in 1 .. Len(d) : c[i + j] = d[j]
    PROVE  SubSeq(c, 1, i + Len(d)) = SubSeq(b, 1, i) \o d
<1>1. Len(d) \in Nat /\ BufferSize \in Nat
  BY LenProperties, FileAssumption
<1>2. /\ SubSeq(b, 1, i) \in Seq(Byte)
      /\ Len(SubSeq(b, 1, i)) = i
      /\ \A j \in 1 .. i : SubSeq(b, 1, i)[j] = b[j]
  BY <1>1, BufferIsASeq, PieceIs, 0 + 1 = 1
<1>3. /\ SubSeq(c, 1, i + Len(d)) \in Seq(Byte)
      /\ Len(SubSeq(c, 1, i + Len(d))) = i + Len(d)
      /\ \A j \in 1 .. i + Len(d) : SubSeq(c, 1, i + Len(d))[j] = c[j]
  BY <1>1, BufferIsASeq, PieceIs, 0 + 1 = 1
<1> DEFINE s == SubSeq(b, 1, i)
           t == SubSeq(c, 1, i + Len(d))
<1> HIDE DEF s, t
<1>4. /\ s \o d \in Seq(Byte)
      /\ Len(s \o d) = i + Len(d)
      /\ \A j \in 1 .. i + Len(d) : (s \o d)[j] = IF j <= i THEN s[j] ELSE d[j - i]
  BY <1>2, ConcatProperties DEF s
<1>5. \A j \in 1 .. Len(t) : t[j] = (s \o d)[j]
  <2> SUFFICES ASSUME NEW j \in 1 .. i + Len(d)
               PROVE  t[j] = (s \o d)[j]
    BY <1>3 DEF t
  <2>1. t[j] = c[j]
    BY <1>3 DEF t
  <2>2. CASE j <= i
    BY <1>2, <1>4, <2>1, <2>2 DEF s
  <2>3. CASE ~(j <= i)
    <3>1. j - i \in 1 .. Len(d) /\ i + (j - i) = j
      BY <1>1, <2>3
    <3> QED BY <1>4, <2>1, <2>3, <3>1
  <2> QED BY <2>2, <2>3
<1>6. t = s \o d
  BY <1>3, <1>4, <1>5, SeqEqual DEF t
<1> QED BY <1>6 DEF s, t

-----------------------------------------------------------------------------
(* The invariant: opening and calling. *)

LEMMA LeastIs ==
    ASSUME NEW a \in Nat, NEW b \in Nat
    PROVE  /\ Least(a, b) \in Nat
           /\ Least(a, b) <= a /\ Least(a, b) <= b
           /\ Least(a, b) = a \/ Least(a, b) = b
BY DEF Least

\* What the buffer holds has a place in the file, and is more than is consumed.
LEMMA Indices ==
    ASSUME TypeOK
    PROVE  /\ bufferIndex \in Nat /\ bufferEnd \in Nat /\ BufferSize \in Nat
           /\ bufferIndex <= bufferEnd /\ bufferEnd <= BufferSize
           /\ Tell \in Nat /\ Available \in Nat
           /\ Len(disk) \in Nat /\ Len(written) \in Nat /\ Len(data) \in Nat
<1>1. bufferIndex \in Nat /\ bufferEnd \in Nat /\ BufferSize \in Nat
      /\ bufferIndex <= bufferEnd /\ bufferEnd <= BufferSize
  BY FileAssumption DEF TypeOK
<1>2. Len(disk) \in Nat /\ Len(written) \in Nat /\ Len(data) \in Nat
  BY LenProperties DEF TypeOK
<1> QED BY <1>1, <1>2 DEF TypeOK, Tell, Available

LEMMA InitInv == ASSUME Init PROVE IInv
<1>1. <<>> \in Seq(Byte) /\ BufferSize \in Nat
  BY EmptySeq, FileAssumption
<1>2. TypeOK
  <2>1. mode \in {"closed", "read", "write"} /\ failed \in BOOLEAN
        /\ call \in {"none", "done"} \cup Reads \cup Writes
    BY DEF Init
  <2>2. disk \in Seq(Byte) /\ written \in Seq(Byte) /\ data \in Seq(Byte)
    BY <1>1 DEF Init
  <2>3. answer \in [asked : Nat, bytes : Seq(Byte)]
    BY <1>1 DEF Init
  <2>4. head \in Nat /\ fileIndex \in Nat /\ buffer \in Buffer
        /\ bufferEnd \in 0 .. BufferSize /\ bufferIndex \in 0 .. bufferEnd
        /\ size \in Nat /\ bytes \in Nat
    BY <1>1 DEF Init
  <2> QED BY <2>1, <2>2, <2>3, <2>4 DEF TypeOK
<1>3. CallInMode /\ ReadInStep /\ WriteInStep /\ ClosedInStep
  BY DEF Init, CallInMode, ReadInStep, WriteInStep, ClosedInStep, Reads, Writes
<1> QED BY <1>2, <1>3 DEF IInv

LEMMA OpenInv ==
    ASSUME IInv, NEW m \in {"read", "write"}, Open(m)
    PROVE  IInv'
<1> USE DEF IInv, Open, callVars
<1>1. call = "none" /\ disk = written
  BY DEF ClosedInStep
<1>2. <<>> \in Seq(Byte) /\ Len(<<>>) = 0 /\ BufferSize \in Nat
  BY EmptySeq, FileAssumption
<1>3. TypeOK'
  <2>1. disk' \in Seq(Byte) /\ written' \in Seq(Byte)
    BY <1>2 DEF TypeOK
  <2>2. bufferEnd' \in 0 .. BufferSize /\ bufferIndex' \in 0 .. bufferEnd'
    BY <1>2
  <2> QED BY <2>1, <2>2 DEF TypeOK
<1>4. CallInMode'
  BY <1>1 DEF CallInMode, Reads, Writes
<1>5. ReadInStep'
  BY <1>1 DEF ReadInStep
<1>6. WriteInStep'
  <2> SUFFICES ASSUME m = "write"
               PROVE  WriteInStep'
    BY DEF WriteInStep
  <2>1. SubSeq(buffer', 1, 0) = <<>>
    BY SubSeqEmpty
  <2>2. <<>> \o <<>> = <<>>
    BY <1>2, ConcatEmptySeq
  <2>3. (written = disk \o SubSeq(buffer, 1, bufferIndex))'
    BY <2>1, <2>2
  <2> QED BY <1>1, <1>2, <2>3 DEF WriteInStep
<1>7. ClosedInStep'
  BY DEF ClosedInStep
<1> QED BY <1>3, <1>4, <1>5, <1>6, <1>7

\* A method begins.
LEMMA CallInv ==
    ASSUME IInv, NEW c \in Reads \cup Writes, NEW n \in Nat, NEW d \in Seq(Byte),
           Call(c, n, d),
           c \in Reads => mode = "read" /\ d = <<>>,
           c \in Writes => mode = "write" /\ Len(d) = n
    PROVE  IInv'
<1> USE DEF IInv, Call, Idle, diskVars, bufferVars
<1>1. TypeOK'
  BY DEF TypeOK
<1>2. CallInMode'
  BY Indices DEF CallInMode, Reads, Writes, Tell
<1>3. ReadInStep'
  <2>1. c \in Writes => mode # "read"
    OBVIOUS
  <2>2. mode = "read" => d = <<>>
    BY <2>1
  <2>3. Len(<<>>) = 0
    BY EmptySeq
  <2> QED BY <2>2, <2>3 DEF ReadInStep, Reads, Writes
<1>4. WriteInStep'
  <2> SUFFICES ASSUME mode = "write"
               PROVE  WriteInStep'
    BY DEF WriteInStep
  <2>1. c \in Writes /\ c # "done" /\ Len(d) = n
    BY DEF Reads, Writes
  <2>2. 1 .. bytes' = {}
    OBVIOUS
  <2> QED BY <2>1, <2>2 DEF WriteInStep
<1>5. ClosedInStep'
  BY DEF ClosedInStep
<1> QED BY <1>1, <1>2, <1>3, <1>4, <1>5

LEMMA CallReadInv ==
    ASSUME IInv, NEW c \in Reads, NEW n \in 0 .. MaxCount, CallRead(c, n)
    PROVE  IInv'
<1>1. n \in Nat /\ <<>> \in Seq(Byte)
  BY FileAssumption, EmptySeq
<1>2. c \notin Writes
  BY DEF Reads, Writes
<1> QED BY <1>1, <1>2, CallInv DEF CallRead

LEMMA CallWriteInv ==
    ASSUME IInv, NEW c \in Writes, NEW n \in 0 .. MaxCount, NEW d \in [1 .. n -> Byte],
           CallWrite(c, d)
    PROVE  IInv'
<1>1. n \in Nat /\ d \in Seq(Byte) /\ Len(d) = n
  BY FileAssumption
<1>2. c \notin Reads
  BY DEF Reads, Writes
<1> QED BY <1>1, <1>2, CallInv DEF CallWrite

LEMMA ReturnInv == ASSUME IInv, Return PROVE IInv'
<1> USE DEF IInv, Return, diskVars, bufferVars
<1>1. TypeOK'
  BY DEF TypeOK
<1>2. CallInMode'
  BY DEF CallInMode, Reads, Writes
<1>3. ReadInStep' /\ WriteInStep'
  BY DEF ReadInStep, WriteInStep
<1>4. ClosedInStep'
  BY DEF ClosedInStep
<1> QED BY <1>1, <1>2, <1>3, <1>4

-----------------------------------------------------------------------------
(* The invariant: reading. *)

LEMMA CopyOutInv == ASSUME IInv, CopyOut PROVE IInv'
<1> USE DEF IInv, CopyOut, diskVars
<1>1. mode = "read" /\ ~failed
  BY DEF CallInMode, Reads, Writes
<1> DEFINE n == Least(Left, Available)
<1>2. /\ n \in Nat /\ n <= Left /\ n <= Available
      /\ bufferIndex + n \in 0 .. bufferEnd
      /\ bytes + n \in Nat /\ bytes + n <= size
  <2>1. Left \in Nat
    BY DEF TypeOK, Left
  <2>2. n \in Nat /\ n <= Left /\ n <= Available
    BY <2>1, Indices, LeastIs
  <2> HIDE DEF n
  <2> QED BY SMTT(30), <2>2, Indices DEF TypeOK, Left, Available
<1> DEFINE new == Chunk(n)
<1>3. /\ new \in Seq(Byte)
      /\ Len(new) = n
      /\ \A i \in 1 .. n : new[i] = buffer[bufferIndex + i]
  <2>1. buffer \in Seq(Byte) /\ Len(buffer) = BufferSize
    BY BufferIsASeq DEF TypeOK
  <2>2. bufferIndex \in Nat /\ bufferIndex + n \in Nat /\ bufferIndex + n <= BufferSize
    BY SMTT(30), <1>2, Indices
  <2>3. (IF bufferIndex < bufferIndex + n THEN (bufferIndex + n) - bufferIndex ELSE 0) = n
        /\ (bufferIndex + n) - bufferIndex = n
    BY SMTT(30), <1>2, Indices
  <2> DEFINE e == bufferIndex + n
  <2>4. new = SubSeq(buffer, bufferIndex + 1, e)
    BY DEF Chunk
  <2> HIDE DEF n, new, e
  <2>5. e \in Nat /\ e <= BufferSize /\ (IF bufferIndex < e THEN e - bufferIndex ELSE 0) = n
        /\ e - bufferIndex = n
    BY <2>2, <2>3 DEF e
  <2> QED BY SMTT(30), <2>1, <2>2, <2>4, <2>5, PieceIs
<1>4. /\ data' = data \o new
      /\ bufferIndex' = bufferIndex + n
      /\ bytes' = bytes + n
      /\ call \in Reads /\ bytes < size /\ bufferIndex < bufferEnd
      /\ UNCHANGED <<mode, disk, head, fileIndex, buffer, bufferEnd, call, size, written,
                     failed, answer>>
  OBVIOUS
<1> HIDE DEF n, new, CopyOut
<1>5. /\ data' \in Seq(Byte)
      /\ Len(data') = Len(data) + n
      /\ \A i \in 1 .. Len(data) + n :
           data'[i] = IF i <= Len(data) THEN data[i] ELSE new[i - Len(data)]
  <2>1. data \in Seq(Byte)
    BY DEF TypeOK
  <2> QED BY <1>3, <1>4, <2>1, ConcatProperties
<1>6. Tell' - bytes' = Tell - bytes /\ Tell \in Nat /\ bytes \in Nat /\ Tell' = Tell + n
  BY <1>2, <1>4, Indices DEF Tell, TypeOK
<1>7. TypeOK'
  BY <1>2, <1>4, <1>5 DEF TypeOK
<1>8. CallInMode'
  BY <1>1, <1>2, <1>4, <1>6 DEF CallInMode
<1>9. ReadInStep'
  <2>1. Len(data) = bytes
    BY <1>1, <1>4 DEF ReadInStep, Reads
  <2>2. \A i \in 1 .. bytes + n :
          Tell - bytes + i <= Len(disk) /\ data'[i] = disk[Tell - bytes + i]
    <3> SUFFICES ASSUME NEW i \in 1 .. bytes + n
                 PROVE  Tell - bytes + i <= Len(disk) /\ data'[i] = disk[Tell - bytes + i]
      OBVIOUS
    <3>1. CASE i <= bytes
      <4>1. i \in 1 .. bytes
        BY <1>6, <3>1
      <4>2. Tell - bytes + i <= Len(disk) /\ data[i] = disk[Tell - bytes + i]
        BY <1>1, <1>4, <4>1 DEF ReadInStep, Reads
      <4>3. data'[i] = data[i]
        BY <1>5, <2>1, <3>1
      <4> QED BY <4>2, <4>3
    <3>2. CASE ~(i <= bytes)
      <4> DEFINE j == i - bytes
      <4>1. j \in 1 .. n /\ bufferIndex + j \in 1 .. bufferEnd
        BY SMTT(30), <1>2, <1>6, <3>2, Indices
      <4>2. data'[i] = buffer[bufferIndex + j]
        BY <1>3, <1>5, <2>1, <3>2, <4>1
      <4>3. /\ fileIndex + (bufferIndex + j) <= Len(disk)
            /\ buffer[bufferIndex + j] = disk[fileIndex + (bufferIndex + j)]
        <5> HIDE DEF j
        <5> QED BY <1>1, <4>1 DEF ReadInStep
      <4>4. fileIndex + (bufferIndex + j) = Tell - bytes + i
        BY <1>6, Indices DEF Tell, TypeOK
      <4> QED BY <4>2, <4>3, <4>4
    <3> QED BY <3>1, <3>2
  <2>3. disk = written /\ head = fileIndex + bufferEnd
        /\ \A i \in 1 .. bufferEnd :
             fileIndex + i <= Len(disk) /\ buffer[i] = disk[fileIndex + i]
    BY <1>1 DEF ReadInStep
  <2>4. Len(data') = bytes'
    BY <1>4, <1>5, <2>1
  <2>5. call' # "done"
    BY <1>4 DEF Reads
  <2>6. \A i \in 1 .. bytes' :
          Tell' - bytes' + i <= Len(disk') /\ data'[i] = disk'[Tell' - bytes' + i]
    BY <1>4, <1>6, <2>2
  <2> QED BY <1>4, <2>3, <2>4, <2>5, <2>6 DEF ReadInStep
<1>10. WriteInStep' /\ ClosedInStep'
  BY <1>1, <1>4 DEF WriteInStep, ClosedInStep
<1> QED BY <1>7, <1>8, <1>9, <1>10

LEMMA FillBufferInv == ASSUME IInv, FillBuffer PROVE IInv'
<1> USE DEF IInv, FillBuffer
<1>1. mode = "read" /\ ~failed
  BY DEF CallInMode, Reads, Writes
<1> DEFINE new == Fetched(BufferSize)
<1>2. /\ new \in Seq(Byte)
      /\ Len(new) \in 0 .. BufferSize
      /\ \A i \in 1 .. Len(new) : head + i <= Len(disk) /\ new[i] = disk[head + i]
      /\ Len(new) = BufferSize \/ head + Len(new) >= Len(disk)
  BY FetchedIs, Indices DEF TypeOK
<1>3. /\ buffer' = [i \in 1 .. BufferSize |-> IF i <= Len(new) THEN new[i] ELSE buffer[i]]
      /\ bufferEnd' = Len(new)
      /\ head' = head + Len(new)
      /\ call' = IF new = <<>> THEN "done" ELSE call
      /\ fileIndex' = fileIndex + bufferIndex
      /\ bufferIndex' = 0
  BY DEF AtEnd, NextIndex
<1> HIDE DEF new
<1>4. BufferSize \in Nat \ {0} /\ Len(new) \in Nat
  BY <1>2, FileAssumption
<1>5. head = fileIndex + bufferEnd /\ bufferIndex = bufferEnd /\ head = fileIndex'
  BY <1>1, <1>3 DEF ReadInStep
<1>6. Tell' = Tell /\ Tell \in Nat /\ Tell = head
  BY <1>3, <1>5, Indices DEF Tell, TypeOK
<1>7. buffer' \in Buffer
  <2>1. \A i \in 1 .. BufferSize : i <= Len(new) => new[i] \in Byte
    BY <1>2, <1>4, ElementOfSeq
  <2> QED BY <1>3, <2>1 DEF TypeOK, Buffer
<1>8. TypeOK'
  <2>1. head' \in Nat /\ fileIndex' \in Nat
    BY <1>3, <1>4, Indices DEF TypeOK
  <2>2. bufferEnd' \in 0 .. BufferSize /\ bufferIndex' \in 0 .. bufferEnd'
    BY <1>2, <1>3, <1>4
  <2>3. call' \in {"none", "done"} \cup Reads \cup Writes
    BY <1>3 DEF TypeOK
  <2> QED BY <1>7, <2>1, <2>2, <2>3 DEF TypeOK
<1>9. CallInMode'
  BY <1>1, <1>3, <1>6 DEF CallInMode, Reads, Writes
<1>10. ReadInStep'
  <2>1. \A i \in 1 .. bufferEnd' :
          fileIndex' + i <= Len(disk) /\ buffer'[i] = disk[fileIndex' + i]
    <3> SUFFICES ASSUME NEW i \in 1 .. Len(new)
                 PROVE  fileIndex' + i <= Len(disk) /\ buffer'[i] = disk[fileIndex' + i]
      BY <1>3
    <3>1. i \in 1 .. BufferSize /\ i <= Len(new)
      BY <1>2, <1>4
    <3>2. buffer'[i] = new[i]
      BY <1>3, <3>1
    <3> QED BY <1>2, <1>5, <3>2
  <2>2. call' = "done" => Tell' >= Len(disk)
    <3> SUFFICES ASSUME new = <<>>
                 PROVE  head >= Len(disk)
      BY <1>3, <1>6
    <3>1. Len(new) = 0
      BY EmptySeq
    <3> QED BY <1>2, <1>4, <3>1, Indices DEF TypeOK
  <2>3. /\ Len(data) = bytes
        /\ \A i \in 1 .. bytes :
             Tell - bytes + i <= Len(disk) /\ data[i] = disk[Tell - bytes + i]
    BY <1>1 DEF ReadInStep
  <2>4. disk = written /\ head' = fileIndex' + bufferEnd'
    BY <1>1, <1>3, <1>5 DEF ReadInStep
  <2> QED BY <1>6, <2>1, <2>2, <2>3, <2>4 DEF ReadInStep
<1>11. WriteInStep' /\ ClosedInStep'
  BY <1>1 DEF WriteInStep, ClosedInStep
<1> QED BY <1>8, <1>9, <1>10, <1>11

LEMMA ReadRestInv == ASSUME IInv, ReadRest PROVE IInv'
<1> USE DEF IInv, ReadRest
<1>1. mode = "read" /\ ~failed /\ Left \in Nat
  BY DEF CallInMode, Reads, Writes, Left, TypeOK
<1> DEFINE new == Fetched(Left)
<1>2. /\ new \in Seq(Byte)
      /\ Len(new) \in 0 .. Left
      /\ \A i \in 1 .. Len(new) : head + i <= Len(disk) /\ new[i] = disk[head + i]
      /\ Len(new) = Left \/ head + Len(new) >= Len(disk)
  BY <1>1, FetchedIs DEF TypeOK
<1>3. /\ data' = data \o new
      /\ bytes' = bytes + Len(new)
      /\ head' = head + Len(new)
      /\ fileIndex' = fileIndex + bufferIndex + Len(new)
      /\ bufferEnd' = 0 /\ bufferIndex' = 0 /\ call' = "done"
      /\ call = "read_unbuf" /\ bytes < size /\ bufferIndex = bufferEnd
      /\ UNCHANGED <<mode, disk, buffer, size, written, failed, answer>>
  BY DEF NextIndex
<1> HIDE DEF new, ReadRest
<1>4. Len(new) \in Nat /\ Len(disk) \in Nat /\ bytes \in Nat /\ size \in Nat
  BY <1>1, <1>2, Indices DEF TypeOK
<1>5. /\ Len(data) = bytes
      /\ \A i \in 1 .. bytes :
           Tell - bytes + i <= Len(disk) /\ data[i] = disk[Tell - bytes + i]
      /\ disk = written
      /\ head = fileIndex + bufferEnd
  BY <1>1, <1>3 DEF ReadInStep
<1>6. /\ Tell \in Nat /\ Tell = head /\ fileIndex \in Nat /\ bufferIndex \in Nat
      /\ Tell' = Tell + Len(new)
      /\ Tell' - bytes' = Tell - bytes
  BY <1>3, <1>4, <1>5, Indices DEF Tell, TypeOK
<1>7. /\ data' \in Seq(Byte)
      /\ Len(data') = Len(data) + Len(new)
      /\ \A i \in 1 .. Len(data) + Len(new) :
           data'[i] = IF i <= Len(data) THEN data[i] ELSE new[i - Len(data)]
  <2>1. data \in Seq(Byte)
    BY DEF TypeOK
  <2> QED BY <1>2, <1>3, <2>1, ConcatProperties
<1>8. TypeOK'
  <2>1. head' \in Nat /\ fileIndex' \in Nat /\ bytes' \in Nat
    BY <1>3, <1>4, <1>6
  <2>2. bufferEnd' \in 0 .. BufferSize /\ bufferIndex' \in 0 .. bufferEnd'
    BY <1>3, Indices
  <2> QED BY <1>3, <1>7, <2>1, <2>2 DEF TypeOK
<1>9. CallInMode'
  <2>1. bytes <= Tell
    BY <1>1, <1>3 DEF CallInMode
  <2>2. bytes' <= size /\ bytes' <= Tell'
    BY <1>1, <1>2, <1>3, <1>4, <1>6, <2>1 DEF Left
  <2> QED BY <1>1, <1>3, <2>2 DEF CallInMode, Reads, Writes
<1>10. ReadInStep'
  <2>1. \A i \in 1 .. bytes' :
          Tell' - bytes' + i <= Len(disk') /\ data'[i] = disk'[Tell' - bytes' + i]
    <3> SUFFICES ASSUME NEW i \in 1 .. bytes + Len(new)
                 PROVE  Tell - bytes + i <= Len(disk) /\ data'[i] = disk[Tell - bytes + i]
      BY <1>3, <1>6
    <3>1. CASE i <= bytes
      <4>1. i \in 1 .. bytes
        BY <1>4, <3>1
      <4>2. data'[i] = data[i]
        BY <1>5, <1>7, <3>1
      <4> QED BY <1>5, <4>1, <4>2
    <3>2. CASE ~(i <= bytes)
      <4>1. i - bytes \in 1 .. Len(new)
        BY <1>4, <3>2
      <4>2. data'[i] = new[i - bytes]
        BY <1>5, <1>7, <3>2
      <4>3. head + (i - bytes) = Tell - bytes + i
        BY <1>4, <1>6
      <4> QED BY <1>2, <4>1, <4>2, <4>3
    <3> QED BY <3>1, <3>2
  <2>2. bytes' = size' \/ Tell' >= Len(disk')
    BY <1>2, <1>3, <1>4, <1>6 DEF Left
  <2>3. Len(data') = bytes' /\ disk' = written' /\ head' = fileIndex' + bufferEnd'
    BY <1>3, <1>4, <1>5, <1>6, <1>7
  <2>4. 1 .. bufferEnd' = {}
    BY <1>3
  <2> QED BY <2>1, <2>2, <2>3, <2>4 DEF ReadInStep
<1>11. WriteInStep' /\ ClosedInStep'
  BY <1>1, <1>3 DEF WriteInStep, ClosedInStep
<1> QED BY <1>8, <1>9, <1>10, <1>11

-----------------------------------------------------------------------------
(* The invariant: writing. *)

\* A flush appends to the file, and brings it up to date if it is complete.
LEMMA FlushedIs ==
    ASSUME IInv, mode = "write", NEW m \in 0 .. bufferIndex
    PROVE  /\ Flushed(m) \in Seq(Byte)
           /\ ~failed =>
                /\ Len(Flushed(m)) = head + m
                /\ m = bufferIndex => Flushed(m) = written
                /\ Len(written) = Tell
<1> DEFINE piece == SubSeq(buffer, 1, m)
<1>1. m \in Nat /\ m <= BufferSize
  BY Indices DEF IInv
<1>2. buffer \in Seq(Byte) /\ Len(buffer) = BufferSize
  BY BufferIsASeq DEF IInv, TypeOK
<1>3. piece \in Seq(Byte) /\ Len(piece) = m
  BY <1>1, <1>2, PieceIs, 0 + 1 = 1
<1>4. disk \in Seq(Byte) /\ head \in Nat
  BY DEF IInv, TypeOK
<1>5. Flushed(m) = Overwritten(disk, head, piece)
  BY DEF Flushed
<1> HIDE DEF piece
<1>6. Flushed(m) \in Seq(Byte)
  BY <1>3, <1>4, <1>5, OverwrittenIsASeq
<1>7. ASSUME ~failed
      PROVE  /\ Len(Flushed(m)) = head + m
             /\ m = bufferIndex => Flushed(m) = written
             /\ Len(written) = Tell
  <2>1. head = fileIndex /\ head = Len(disk) /\ written = disk \o SubSeq(buffer, 1, bufferIndex)
    BY <1>7 DEF IInv, WriteInStep
  <2>2. Flushed(m) = disk \o piece
    BY <1>3, <1>4, <1>5, <2>1, AppendedIs
  <2>3. Len(Flushed(m)) = head + m
    BY <1>3, <1>4, <2>1, <2>2, ConcatProperties
  <2>4. m = bufferIndex => Flushed(m) = written
    BY <2>1, <2>2 DEF piece
  <2>5. Len(SubSeq(buffer, 1, bufferIndex)) = bufferIndex
        /\ SubSeq(buffer, 1, bufferIndex) \in Seq(Byte)
    BY <1>2, Indices, PieceIs, 0 + 1 = 1 DEF IInv
  <2>6. Len(written) = Tell
    BY <1>4, <2>1, <2>5, ConcatProperties DEF Tell
  <2> QED BY <2>3, <2>4, <2>6
<1> QED BY <1>6, <1>7

\* The first b bytes of a call are at the end of a file, and there are n more.
CallFits(w, d, b, n) ==
    /\ w \in Seq(Byte) /\ d \in Seq(Byte) /\ b \in Nat /\ n \in Nat
    /\ b <= Len(w) /\ b + n <= Len(d)
    /\ \A i \in 1 .. b : d[i] = w[Len(w) - b + i]

\* The first b + n bytes of a call are at the end of the file that got its next n.
CallAppended(w, d, b, n) ==
    LET new == SubSeq(d, b + 1, b + n)
    IN  /\ new \in Seq(Byte) /\ Len(new) = n
        /\ w \o new \in Seq(Byte) /\ Len(w \o new) = Len(w) + n
        /\ \A i \in 1 .. b + n : d[i] = (w \o new)[Len(w) - b + i]

\* The bytes of a call that have been appended to a file are at its end.
LEMMA CallAppends ==
    ASSUME NEW w, NEW d, NEW b, NEW n, CallFits(w, d, b, n)
    PROVE  CallAppended(w, d, b, n)
<1>0. /\ w \in Seq(Byte) /\ d \in Seq(Byte) /\ b \in Nat /\ n \in Nat
      /\ b <= Len(w) /\ b + n <= Len(d)
      /\ \A i \in 1 .. b : d[i] = w[Len(w) - b + i]
  BY DEF CallFits
<1> USE <1>0
<1> DEFINE new == SubSeq(d, b + 1, b + n)
           e == b + n
<1>1. Len(w) \in Nat /\ Len(d) \in Nat
  BY LenProperties
<1>2. e \in Nat /\ e <= Len(d) /\ e - b = n /\ (IF b < e THEN e - b ELSE 0) = n
  OBVIOUS
<1>3. new = SubSeq(d, b + 1, e)
  OBVIOUS
<1> HIDE DEF e, new
<1>4. new \in Seq(Byte) /\ Len(new) = n /\ \A j \in 1 .. n : new[j] = d[b + j]
  <2>1. /\ SubSeq(d, b + 1, e) \in Seq(Byte)
        /\ Len(SubSeq(d, b + 1, e)) = IF b < e THEN e - b ELSE 0
        /\ \A i \in 1 .. e - b : SubSeq(d, b + 1, e)[i] = d[b + i]
    <3>1. d \in Seq(Byte) /\ b \in Nat /\ e \in Nat /\ e <= Len(d)
      BY <1>2
    <3> QED BY <3>1, PieceIs
  <2> QED BY <1>2, <1>3, <2>1
<1>5. /\ w \o new \in Seq(Byte)
      /\ Len(w \o new) = Len(w) + n
      /\ \A i \in 1 .. Len(w) + n :
           (w \o new)[i] = IF i <= Len(w) THEN w[i] ELSE new[i - Len(w)]
  BY <1>4, ConcatProperties
<1>6. ASSUME NEW i \in 1 .. b + n
      PROVE  d[i] = (w \o new)[Len(w) - b + i]
  <2> DEFINE k == Len(w) - b + i
  <2>1. k \in 1 .. Len(w) + n
    BY <1>1
  <2>2. CASE i <= b
    <3>1. k <= Len(w) /\ i \in 1 .. b
      BY <1>1, <2>2
    <3> QED BY <1>5, <2>1, <3>1
  <2>3. CASE ~(i <= b)
    <3>1. ~(k <= Len(w)) /\ i - b \in 1 .. n /\ k - Len(w) = i - b /\ b + (i - b) = i
      BY <1>1, <2>3
    <3> HIDE DEF k
    <3>2. (w \o new)[k] = new[i - b]
      BY <1>5, <2>1, <3>1
    <3>3. new[i - b] = d[i]
      BY <1>4, <3>1
    <3> QED BY <3>2, <3>3 DEF k
  <2> QED BY <2>2, <2>3
<1> QED BY <1>4, <1>5, <1>6 DEF new, CallAppended

\* What a step of write() adds to the file it counts: the beginning of the call stays
\* where it is.
Adds(new) ==
    /\ written' = written \o new /\ bytes' = bytes + Len(new)
    /\ Tell' - bytes' = Tell - bytes

LEMMA CopyInInv ==
    ASSUME IInv, CopyIn
    PROVE  IInv' /\ \E new \in Seq(Byte) : Adds(new)
<1> USE DEF IInv, CopyIn, diskVars
<1>1. mode = "write" /\ ~failed /\ call # "done" /\ call # "none"
  BY DEF CallInMode, Reads, Writes
<1> DEFINE n == Least(Left, Available)
           new == SubSeq(data, bytes + 1, bytes + n)
<1>2. n \in Nat /\ n <= Left /\ n <= Available
  <2>1. Left \in Nat
    BY SMTT(30) DEF TypeOK, Left
  <2> QED BY <2>1, Indices, LeastIs
<1>3. /\ buffer' = [i \in 1 .. BufferSize |->
                       IF i \in bufferIndex + 1 .. bufferIndex + n
                       THEN new[i - bufferIndex] ELSE buffer[i]]
      /\ written' = Overwritten(written, Tell, new)
      /\ bufferIndex' = bufferIndex + n
      /\ bytes' = bytes + n
      /\ call \in Writes /\ bytes < size /\ bufferIndex < bufferEnd
      /\ UNCHANGED <<mode, disk, head, fileIndex, bufferEnd, call, size, data, failed, answer>>
  OBVIOUS
<1> HIDE DEF n, CopyIn
<1>4. /\ bufferEnd = BufferSize /\ head = fileIndex /\ fileIndex = Len(disk)
      /\ written = disk \o SubSeq(buffer, 1, bufferIndex)
      /\ Len(data) = size
      /\ \A i \in 1 .. bytes : data[i] = written[Tell - bytes + i]
  BY <1>1 DEF WriteInStep
<1>5. Len(written) = Tell
  <2>1. bufferIndex \in 0 .. bufferIndex
    BY Indices
  <2> QED BY <1>1, <2>1, FlushedIs
<1>6. /\ Tell \in Nat /\ bytes \in Nat /\ size \in Nat /\ bufferIndex \in Nat
      /\ fileIndex \in Nat /\ bytes <= Tell /\ bytes + n <= size
      /\ bufferIndex + n <= BufferSize /\ Tell = fileIndex + bufferIndex
      /\ BufferSize \in Nat
  BY <1>1, <1>2, <1>4, Indices DEF TypeOK, CallInMode, Left, Available, Tell
<1>7. /\ new \in Seq(Byte) /\ Len(new) = n
      /\ written \o new \in Seq(Byte) /\ Len(written \o new) = Tell + n
      /\ \A i \in 1 .. bytes + n : data[i] = (written \o new)[Tell - bytes + i]
  <2>1. written \in Seq(Byte) /\ data \in Seq(Byte)
    BY DEF TypeOK
  <2>2. /\ n \in Nat /\ bytes \in Nat /\ bytes <= Len(written) /\ bytes + n <= Len(data)
        /\ \A i \in 1 .. bytes : data[i] = written[Len(written) - bytes + i]
    BY <1>2, <1>4, <1>5, <1>6
  <2>3. /\ new \in Seq(Byte) /\ Len(new) = n
        /\ written \o new \in Seq(Byte) /\ Len(written \o new) = Len(written) + n
        /\ \A i \in 1 .. bytes + n : data[i] = (written \o new)[Len(written) - bytes + i]
    <3>1. CallFits(written, data, bytes, n)
      BY <2>1, <2>2 DEF CallFits
    <3>2. CallAppended(written, data, bytes, n)
      BY <3>1, CallAppends
    <3> QED BY <3>2 DEF CallAppended
  <2> QED BY <1>5, <2>3
<1>8. written' = written \o new
  <2>1. written \in Seq(Byte)
    BY DEF TypeOK
  <2> QED BY <1>3, <1>5, <1>7, <2>1, AppendedIs
<1> HIDE DEF new
<1>9. buffer' \in Buffer
  <2>1. \A j \in 1 .. n : new[j] \in Byte
    BY <1>7, ElementOfSeq
  <2>2. \A i \in bufferIndex + 1 .. bufferIndex + n : i - bufferIndex \in 1 .. n
    BY <1>2, <1>6
  <2>3. \A i \in bufferIndex + 1 .. bufferIndex + n : new[i - bufferIndex] \in Byte
    BY <2>1, <2>2
  <2> QED BY <1>3, <2>3 DEF TypeOK, Buffer
<1>10. SubSeq(buffer', 1, bufferIndex + n) = SubSeq(buffer, 1, bufferIndex) \o new
  <2>1. \A j \in 1 .. bufferIndex : buffer'[j] = buffer[j]
    BY <1>2, <1>3, <1>6
  <2>2. \A j \in 1 .. n : buffer'[bufferIndex + j] = new[j]
    <3> SUFFICES ASSUME NEW j \in 1 .. n
                 PROVE  buffer'[bufferIndex + j] = new[j]
      OBVIOUS
    <3>1. bufferIndex + j \in 1 .. BufferSize
          /\ bufferIndex + j \in bufferIndex + 1 .. bufferIndex + n
          /\ (bufferIndex + j) - bufferIndex = j
      BY <1>2, <1>6
    <3> QED BY <1>3, <3>1
  <2>3. buffer \in Buffer
    BY DEF TypeOK
  <2> QED BY ZenonT(60), <1>6, <1>7, <1>9, <2>1, <2>2, <2>3, BufferGrows
<1>11. Tell' = Tell + n /\ Tell' - bytes' = Tell - bytes
  BY <1>2, <1>3, <1>6 DEF Tell
<1>12. TypeOK'
  <2>1. bufferIndex' \in 0 .. bufferEnd' /\ bytes' \in Nat
    BY SMTT(30), <1>2, <1>3, <1>4, <1>6
  <2> QED BY <1>3, <1>7, <1>8, <1>9, <2>1 DEF TypeOK
<1>13. CallInMode'
  BY <1>1, <1>2, <1>3, <1>6, <1>11 DEF CallInMode
<1>14. WriteInStep'
  <2>1. written' = disk' \o SubSeq(buffer', 1, bufferIndex')
    <3>1. /\ disk \in Seq(Byte)
          /\ SubSeq(buffer, 1, bufferIndex) \in Seq(Byte)
      BY SMTT(30), <1>4, <1>6, BufferIsASeq, PieceIs, 0 + 1 = 1 DEF TypeOK
    <3> DEFINE held == SubSeq(buffer, 1, bufferIndex)
    <3> HIDE DEF held
    <3>2. (disk \o held) \o new = disk \o (held \o new)
      <4>1. disk \in Seq(Byte) /\ held \in Seq(Byte) /\ new \in Seq(Byte)
        BY <1>7, <3>1 DEF held
      <4> QED BY <4>1, Associative, Zenon
    <3>3. written' = (disk \o held) \o new
      BY <1>4, <1>8 DEF held
    <3>4. SubSeq(buffer', 1, bufferIndex') = held \o new
      BY <1>3, <1>10 DEF held
    <3> QED BY <1>3, <3>2, <3>3, <3>4
  <2>2. \A i \in 1 .. bytes' : data'[i] = written'[Tell' - bytes' + i]
    BY <1>3, <1>7, <1>8, <1>11
  <2> QED BY <1>1, <1>3, <1>4, <2>1, <2>2 DEF WriteInStep
<1>15. ReadInStep' /\ ClosedInStep'
  BY <1>1, <1>3 DEF ReadInStep, ClosedInStep
<1>16. Adds(new)
  BY <1>3, <1>7, <1>8, <1>11 DEF Adds
<1> QED BY <1>7, <1>12, <1>13, <1>14, <1>15, <1>16

LEMMA AcceptedIs ==
    ASSUME NEW n \in Nat, NEW m \in Accepted(n)
    PROVE  m \in 0 .. n
BY DEF Accepted

\* The buffer that was just flushed holds nothing that is not in the file.
LEMMA NothingBuffered ==
    ASSUME NEW f \in Seq(Byte), NEW b
    PROVE  f \o SubSeq(b, 1, 0) = f
<1>1. SubSeq(b, 1, 0) = <<>>
  BY SubSeqEmpty
<1> QED BY <1>1, ConcatEmptySeq

LEMMA FlushFullInv ==
    ASSUME IInv, NEW m \in Accepted(bufferIndex), FlushFull(m)
    PROVE  IInv' /\ (failed' = TRUE \/ (failed' = FALSE /\ Tell' = Tell))
<1> USE DEF IInv, FlushFull
<1>1. mode = "write" /\ ~failed /\ m \in 0 .. bufferIndex
  BY Indices, AcceptedIs DEF CallInMode, Reads, Writes
<1>2. /\ Flushed(m) \in Seq(Byte) /\ Len(Flushed(m)) = head + m
      /\ m = bufferIndex => Flushed(m) = written
      /\ Len(written) = Tell
  BY <1>1, FlushedIs
<1>3. /\ bufferEnd = BufferSize /\ head = fileIndex /\ fileIndex = Len(disk)
      /\ Len(data) = size
      /\ \A i \in 1 .. bytes : data[i] = written[Tell - bytes + i]
  BY <1>1 DEF WriteInStep
<1>4. /\ m \in Nat /\ bufferIndex \in Nat /\ fileIndex \in Nat /\ head \in Nat
      /\ bytes \in Nat /\ BufferSize \in Nat
  BY <1>1, Indices DEF TypeOK
<1>5. m = bufferIndex \/ m < bufferIndex
  BY <1>1, <1>4
<1>6. TypeOK'
  <2>1. head' \in Nat /\ fileIndex' \in Nat /\ failed' \in BOOLEAN
        /\ bufferIndex' \in 0 .. bufferEnd'
    BY <1>3, <1>4
  <2> QED BY <1>2, <2>1 DEF TypeOK
<1>7. m = bufferIndex => Tell' = Tell
  BY <1>4 DEF Tell
<1>8. CallInMode'
  BY <1>1, <1>4, <1>5, <1>7 DEF CallInMode, Reads, Writes
<1>9. WriteInStep'
  <2>1. CASE m = bufferIndex
    <3>1. written' = disk' \o SubSeq(buffer', 1, bufferIndex')
      BY <1>2, <2>1, NothingBuffered
    <3>2. ~failed' /\ call' = "write"
      <4>1. ~(m < bufferIndex)
        BY <1>4, <2>1
      <4> QED BY <4>1, Zenon
    <3>3. head' = fileIndex' /\ fileIndex' = Len(disk')
      BY <1>2, <1>3
    <3>4. \A i \in 1 .. bytes' : data'[i] = written'[Tell' - bytes' + i]
      BY <1>3, <1>7, <2>1
    <3> QED BY <1>3, <3>1, <3>2, <3>3, <3>4 DEF WriteInStep
  <2>2. CASE m < bufferIndex
    BY <1>3, <2>2 DEF WriteInStep
  <2> QED BY <1>5, <2>1, <2>2
<1>10. ReadInStep' /\ ClosedInStep'
  BY <1>1 DEF ReadInStep, ClosedInStep
<1>11. failed' = TRUE \/ (failed' = FALSE /\ Tell' = Tell)
  <2>1. (m < bufferIndex) = TRUE \/ ((m < bufferIndex) = FALSE /\ m = bufferIndex)
    BY <1>4, <1>5
  <2> QED BY <1>7, <2>1, Zenon
<1> QED BY <1>6, <1>8, <1>9, <1>10, <1>11

LEMMA WriteRestInv ==
    ASSUME IInv, NEW m \in Accepted(bufferIndex), WriteRest(m)
    PROVE  IInv' /\ (failed' = TRUE \/ \E new \in Seq(Byte) : Adds(new))
<1> USE DEF IInv
<1>1. /\ mode = "write" /\ ~failed /\ m \in 0 .. bufferIndex
      /\ call = "write_unbuf" /\ bytes < size /\ bufferIndex = bufferEnd
      /\ bufferIndex' = 0 /\ call' = "done"
      /\ UNCHANGED <<mode, buffer, bufferEnd, size, data, answer>>
  BY Indices, AcceptedIs DEF CallInMode, Reads, Writes, WriteRest
<1>2. /\ Flushed(m) \in Seq(Byte) /\ Len(Flushed(m)) = head + m
      /\ m = bufferIndex => Flushed(m) = written
      /\ Len(written) = Tell
  BY <1>1, FlushedIs
<1>3. /\ bufferEnd = BufferSize /\ head = fileIndex /\ fileIndex = Len(disk)
      /\ Len(data) = size
      /\ \A i \in 1 .. bytes : data[i] = written[Tell - bytes + i]
      /\ bytes <= size /\ bytes <= Tell
  BY <1>1 DEF WriteInStep, CallInMode
<1>4. /\ m \in Nat /\ bufferIndex \in Nat /\ fileIndex \in Nat /\ head \in Nat
      /\ bytes \in Nat /\ BufferSize \in Nat /\ Left \in Nat /\ Tell \in Nat /\ size \in Nat
      /\ written \in Seq(Byte) /\ data \in Seq(Byte)
  BY <1>1, <1>3, Indices DEF TypeOK, Left
<1>5. ReadInStep' /\ ClosedInStep'
  BY <1>1 DEF ReadInStep, ClosedInStep
<1>6. CASE /\ m < bufferIndex
           /\ failed' = TRUE
           /\ disk' = Flushed(m)
           /\ head' = head + m
           /\ fileIndex' = fileIndex + m
           /\ UNCHANGED <<bytes, written>>
  <2>1. TypeOK'
    <3>1. head' \in Nat /\ fileIndex' \in Nat /\ bufferIndex' \in 0 .. bufferEnd'
      BY <1>1, <1>3, <1>4, <1>6
    <3> QED BY <1>1, <1>2, <1>6, <3>1 DEF TypeOK
  <2>2. CallInMode'
    BY <1>1, <1>3, <1>6 DEF CallInMode, Reads, Writes
  <2>3. WriteInStep'
    BY <1>1, <1>3, <1>6 DEF WriteInStep
  <2> QED BY <1>5, <1>6, <2>1, <2>2, <2>3
<1>7. ASSUME NEW n \in Accepted(Left),
             LET new == SubSeq(data, bytes + 1, bytes + n)
             IN  /\ m = bufferIndex
                 /\ failed' = (n < Left)
                 /\ disk' = Overwritten(Flushed(m), head + m, new)
                 /\ head' = head + m + n
                 /\ fileIndex' = fileIndex + m + n
                 /\ bytes' = bytes + n
                 /\ written' = Overwritten(written, Tell, new)
      PROVE  IInv' /\ \E new \in Seq(Byte) : Adds(new)
  <2> DEFINE new == SubSeq(data, bytes + 1, bytes + n)
  <2>1. n \in 0 .. Left
    BY <1>4, AcceptedIs
  <2>2. n \in Nat /\ n <= Left /\ bytes + n <= size /\ bytes + n \in Nat
    BY <1>4, <2>1 DEF Left
  <2>3. /\ new \in Seq(Byte) /\ Len(new) = n
        /\ written \o new \in Seq(Byte) /\ Len(written \o new) = Len(written) + n
        /\ \A i \in 1 .. bytes + n : data[i] = (written \o new)[Len(written) - bytes + i]
    <3>1. \A i \in 1 .. bytes : data[i] = written[Len(written) - bytes + i]
      BY <1>2, <1>3
    <3>2. bytes <= Len(written) /\ bytes + n <= Len(data)
      BY <1>2, <1>3, <2>2
    <3>3. CallFits(written, data, bytes, n)
      BY <1>4, <2>2, <3>1, <3>2 DEF CallFits
    <3>4. CallAppended(written, data, bytes, n)
      BY <3>3, CallAppends
    <3> QED BY <3>4 DEF CallAppended
  <2>4. /\ m = bufferIndex
        /\ failed' = (n < Left)
        /\ disk' = Overwritten(Flushed(m), head + m, new)
        /\ head' = head + m + n
        /\ fileIndex' = fileIndex + m + n
        /\ bytes' = bytes + n
        /\ written' = Overwritten(written, Tell, new)
    BY <1>7
  <2> HIDE DEF new
  <2>5. /\ Flushed(m) = written /\ head + m = Len(written) /\ Tell = Len(written)
    BY <1>2, <2>4
  <2>6. disk' = written \o new /\ written' = written \o new
    BY <1>4, <2>3, <2>4, <2>5, AppendedIs
  <2>7. /\ Tell' = Tell + n /\ Tell' - bytes' = Tell - bytes
        /\ head' = fileIndex' /\ fileIndex' = Len(disk')
    <3>1. Tell = fileIndex + bufferIndex /\ Tell' = fileIndex' + 0
      BY <1>1 DEF Tell
    <3>2. Len(disk') = Len(written) + n
      BY <2>3, <2>6
    <3>3. head' = Tell + n /\ fileIndex' = Tell + n
      BY <1>3, <1>4, <2>2, <2>4, <2>5
    <3>4. Tell' = Tell + n
      BY <1>4, <2>2, <3>1, <3>3
    <3>5. Tell' - bytes' = Tell - bytes
      BY <1>4, <2>2, <2>4, <3>4
    <3> QED BY <2>5, <3>2, <3>3, <3>4, <3>5
  <2>8. TypeOK'
    <3>1. head' \in Nat /\ fileIndex' \in Nat /\ bufferIndex' \in 0 .. bufferEnd'
      BY <1>1, <1>3, <1>4, <2>2, <2>4
    <3>2. failed' \in BOOLEAN
      BY <2>4
    <3> QED BY <1>1, <2>2, <2>3, <2>4, <2>6, <3>1, <3>2 DEF TypeOK
  <2>9. CallInMode'
    <3>1. bytes' <= size' /\ bytes' <= Tell'
      BY <1>1, <1>3, <1>4, <2>2, <2>4, <2>7
    <3> QED BY <1>1, <3>1 DEF CallInMode, Reads, Writes
  <2>10. WriteInStep'
    <3>1. written' = disk' \o SubSeq(buffer', 1, bufferIndex')
      BY <1>1, <2>3, <2>6, NothingBuffered
    <3>2. \A i \in 1 .. bytes' : data'[i] = written'[Tell' - bytes' + i]
      BY ZenonT(60), <1>1, <2>3, <2>4, <2>5, <2>6, <2>7
    <3>3. ~failed' => bytes' = size'
      <4>1. ~(n < Left) => bytes' = size'
        BY <1>1, <1>4, <2>2, <2>4 DEF Left
      <4> QED BY <2>4, <4>1, Zenon
    <3> QED BY <1>1, <1>3, <2>7, <3>1, <3>2, <3>3 DEF WriteInStep
  <2>11. Adds(new)
    BY <2>3, <2>4, <2>6, <2>7 DEF Adds
  <2> QED BY <1>5, <2>3, <2>8, <2>9, <2>10, <2>11
<1> QED BY <1>6, <1>7 DEF WriteRest

-----------------------------------------------------------------------------
(* The invariant: seeking and closing. *)

LEMMA SeekNearInv ==
    ASSUME ~WriteSeeks, IInv, NEW target \in Nat, SeekNear(target)
    PROVE  IInv'
<1> USE DEF IInv, SeekNear, diskVars, callVars
<1>1. mode = "read" /\ ~failed /\ call = "none"
  BY DEF MaySeek, Idle
<1>2. bufferIndex' \in 0 .. bufferEnd
  BY Indices DEF TypeOK
<1>3. TypeOK'
  BY <1>2 DEF TypeOK
<1>4. CallInMode' /\ ReadInStep'
  BY <1>1 DEF CallInMode, ReadInStep, Reads, Writes
<1>5. WriteInStep' /\ ClosedInStep'
  BY <1>1 DEF WriteInStep, ClosedInStep
<1> QED BY <1>3, <1>4, <1>5

LEMMA SeekFarInv ==
    ASSUME ~WriteSeeks, IInv, NEW target \in Nat, SeekFar(target)
    PROVE  IInv'
<1> USE DEF IInv
<1>1. /\ mode = "read" /\ ~failed /\ call = "none"
      /\ bufferEnd' = 0 /\ bufferIndex' = 0
      /\ head' = head + 0 + target - (fileIndex + bufferEnd)
      /\ fileIndex' = head'
      /\ UNCHANGED <<mode, disk, buffer, call, size, bytes, data, written, failed, answer>>
  BY DEF SeekFar, EmptyBuffer, MaySeek, Idle, callVars
<1>2. head = fileIndex + bufferEnd /\ disk = written
  BY <1>1 DEF ReadInStep
<1>3. head' = target
  BY <1>1, <1>2, Indices DEF TypeOK
<1>4. TypeOK'
  <2>1. bufferEnd' \in 0 .. BufferSize /\ bufferIndex' \in 0 .. bufferEnd'
    BY <1>1, Indices
  <2> QED BY <1>1, <1>3, <2>1 DEF TypeOK
<1>5. CallInMode'
  BY <1>1 DEF CallInMode, Reads, Writes
<1>6. ReadInStep'
  <2>1. 1 .. bufferEnd' = {} /\ head' = fileIndex' + bufferEnd'
    BY <1>1, <1>3
  <2> QED BY <1>1, <1>2, <2>1 DEF ReadInStep
<1>7. WriteInStep' /\ ClosedInStep'
  BY <1>1 DEF WriteInStep, ClosedInStep
<1> QED BY <1>4, <1>5, <1>6, <1>7

LEMMA SeekFromEndInv ==
    ASSUME ~WriteSeeks, IInv, NEW offset \in Nat, SeekFromEnd(offset)
    PROVE  IInv'
<1> USE DEF IInv
<1>1. /\ mode = "read" /\ ~failed /\ call = "none"
      /\ bufferEnd' = 0 /\ bufferIndex' = 0
      /\ UNCHANGED <<mode, disk, buffer, call, size, bytes, data, written, answer>>
      /\ \/ offset <= Len(disk) /\ head' = Len(disk) - offset /\ fileIndex' = head'
            /\ failed' = failed
         \/ head' = head + 0 /\ fileIndex' = fileIndex + 0 /\ failed' = TRUE
  BY DEF SeekFromEnd, EmptyBuffer, MaySeek, Idle, callVars
<1>2. disk = written
  BY <1>1 DEF ReadInStep
<1>3. head' \in Nat /\ fileIndex' \in Nat /\ failed' \in BOOLEAN
      /\ (~failed' => head' = fileIndex')
  <2>1. CASE offset <= Len(disk) /\ head' = Len(disk) - offset /\ fileIndex' = head'
             /\ failed' = failed
    <3>1. head' \in Nat
      BY <2>1, Indices
    <3>2. failed' \in BOOLEAN
      BY <2>1 DEF TypeOK
    <3> QED BY <2>1, <3>1, <3>2
  <2>2. CASE head' = head + 0 /\ fileIndex' = fileIndex + 0 /\ failed' = TRUE
    <3>1. head' \in Nat /\ fileIndex' \in Nat
      BY <2>2 DEF TypeOK
    <3> QED BY <2>2, <3>1
  <2> QED BY <1>1, <2>1, <2>2
<1>4. TypeOK'
  <2>1. bufferEnd' \in 0 .. BufferSize /\ bufferIndex' \in 0 .. bufferEnd'
    BY <1>1, Indices
  <2> QED BY <1>1, <1>3, <2>1 DEF TypeOK
<1>5. CallInMode'
  BY <1>1 DEF CallInMode, Reads, Writes
<1>6. ReadInStep'
  <2>1. 1 .. bufferEnd' = {}
    BY <1>1
  <2>2. fileIndex' + bufferEnd' = fileIndex'
    <3>1. fileIndex' \in Nat
      BY <1>3, Zenon
    <3>2. \A k \in Nat : k + 0 = k
      OBVIOUS
    <3> QED BY <1>1, <3>1, <3>2, Zenon
  <2> QED BY <1>1, <1>2, <1>3, <2>1, <2>2 DEF ReadInStep
<1>7. WriteInStep' /\ ClosedInStep'
  BY <1>1 DEF WriteInStep, ClosedInStep
<1> QED BY <1>4, <1>5, <1>6, <1>7

\* What is closed without an error is complete; what is not, is as it is.
LEMMA CloseInv ==
    ASSUME IInv, NEW m \in Accepted(bufferIndex), NEW closes \in BOOLEAN, Close(m, closes)
    PROVE  IInv' /\ (~failed' => written' = written)
<1> USE DEF IInv, Close, callVars
<1>1. m \in 0 .. bufferIndex /\ failed \in BOOLEAN
  BY Indices, AcceptedIs DEF TypeOK
<1>2. disk' \in Seq(Byte) /\ written' \in Seq(Byte)
  <2>1. disk' \in Seq(Byte)
    <3>1. disk \in Seq(Byte) /\ (mode = "write" => Flushed(m) \in Seq(Byte))
      BY <1>1, FlushedIs DEF TypeOK
    <3>2. \A n \in 0 .. Len(Flushed(m)) :
            Flushed(m) \in Seq(Byte) => SubSeq(Flushed(m), 1, n) \in Seq(Byte)
      OBVIOUS
    <3> QED BY <3>1, <3>2
  <2> QED BY <2>1 DEF TypeOK
<1>3. disk' = written'
  <2>1. CASE failed'
    BY <2>1
  <2>2. CASE ~failed' /\ mode = "write"
    <3>1. ~failed /\ ~(m < bufferIndex)
      BY <2>2 DEF FlushFailed
    <3>2. m = bufferIndex
      BY <1>1, <3>1, Indices
    <3>3. Flushed(m) = written
      BY <1>1, <2>2, <3>1, <3>2, FlushedIs
    <3> QED BY <2>2, <3>3
  <2>3. CASE ~failed' /\ mode # "write"
    <3>1. mode = "read"
      BY <2>3 DEF TypeOK
    <3> QED BY <2>3, <3>1 DEF ReadInStep
  <2> QED BY <2>1, <2>2, <2>3
<1>4. TypeOK'
  <2>1. bufferEnd' \in 0 .. BufferSize /\ bufferIndex' \in 0 .. bufferEnd'
    BY Indices
  <2>2. failed' \in BOOLEAN
    BY DEF FlushFailed
  <2> QED BY <1>2, <2>1, <2>2 DEF TypeOK
<1>5. CallInMode' /\ ReadInStep' /\ WriteInStep'
  BY DEF CallInMode, ReadInStep, WriteInStep, Reads, Writes
<1>6. ClosedInStep'
  BY <1>3 DEF ClosedInStep
<1> QED BY <1>4, <1>5, <1>6

-----------------------------------------------------------------------------
(* The theorems of the invariant. *)

LEMMA NextInv ==
    ASSUME ~WriteSeeks, IInv, [Next]_vars
    PROVE  IInv'
<1>1. CASE UNCHANGED vars
  <2>1. UNCHANGED <<mode, disk, head, fileIndex, buffer, bufferEnd, bufferIndex, call, size,
                    bytes, data, written, failed, answer>>
    BY <1>1 DEF vars, diskVars, bufferVars, callVars
  <2> QED BY <2>1 DEF IInv, TypeOK, CallInMode, ReadInStep, WriteInStep, ClosedInStep, Tell
<1>2. ASSUME NEW m \in {"read", "write"}, Open(m)
      PROVE  IInv'
  BY <1>2, OpenInv
<1>3. ASSUME NEW c \in Reads, NEW n \in 0 .. MaxCount, CallRead(c, n)
      PROVE  IInv'
  BY <1>3, CallReadInv
<1>4. ASSUME NEW c \in Writes, NEW n \in 0 .. MaxCount, NEW d \in [1 .. n -> Byte],
             CallWrite(c, d)
      PROVE  IInv'
  BY <1>4, CallWriteInv
<1>5. CASE LoopStep
  BY <1>5, CopyOutInv, FillBufferInv, ReadRestInv, CopyInInv, FlushFullInv, WriteRestInv,
     ReturnInv DEF LoopStep
<1>6. ASSUME NEW target \in 0 .. MaxSize, SeekNear(target) \/ SeekFar(target)
      PROVE  IInv'
  BY <1>6, SeekNearInv, SeekFarInv, FileAssumption
<1>7. ASSUME NEW offset \in 0 .. MaxSize, SeekFromEnd(offset)
      PROVE  IInv'
  BY <1>7, SeekFromEndInv, FileAssumption
<1>8. ASSUME NEW m \in Accepted(bufferIndex), NEW closes \in BOOLEAN, Close(m, closes)
      PROVE  IInv'
  BY <1>8, CloseInv
<1> QED BY <1>1, <1>2, <1>3, <1>4, <1>5, <1>6, <1>7, <1>8 DEF Next

\* The buffer and the FILE stay in step through all calls, short writes and seeks, as
\* long as nobody seeks while writing.
THEOREM Invariance == ASSUME ~WriteSeeks PROVE Spec => []IInv
<1>1. Init => IInv
  BY InitInv
<1>2. IInv /\ [Next]_vars => IInv'
  BY NextInv
<1> QED BY <1>1, <1>2, PTL DEF Spec

\* All variables keep their types; the index never leaves the buffer.
THEOREM TypeCorrect == ASSUME ~WriteSeeks PROVE Spec => []TypeOK
<1>1. IInv => TypeOK
  BY DEF IInv
<1> QED BY <1>1, Invariance, PTL

\* A file that was closed without an error holds what was written to it.
THEOREM CompleteWhenClosed == ASSUME ~WriteSeeks PROVE Spec => []ClosedFileComplete
<1>1. IInv => ClosedFileComplete
  BY DEF IInv, ClosedInStep, ClosedFileComplete
<1> QED BY <1>1, Invariance, PTL

\* While reading, a seek within or past the buffer arrives at its target: the FILE is where
\* seek() assumes it, behind the buffer.  (While writing it is not, see file_seek.)
THEOREM ReadSeeksArrive == ASSUME ~WriteSeeks PROVE Spec => SeekArrives
<1>1. ASSUME IInv, [Next]_vars
      PROVE  [\A target \in 0 .. MaxSize :
                 SeekNear(target) \/ SeekFar(target) => Tell' = target]_vars
  <2>. SUFFICES ASSUME NEW target \in 0 .. MaxSize, SeekNear(target) \/ SeekFar(target)
                PROVE  Tell' = target
    OBVIOUS
  <2>1. mode = "read" /\ ~failed
    BY DEF SeekNear, SeekFar, MaySeek, Idle
  <2>2. /\ head = fileIndex + bufferEnd
        /\ fileIndex \in Nat /\ bufferEnd \in Nat /\ target \in Nat
    BY <1>1, <2>1, FileAssumption DEF IInv, ReadInStep, TypeOK
  <2>3. CASE SeekNear(target)
    BY <2>2, <2>3 DEF SeekNear, Tell
  <2>4. CASE SeekFar(target)
    <3>1. PICK m \in 0 .. bufferIndex :
            EmptyBuffer(m) /\ head' = head + m + target - (fileIndex + bufferEnd)
      BY <2>1, <2>4 DEF SeekFar
    <3>2. m = 0
      BY <2>1, <3>1 DEF EmptyBuffer
    <3>3. head' = target
      BY <2>2, <3>1, <3>2
    <3>4. fileIndex' = head' /\ bufferIndex' = 0
      BY <2>4 DEF SeekFar
    <3>. QED  BY <2>2, <3>3, <3>4 DEF Tell
  <2>. QED  BY <2>3, <2>4
<1>. QED  BY <1>1, Invariance, PTL DEF Spec, SeekArrives

-----------------------------------------------------------------------------
(* The file as its caller sees it. *)

ContentsNow ==
    IF mode = "write" /\ call # "none"
    THEN SubSeq(written, 1, Len(written) - bytes) ELSE written

PlaceNow == IF call # "none" THEN Tell - bytes ELSE Tell

PromisedStep == [Contract!FileNext]_<<mode, ContentsNow, PlaceNow, answer, failed>>

LEMMA StutterIs ==
    ASSUME UNCHANGED <<mode, answer, failed>>, ContentsNow' = ContentsNow, PlaceNow' = PlaceNow
    PROVE  PromisedStep
BY DEF PromisedStep

\* What is at the beginning of a file stays there when more is appended.
LEMMA BeginningStays ==
    ASSUME NEW w \in Seq(Byte), NEW d \in Seq(Byte), NEW b \in Nat, b <= Len(w)
    PROVE  SubSeq(w \o d, 1, Len(w \o d) - (b + Len(d))) = SubSeq(w, 1, Len(w) - b)
<1>1. Len(w) \in Nat /\ Len(d) \in Nat
  BY LenProperties
<1>2. /\ w \o d \in Seq(Byte) /\ Len(w \o d) = Len(w) + Len(d)
      /\ \A i \in 1 .. Len(w) + Len(d) : (w \o d)[i] = IF i <= Len(w) THEN w[i] ELSE d[i - Len(w)]
  BY ConcatProperties
<1> DEFINE e == Len(w) - b
<1>3. e \in Nat /\ e <= Len(w) /\ e <= Len(w \o d) /\ Len(w \o d) - (b + Len(d)) = e
  BY <1>1, <1>2
<1> HIDE DEF e
<1>4. /\ SubSeq(w, 1, e) \in Seq(Byte) /\ Len(SubSeq(w, 1, e)) = e
      /\ \A i \in 1 .. e : SubSeq(w, 1, e)[i] = w[i]
  BY <1>3, PieceIs, 0 + 1 = 1
<1>5. /\ SubSeq(w \o d, 1, e) \in Seq(Byte) /\ Len(SubSeq(w \o d, 1, e)) = e
      /\ \A i \in 1 .. e : SubSeq(w \o d, 1, e)[i] = (w \o d)[i]
  BY <1>2, <1>3, PieceIs, 0 + 1 = 1
<1>6. \A i \in 1 .. e : (w \o d)[i] = w[i]
  BY <1>1, <1>2, <1>3
<1>7. SubSeq(w \o d, 1, e) = SubSeq(w, 1, e)
  BY <1>4, <1>5, <1>6, SeqEqual
<1> QED BY <1>3, <1>7 DEF e

LEMMA InitRefines == ASSUME Init PROVE Contract!FileInit
BY DEF Init, Contract!FileInit, Tell

LEMMA OpenRefines ==
    ASSUME IInv, NEW m \in {"read", "write"}, Open(m)
    PROVE  PromisedStep
<1>1. call = "none" /\ call' = "none"
  BY DEF Open, callVars, IInv, ClosedInStep
<1>2. ContentsNow = written /\ ContentsNow' = written' /\ PlaceNow' = 0
  BY <1>1 DEF ContentsNow, PlaceNow, Tell, Open
<1>3. Contract!Open
  BY <1>1, <1>2 DEF Open, Contract!Open, ContentsNow, PlaceNow
<1> QED BY <1>3 DEF PromisedStep, Contract!FileNext

LEMMA CallRefines ==
    ASSUME IInv, NEW c \in Reads \cup Writes, NEW n \in Nat, NEW d, Call(c, n, d)
    PROVE  PromisedStep
<1>1. /\ call = "none" /\ call' # "none" /\ bytes' = 0
      /\ UNCHANGED <<mode, fileIndex, bufferIndex, written, failed, answer>>
  BY DEF Call, Idle, bufferVars, Reads, Writes
<1>2. Len(written) \in Nat /\ Tell \in Nat /\ written \in Seq(Byte)
  BY Indices DEF IInv, TypeOK
<1>3. PlaceNow' = PlaceNow
  BY <1>1, <1>2 DEF PlaceNow, Tell
<1>4. Len(written) - 0 = Len(written)
  BY <1>2
<1>5. ContentsNow' = ContentsNow
  BY <1>1, <1>2, <1>4, SubSeqFull DEF ContentsNow
<1> QED BY <1>1, <1>3, <1>5, StutterIs

\* A step of a call that is not over and met no error is not seen.
LEMMA ReadStepRefines ==
    ASSUME IInv, IInv', mode = "read", mode' = mode, call # "none", call' # "none",
           UNCHANGED <<written, answer, failed>>, Tell' - bytes' = Tell - bytes
    PROVE  PromisedStep
<1>1. PlaceNow' = PlaceNow /\ ContentsNow' = ContentsNow
  BY DEF PlaceNow, ContentsNow
<1> QED BY <1>1, StutterIs

LEMMA AddsRefines ==
    ASSUME IInv, mode = "write", mode' = mode, call # "none", call' # "none", ~failed,
           UNCHANGED <<answer, failed>>, NEW new \in Seq(Byte), Adds(new)
    PROVE  PromisedStep
<1>1. PlaceNow' = PlaceNow
  BY DEF PlaceNow, Adds
<1>2. /\ written \in Seq(Byte) /\ bytes \in Nat /\ bytes <= Len(written)
  <2>1. bufferIndex \in 0 .. bufferIndex
    BY Indices DEF IInv
  <2>2. Len(written) = Tell
    BY <2>1, FlushedIs
  <2> QED BY <2>2 DEF IInv, TypeOK, CallInMode
<1>3. ContentsNow' = ContentsNow
  BY <1>2, BeginningStays DEF ContentsNow, Adds
<1> QED BY <1>1, <1>3, StutterIs

LEMMA FailureRefines ==
    ASSUME mode = "write", mode' = mode, failed' = TRUE
    PROVE  PromisedStep
BY DEF PromisedStep, Contract!FileNext, Contract!Fail

\* The bytes of a call that is over are those of the file at the position where it began.
LEMMA ReadIsRight ==
    ASSUME NEW w \in Seq(Byte), NEW d \in Seq(Byte), NEW p \in Nat, NEW n \in Nat,
           Len(d) <= n,
           \A i \in 1 .. Len(d) : p + i <= Len(w) /\ d[i] = w[p + i],
           Len(d) = n \/ p + Len(d) >= Len(w)
    PROVE  d = SubSeq(w, p + 1, IF p + n < Len(w) THEN p + n ELSE Len(w))
<1> DEFINE e == IF p + n < Len(w) THEN p + n ELSE Len(w)
<1>1. Len(w) \in Nat /\ Len(d) \in Nat
  BY LenProperties
<1>2. e \in Nat /\ e <= Len(w)
  BY <1>1
<1>3. Len(d) > 0 => p + Len(d) <= Len(w)
  <2> SUFFICES ASSUME Len(d) > 0
               PROVE  p + Len(d) <= Len(w)
    OBVIOUS
  <2>1. Len(d) \in 1 .. Len(d)
    BY <1>1
  <2> QED BY <2>1
<1>4. (IF p < e THEN e - p ELSE 0) = Len(d)
  BY <1>1, <1>3
<1> HIDE DEF e
<1>5. /\ SubSeq(w, p + 1, e) \in Seq(Byte)
      /\ Len(SubSeq(w, p + 1, e)) = Len(d)
      /\ \A i \in 1 .. e - p : SubSeq(w, p + 1, e)[i] = w[p + i]
  BY SMTT(30), <1>2, <1>4, PieceIs
<1>6. \A i \in 1 .. Len(d) : i \in 1 .. e - p
  BY <1>1, <1>2, <1>4
<1>7. \A i \in 1 .. Len(d) : d[i] = SubSeq(w, p + 1, e)[i]
  BY <1>5, <1>6
<1>8. d = SubSeq(w, p + 1, e)
  BY <1>5, <1>7, SeqEqual
<1> QED BY <1>8 DEF e

LEMMA ReturnRefines == ASSUME IInv, Return PROVE PromisedStep
<1>1. /\ call # "none" /\ call' = "none" /\ mode # "closed" /\ bytes <= size
      /\ call = "done" \/ bytes = size
      /\ UNCHANGED <<mode, fileIndex, bufferIndex, written, failed>>
      /\ Tell \in Nat /\ bytes \in Nat /\ size \in Nat
      /\ written \in Seq(Byte) /\ data \in Seq(Byte)
  BY Indices DEF Return, IInv, CallInMode, bufferVars, TypeOK
<1>2. PlaceNow = Tell - bytes /\ PlaceNow' = Tell /\ ContentsNow' = written
  BY <1>1 DEF PlaceNow, ContentsNow, Tell
<1>3. CASE failed
  <2>1. mode = "write"
    BY <1>1, <1>3 DEF IInv, CallInMode
  <2>2. failed \in BOOLEAN
    BY DEF IInv, TypeOK
  <2> QED BY <1>1, <1>3, <2>1, <2>2, FailureRefines
<1>4. CASE ~failed
  <2>1. answer' = [asked |-> size, bytes |-> data]
    BY <1>4 DEF Return
  <2>2. bytes <= Tell /\ PlaceNow \in Nat /\ Tell = PlaceNow + bytes
    BY <1>1, <1>2, <1>4 DEF IInv, CallInMode
  <2>3. CASE mode = "read"
    <3>1. ContentsNow = written
      BY <2>3 DEF ContentsNow
    <3>2. /\ Len(data) = bytes
          /\ \A i \in 1 .. bytes : PlaceNow + i <= Len(written) /\ data[i] = written[PlaceNow + i]
          /\ bytes = size \/ Tell >= Len(written)
      BY <1>1, <1>2, <2>3 DEF IInv, ReadInStep
    <3>3. data = Contract!BytesAt(PlaceNow, size)
      <4>1. data = SubSeq(written, PlaceNow + 1,
                          IF PlaceNow + size < Len(written) THEN PlaceNow + size
                                                            ELSE Len(written))
        BY <1>1, <2>2, <3>2, ReadIsRight
      <4> QED BY <3>1, <4>1 DEF Contract!BytesAt, ContentsNow
    <3>4. Contract!Read
      BY <1>1, <1>2, <1>4, <2>1, <2>2, <2>3, <3>1, <3>2, <3>3
         DEF Contract!Read, ContentsNow, PlaceNow
    <3> QED BY <3>4 DEF PromisedStep, Contract!FileNext
  <2>4. CASE mode = "write"
    <3>1. Len(written) = Tell
      <4>1. bufferIndex \in 0 .. bufferIndex
        BY Indices DEF IInv
      <4> QED BY <1>4, <2>4, <4>1, FlushedIs
    <3>2. bytes = size /\ Len(data) = size
          /\ \A i \in 1 .. bytes : data[i] = written[Tell - bytes + i]
      BY <1>1, <1>4, <2>4 DEF IInv, WriteInStep
    <3>3. ContentsNow = SubSeq(written, 1, PlaceNow)
      BY <1>1, <1>2, <2>4, <3>1 DEF ContentsNow
    <3>4. /\ ContentsNow \in Seq(Byte) /\ Len(ContentsNow) = PlaceNow
          /\ \A i \in 1 .. PlaceNow : ContentsNow[i] = written[i]
      <4>1. PlaceNow <= Len(written)
        BY <1>1, <2>2, <3>1
      <4> HIDE DEF ContentsNow
      <4> QED BY SMTT(30), <1>1, <2>2, <3>3, <4>1, PieceIs, 0 + 1 = 1
    <3>5. written = ContentsNow \o data
      <4> DEFINE c == ContentsNow
                 p == PlaceNow
      <4> HIDE DEF c, p
      <4>1. /\ c \o data \in Seq(Byte)
            /\ Len(c \o data) = p + bytes
            /\ \A i \in 1 .. p + bytes :
                 (c \o data)[i] = IF i <= p THEN c[i] ELSE data[i - p]
        <5>1. c \in Seq(Byte) /\ Len(c) = p
          BY <3>4 DEF c, p
        <5>2. data \in Seq(Byte) /\ Len(data) = bytes
          BY <1>1, <3>2
        <5> QED BY <5>1, <5>2, ConcatProperties
      <4>2. ASSUME NEW i \in 1 .. p + bytes
            PROVE  written[i] = (c \o data)[i]
        <5>1. CASE i <= p
          <6>1. i \in 1 .. p
            BY <2>2, <5>1 DEF p
          <6> QED BY <3>4, <4>1, <5>1, <6>1 DEF c, p
        <5>2. CASE ~(i <= p)
          <6>1. i - p \in 1 .. bytes /\ Tell - bytes + (i - p) = i
            BY <1>1, <1>2, <2>2, <5>2 DEF p
          <6> QED BY <3>2, <4>1, <5>2, <6>1
        <5> QED BY <5>1, <5>2
      <4>3. Len(written) = p + bytes
        BY <2>2, <3>1 DEF p
      <4> QED BY <1>1, <4>1, <4>2, <4>3, SeqEqual DEF c
    <3>6. Contract!Write
      BY <1>1, <1>2, <1>4, <2>1, <2>2, <2>4, <3>2, <3>4, <3>5
         DEF Contract!Write, ContentsNow, PlaceNow
    <3> QED BY <3>6 DEF PromisedStep, Contract!FileNext
  <2> QED BY <1>1, <2>3, <2>4 DEF IInv, TypeOK
<1> QED BY <1>3, <1>4

LEMMA LoopRefines == ASSUME IInv, IInv', LoopStep PROVE PromisedStep
<1>1. CASE CopyOut
  <2>1. /\ mode = "read" /\ mode' = mode /\ call # "none" /\ call' # "none"
        /\ UNCHANGED <<written, answer, failed>>
    BY <1>1 DEF CopyOut, IInv, CallInMode, Reads, Writes
  <2>2. Tell' - bytes' = Tell - bytes
    <3> DEFINE n == Least(Left, Available)
    <3>1. fileIndex' = fileIndex /\ bufferIndex' = bufferIndex + n /\ bytes' = bytes + n
      BY <1>1 DEF CopyOut
    <3>2. n \in Nat
      <4>1. Left \in Nat
        BY SMTT(30), <1>1 DEF CopyOut, Left, IInv, TypeOK
      <4> QED BY <4>1, Indices, LeastIs DEF IInv
    <3> HIDE DEF n
    <3> QED BY <3>1, <3>2, Indices DEF Tell, IInv, TypeOK
  <2> QED BY <2>1, <2>2, ReadStepRefines
<1>2. CASE FillBuffer
  <2>1. /\ mode = "read" /\ mode' = mode /\ call # "none" /\ call' # "none"
        /\ UNCHANGED <<written, answer, failed>>
    BY <1>2 DEF FillBuffer, IInv, CallInMode, Reads, Writes
  <2>2. Tell' - bytes' = Tell - bytes
    <3>1. fileIndex' = fileIndex + bufferIndex /\ bufferIndex' = 0 /\ bytes' = bytes
      BY <1>2 DEF FillBuffer, NextIndex
    <3> QED BY <3>1, Indices DEF Tell, IInv, TypeOK
  <2> QED BY <2>1, <2>2, ReadStepRefines
<1>3. CASE ReadRest
  <2>1. /\ mode = "read" /\ mode' = mode /\ call # "none" /\ call' # "none"
        /\ UNCHANGED <<written, answer, failed>>
    BY <1>3 DEF ReadRest, IInv, CallInMode, Reads, Writes
  <2>2. Tell' - bytes' = Tell - bytes
    <3> DEFINE n == Len(Fetched(Left))
    <3>1. fileIndex' = fileIndex + bufferIndex + n /\ bufferIndex' = 0 /\ bytes' = bytes + n
      BY <1>3 DEF ReadRest, NextIndex
    <3>2. n \in Nat
      <4>1. Left \in Nat
        BY <1>3 DEF ReadRest, Left, IInv, TypeOK
      <4>2. n \in 0 .. Left
        BY <4>1, FetchedIs DEF IInv, TypeOK
      <4> QED BY <4>1, <4>2
    <3> HIDE DEF n
    <3> QED BY <3>1, <3>2, Indices DEF Tell, IInv, TypeOK
  <2> QED BY <2>1, <2>2, ReadStepRefines
<1>4. CASE CopyIn
  <2>1. /\ mode = "write" /\ mode' = mode /\ call # "none" /\ call' # "none" /\ ~failed
        /\ UNCHANGED <<answer, failed>>
    BY <1>4 DEF CopyIn, IInv, CallInMode, Reads, Writes
  <2> QED BY <1>4, <2>1, CopyInInv, AddsRefines
<1>5. ASSUME NEW m \in Accepted(bufferIndex), FlushFull(m)
      PROVE  PromisedStep
  <2>1. /\ mode = "write" /\ mode' = mode /\ call # "none" /\ call' # "none"
        /\ UNCHANGED <<written, bytes, answer>>
    BY <1>5 DEF FlushFull, IInv, CallInMode, Reads, Writes
  <2>2. failed = FALSE
    BY <1>5 DEF FlushFull, IInv, TypeOK, CallInMode
  <2>3. CASE failed' = TRUE
    BY <2>1, <2>3, FailureRefines
  <2>4. CASE failed' = FALSE /\ Tell' = Tell
    <3>1. ContentsNow' = ContentsNow /\ PlaceNow' = PlaceNow
      BY <2>1, <2>4 DEF ContentsNow, PlaceNow
    <3> QED BY <2>1, <2>2, <2>4, <3>1, StutterIs
  <2> QED BY <1>5, <2>3, <2>4, FlushFullInv
<1>6. ASSUME NEW m \in Accepted(bufferIndex), WriteRest(m)
      PROVE  PromisedStep
  <2>1. /\ mode = "write" /\ mode' = mode /\ call # "none" /\ call' # "none"
        /\ UNCHANGED answer
    BY <1>6 DEF WriteRest, IInv, CallInMode, Reads, Writes
  <2>2. failed = FALSE /\ failed' \in BOOLEAN
    BY <1>6 DEF WriteRest, IInv, TypeOK, CallInMode
  <2>3. CASE failed' = TRUE
    BY <2>1, <2>3, FailureRefines
  <2>4. CASE failed' = FALSE
    <3>1. \E new \in Seq(Byte) : Adds(new)
      BY <1>6, <2>4, WriteRestInv
    <3> QED BY <2>1, <2>2, <2>4, <3>1, AddsRefines
  <2> QED BY <2>2, <2>3, <2>4
<1>7. CASE Return
  BY <1>7, ReturnRefines
<1> QED BY <1>1, <1>2, <1>3, <1>4, <1>5, <1>6, <1>7 DEF LoopStep

LEMMA SeekRefines ==
    ASSUME ~WriteSeeks, IInv, IInv', NEW p, SeekNear(p) \/ SeekFar(p) \/ SeekFromEnd(p)
    PROVE  PromisedStep
<1>1. /\ mode = "read" /\ ~failed /\ call = "none" /\ call' = call
      /\ UNCHANGED <<mode, written, answer>>
  BY DEF SeekNear, SeekFar, SeekFromEnd, MaySeek, Idle, callVars
<1>2. failed' = failed \/ failed' = TRUE
  BY DEF SeekNear, SeekFar, SeekFromEnd
<1>3. Tell' \in Nat
  <2>1. fileIndex' \in Nat /\ bufferEnd' \in Nat /\ bufferIndex' \in 0 .. bufferEnd'
    BY FileAssumption DEF IInv, TypeOK
  <2>2. bufferIndex' \in Nat
    BY <2>1
  <2>3. \A a, b \in Nat : a + b \in Nat
    OBVIOUS
  <2> QED BY <2>1, <2>2, <2>3, Zenon DEF Tell
<1>4. ContentsNow' = ContentsNow /\ PlaceNow' \in Nat
  BY <1>1, <1>3 DEF ContentsNow, PlaceNow
<1>5. Contract!Seek
  BY <1>1, <1>2, <1>4, Zenon DEF Contract!Seek, ContentsNow, PlaceNow
<1> QED BY <1>5 DEF PromisedStep, Contract!FileNext

LEMMA CloseRefines ==
    ASSUME IInv, NEW m \in Accepted(bufferIndex), NEW closes \in BOOLEAN, Close(m, closes)
    PROVE  PromisedStep
<1>1. call = "none" /\ call' = call /\ mode # "closed" /\ mode' = "closed"
      /\ fileIndex' = 0 /\ bufferIndex' = 0 /\ UNCHANGED answer
  BY DEF Close, callVars
<1>2. ContentsNow = written /\ ContentsNow' = written' /\ PlaceNow' = 0
  BY <1>1 DEF ContentsNow, PlaceNow, Tell
<1>3. failed => failed'
  BY DEF Close
<1>4. mode = "read" \/ ~failed' => UNCHANGED written
  <2>1. mode = "read" => disk' = disk /\ disk = written
    BY DEF Close, IInv, ReadInStep
  <2> QED BY <2>1, CloseInv DEF Close
<1>5. Contract!Close
  BY <1>1, <1>2, <1>3, <1>4 DEF Contract!Close, ContentsNow, PlaceNow
<1> QED BY <1>5 DEF PromisedStep, Contract!FileNext

LEMMA NextRefines ==
    ASSUME ~WriteSeeks, IInv, IInv', [Next]_vars
    PROVE  PromisedStep
<1>1. CASE UNCHANGED vars
  <2>1. UNCHANGED <<mode, fileIndex, bufferIndex, call, bytes, written, failed, answer>>
    BY <1>1 DEF vars, diskVars, bufferVars, callVars
  <2>2. ContentsNow' = ContentsNow /\ PlaceNow' = PlaceNow
    BY <2>1 DEF ContentsNow, PlaceNow, Tell
  <2> QED BY <2>1, <2>2, StutterIs
<1>2. ASSUME NEW m \in {"read", "write"}, Open(m)
      PROVE  PromisedStep
  BY <1>2, OpenRefines
<1>3. ASSUME NEW c \in Reads, NEW n \in 0 .. MaxCount, CallRead(c, n)
      PROVE  PromisedStep
  BY <1>3, CallRefines, FileAssumption DEF CallRead
<1>4. ASSUME NEW c \in Writes, NEW n \in 0 .. MaxCount, NEW d \in [1 .. n -> Byte],
             CallWrite(c, d)
      PROVE  PromisedStep
  <2>1. Len(d) \in Nat
    BY FileAssumption
  <2> QED BY <1>4, <2>1, CallRefines DEF CallWrite
<1>5. CASE LoopStep
  BY <1>5, LoopRefines
<1>6. ASSUME NEW target \in 0 .. MaxSize, SeekNear(target) \/ SeekFar(target)
      PROVE  PromisedStep
  BY <1>6, SeekRefines
<1>7. ASSUME NEW offset \in 0 .. MaxSize, SeekFromEnd(offset)
      PROVE  PromisedStep
  BY <1>7, SeekRefines
<1>8. ASSUME NEW m \in Accepted(bufferIndex), NEW closes \in BOOLEAN, Close(m, closes)
      PROVE  PromisedStep
  BY <1>8, CloseRefines
<1> QED BY <1>1, <1>2, <1>3, <1>4, <1>5, <1>6, <1>7, <1>8 DEF Next

\* "Buffered and unbuffered read/write may be mixed freely" (bufferedfile.h:68): the
\* buffered file is the file of module File.
THEOREM FileRefinement == ASSUME ~WriteSeeks PROVE Spec => ImplementsFile
<1>1. Init => Contract!FileInit
  BY InitRefines
<1>2. IInv /\ IInv' /\ [Next]_vars => PromisedStep
  BY NextRefines
<1> QED BY <1>1, <1>2, Invariance, PTL
        DEF Spec, ImplementsFile, Contract!FileSpec, PromisedStep, ContentsNow, PlaceNow

=============================================================================

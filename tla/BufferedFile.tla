---------------------------- MODULE BufferedFile ----------------------------
(***************************************************************************)
(* foundation/utility/bufferedfile.{h,cpp}: reading and writing a file     *)
(* through one buffer.  The file belongs to one thread; an iteration of a  *)
(* loop is a step.  Seeking from the beginning and from the current        *)
(* position differ only in how the target is computed (the latter stops at *)
(* the beginning of the file), and the methods for one byte and for        *)
(* objects are read() and write() of so many bytes.                        *)
(*                                                                         *)
(* The file on disk is fopen()'s: fread(), fwrite() and fseek() act on its *)
(* own position; when the disk is full fwrite() may write less than asked, *)
(* and fclose() fail and lose what the FILE still held.  An fopen() that   *)
(* fails changes nothing.                                                  *)
(***************************************************************************)
EXTENDS Integers, Sequences

CONSTANTS Byte,
          Zero,        \* what a hole in a file reads as
          BufferSize,
          MaxSize,     \* bounds the positions that are written or sought
          MaxCount,    \* bounds the bytes of a call
          WriteSeeks,  \* whether the caller seeks while writing
          Faults       \* whether the disk may be full

ASSUME FileAssumption ==
    /\ Zero \in Byte
    /\ BufferSize \in Nat \ {0} /\ MaxSize \in Nat /\ MaxCount \in Nat
    /\ WriteSeeks \in BOOLEAN /\ Faults \in BOOLEAN

VARIABLES mode,         \* m_file_mode of an open file, or "closed"
          disk, head,   \* the bytes on disk, and the position of the FILE
          fileIndex, buffer, bufferEnd, bufferIndex,
          call, size, bytes, data,  \* the method being executed, and its variables
          written,      \* what the caller has written, at the positions it was told
          failed,       \* an error was reported
          answer        \* the last call that returned

diskVars == <<disk, head>>
bufferVars == <<fileIndex, buffer, bufferEnd, bufferIndex>>
callVars == <<call, size, bytes, data>>
vars == <<mode, diskVars, bufferVars, callVars, written, failed, answer>>

Reads == {"read", "read_unbuf"}
Writes == {"write", "write_unbuf"}
Buffer == [1 .. BufferSize -> Byte]

Least(a, b) == IF a < b THEN a ELSE b

\* A file after a write: what was not reached before is a hole.
Overwritten(file, at, new) ==
    [i \in 1 .. (IF at + Len(new) > Len(file) THEN at + Len(new) ELSE Len(file)) |->
        CASE i \in at + 1 .. at + Len(new) -> new[i - at]
          [] i \notin at + 1 .. at + Len(new) /\ i <= Len(file) -> file[i]
          [] OTHER -> Zero]

\* What fread() of n bytes returns.
Fetched(n) == SubSeq(disk, head + 1, Least(head + n, Len(disk)))

Tell == fileIndex + bufferIndex
Left == size - bytes
Available == bufferEnd - bufferIndex
Chunk(n) == SubSeq(buffer, bufferIndex + 1, bufferIndex + n)

Init ==
    /\ mode = "closed"
    /\ disk = <<>> /\ head = 0
    /\ fileIndex = 0 /\ bufferEnd = 0 /\ bufferIndex = 0
    /\ buffer \in Buffer
    /\ call = "none" /\ size = 0 /\ bytes = 0 /\ data = <<>>
    /\ written = <<>> /\ failed = FALSE
    /\ answer = [asked |-> 0, bytes |-> <<>>]

-----------------------------------------------------------------------------
(* Opening and calling. *)

\* The new buffer is not initialised.
Open(m) ==
    /\ mode = "closed"
    /\ mode' = m
    /\ disk' = IF m = "write" THEN <<>> ELSE disk
    /\ written' = IF m = "write" THEN <<>> ELSE written
    /\ head' = 0 /\ fileIndex' = 0 /\ bufferIndex' = 0
    /\ bufferEnd' = IF m = "read" THEN 0 ELSE BufferSize
    /\ buffer' \in Buffer
    /\ failed' = FALSE
    /\ UNCHANGED <<callVars, answer>>

Idle == mode # "closed" /\ call = "none" /\ ~failed

Call(c, n, d) ==
    /\ Idle
    /\ call' = c /\ size' = n /\ bytes' = 0 /\ data' = d
    /\ UNCHANGED <<mode, diskVars, bufferVars, written, failed, answer>>

CallRead(c, n) == mode = "read" /\ Call(c, n, <<>>)

CallWrite(c, d) ==
    /\ mode = "write"
    /\ Tell + Len(d) <= MaxSize
    /\ Call(c, Len(d), d)

\* The end of a loop: after the last byte, or by a break (call = "done").
Return ==
    /\ call = "done" \/ (call # "none" /\ bytes = size)
    /\ call' = "none"
    /\ answer' = IF failed THEN answer ELSE [asked |-> size, bytes |-> data]
    /\ UNCHANGED <<mode, diskVars, bufferVars, size, bytes, data, written, failed>>

-----------------------------------------------------------------------------
(* Reading. *)

\* read() and read_unbuf(): bytes are copied out of the buffer.
CopyOut ==
    /\ call \in Reads /\ bytes < size
    /\ bufferIndex < bufferEnd
    /\ LET n == Least(Left, Available)
       IN  /\ data' = data \o Chunk(n)
           /\ bufferIndex' = bufferIndex + n
           /\ bytes' = bytes + n
    /\ UNCHANGED <<mode, diskVars, fileIndex, buffer, bufferEnd, call, size, written,
                   failed, answer>>

\* Mutant: m_file_index is not moved.
SameIndex == fileIndex

\* m_file_index of the next buffer
NextIndex == fileIndex + bufferIndex

\* Mutant: no break at the end of the file.
NeverAtEnd(new) == FALSE

\* fread() returned nothing.
AtEnd(new) == new = <<>>

\* read(): fill_buffer(), and a break at the end of the file.
FillBuffer ==
    /\ call = "read" /\ bytes < size
    /\ bufferIndex = bufferEnd
    /\ LET new == Fetched(BufferSize)
       IN  /\ buffer' = [i \in 1 .. BufferSize |->
                            IF i <= Len(new) THEN new[i] ELSE buffer[i]]
           /\ bufferEnd' = Len(new)
           /\ head' = head + Len(new)
           /\ call' = IF AtEnd(new) THEN "done" ELSE call
    /\ fileIndex' = NextIndex
    /\ bufferIndex' = 0
    /\ UNCHANGED <<mode, disk, size, bytes, data, written, failed, answer>>

\* read_unbuf(): the rest is read past the buffer.
ReadRest ==
    /\ call = "read_unbuf" /\ bytes < size
    /\ bufferIndex = bufferEnd
    /\ LET new == Fetched(Left)
       IN  /\ data' = data \o new
           /\ bytes' = bytes + Len(new)
           /\ head' = head + Len(new)
           /\ fileIndex' = NextIndex + Len(new)
    /\ bufferEnd' = 0 /\ bufferIndex' = 0
    /\ call' = "done"
    /\ UNCHANGED <<mode, disk, buffer, size, written, failed, answer>>

-----------------------------------------------------------------------------
(* Writing. *)

\* How many of n bytes fwrite() writes.
Accepted(n) == {m \in 0 .. n : m = n \/ Faults}

\* write() and write_unbuf(): bytes are copied into the buffer.
CopyIn ==
    /\ call \in Writes /\ bytes < size
    /\ bufferIndex < bufferEnd
    /\ LET n == Least(Left, Available)
           new == SubSeq(data, bytes + 1, bytes + n)
       IN  /\ buffer' = [i \in 1 .. BufferSize |->
                            IF i \in bufferIndex + 1 .. bufferIndex + n
                            THEN new[i - bufferIndex] ELSE buffer[i]]
           /\ written' = Overwritten(written, Tell, new)
           /\ bufferIndex' = bufferIndex + n
           /\ bytes' = bytes + n
    /\ UNCHANGED <<mode, diskVars, fileIndex, bufferEnd, call, size, data, failed, answer>>

\* fwrite() of m bytes of the buffer in flush_buffer()
Flushed(m) == Overwritten(disk, head, SubSeq(buffer, 1, m))

\* write(): the full buffer is flushed, or the call breaks off.
FlushFull(m) ==
    /\ call = "write" /\ bytes < size
    /\ bufferIndex = bufferEnd
    /\ disk' = Flushed(m)
    /\ head' = head + m
    /\ fileIndex' = fileIndex + m
    /\ bufferIndex' = 0
    /\ failed' = (m < bufferIndex)
    /\ call' = IF m < bufferIndex THEN "done" ELSE call
    /\ UNCHANGED <<mode, buffer, bufferEnd, size, bytes, data, written, answer>>

\* write_unbuf(): the full buffer is flushed and the rest is written past it.
WriteRest(m) ==
    /\ call = "write_unbuf" /\ bytes < size
    /\ bufferIndex = bufferEnd
    /\ bufferIndex' = 0
    /\ call' = "done"
    /\ \/ /\ m < bufferIndex
          /\ failed' = TRUE
          /\ disk' = Flushed(m)
          /\ head' = head + m
          /\ fileIndex' = fileIndex + m
          /\ UNCHANGED <<bytes, written>>
       \/ \E n \in Accepted(Left) :
            LET new == SubSeq(data, bytes + 1, bytes + n)
            IN  /\ m = bufferIndex
                /\ failed' = (n < Left)
                /\ disk' = Overwritten(Flushed(m), head + m, new)
                /\ head' = head + m + n
                /\ fileIndex' = fileIndex + m + n
                /\ bytes' = bytes + n
                /\ written' = Overwritten(written, Tell, new)
    /\ UNCHANGED <<mode, buffer, bufferEnd, size, data, answer>>

-----------------------------------------------------------------------------
(* Seeking and closing. *)

MaySeek == Idle /\ (mode = "read" \/ WriteSeeks)

\* seek() within the buffer
SeekNear(target) ==
    /\ MaySeek
    /\ target \in fileIndex .. fileIndex + bufferEnd - 1
    /\ bufferIndex' = target - fileIndex
    /\ UNCHANGED <<mode, diskVars, fileIndex, buffer, bufferEnd, callVars, written,
                   failed, answer>>

\* Before fseek(), the buffer is dropped or flushed; that the flush may fail goes unnoticed.
EmptyBuffer(m) ==
    IF mode = "read"
    THEN /\ bufferEnd' = 0 /\ m = 0
         /\ UNCHANGED disk
    ELSE /\ m \in Accepted(bufferIndex)
         /\ disk' = Flushed(m)
         /\ UNCHANGED bufferEnd

\* seek() past the buffer, by fseek() relative to where the FILE was before.
SeekFar(target) ==
    /\ MaySeek
    /\ target \notin fileIndex .. fileIndex + bufferEnd - 1
    /\ \E m \in 0 .. bufferIndex :
        /\ EmptyBuffer(m)
        /\ LET current == IF mode = "read" THEN fileIndex + bufferEnd ELSE fileIndex
           IN  head' = head + m + target - current
    /\ fileIndex' = head'
    /\ bufferIndex' = 0
    /\ UNCHANGED <<mode, buffer, callVars, written, failed, answer>>

\* seek() from the end, offset bytes back; fseek() to before the beginning fails.
SeekFromEnd(offset) ==
    /\ MaySeek
    /\ \E m \in 0 .. bufferIndex :
        /\ EmptyBuffer(m)
        /\ bufferIndex' = 0
        /\ \/ /\ offset <= Len(disk')
              /\ head' = Len(disk') - offset
              /\ fileIndex' = head'
              /\ UNCHANGED failed
           \/ /\ offset > Len(disk')
              /\ head' = head + m
              /\ fileIndex' = fileIndex + m
              /\ failed' = TRUE
    /\ UNCHANGED <<mode, buffer, callVars, written, answer>>

\* Mutant: close() does not look at what flush_buffer() returns.
FlushIgnored(m) == FALSE

\* flush_buffer() returns false.
FlushFailed(m) == mode = "write" /\ m < bufferIndex

\* fclose() succeeds if `closes', or loses the end of what was written.  After an error
\* the file is as it is.
Close(m, closes) ==
    /\ mode # "closed" /\ call = "none"
    /\ closes \/ Faults
    /\ \/ mode = "read" /\ UNCHANGED disk
       \/ mode = "write" /\ closes /\ disk' = Flushed(m)
       \/ mode = "write" /\ ~closes
          /\ \E n \in 0 .. Len(Flushed(m)) : disk' = SubSeq(Flushed(m), 1, n)
    /\ failed' = (failed \/ FlushFailed(m) \/ ~closes)
    /\ mode' = "closed"
    /\ head' = 0 /\ fileIndex' = 0 /\ bufferEnd' = 0 /\ bufferIndex' = 0
    /\ written' = IF failed' THEN disk' ELSE written
    /\ UNCHANGED <<buffer, callVars, answer>>

LoopStep ==
    \/ CopyOut \/ FillBuffer \/ ReadRest
    \/ CopyIn
    \/ \E m \in Accepted(bufferIndex) : FlushFull(m) \/ WriteRest(m)
    \/ Return

Next ==
    \/ \E m \in {"read", "write"} : Open(m)
    \/ \E c \in Reads, n \in 0 .. MaxCount : CallRead(c, n)
    \/ \E c \in Writes, n \in 0 .. MaxCount : \E d \in [1 .. n -> Byte] : CallWrite(c, d)
    \/ LoopStep
    \/ \E target \in 0 .. MaxSize : SeekNear(target) \/ SeekFar(target)
    \/ \E offset \in 0 .. MaxSize : SeekFromEnd(offset)
    \/ \E m \in Accepted(bufferIndex), closes \in BOOLEAN : Close(m, closes)

Spec == Init /\ [][Next]_vars

\* A call goes on.
FairSpec == Spec /\ WF_vars(LoopStep)

-----------------------------------------------------------------------------
(* Properties. *)

\* The file as its caller sees it, between calls.
Contract == INSTANCE File WITH
    contents <- IF mode = "write" /\ call # "none"
                THEN SubSeq(written, 1, Len(written) - bytes) ELSE written,
    place <- IF call # "none" THEN Tell - bytes ELSE Tell

\* "Buffered and unbuffered read/write may be mixed freely" (bufferedfile.h:68): what
\* is read is what was written, at the position tell() returns, whatever the buffer
\* holds; short reads are at the end of the file; a success means success.
ImplementsFile == Contract!FileSpec

\* A file that was closed without an error holds what was written to it.
ClosedFileComplete == mode = "closed" /\ ~failed => disk = written

\* What a caller has written is not lost, at least: it may seek back to correct what it
\* wrote (test_bufferedfile.cpp, TestSeekingBackwardWhileWriting).
NothingWrittenIsLost ==
    mode = "closed" /\ ~failed =>
        \A i \in DOMAIN written : i \in DOMAIN disk /\ disk[i] = written[i]

\* The loops of read() and write() end.
CallsReturn == call # "none" ~> call = "none"

\* "Move the file pointer to a specified location" (bufferedfile.h:186): after a seek
\* that reported no error, tell() returns its target.
SeekArrives ==
    [][\A target \in 0 .. MaxSize : SeekNear(target) \/ SeekFar(target) => Tell' = target]_vars

(* What ImplementsFile and ClosedFileComplete rest on, when nobody seeks while writing. *)

TypeOK ==
    /\ mode \in {"closed", "read", "write"}
    /\ disk \in Seq(Byte) /\ written \in Seq(Byte) /\ data \in Seq(Byte)
    /\ head \in Nat /\ fileIndex \in Nat
    /\ buffer \in Buffer
    /\ bufferEnd \in 0 .. BufferSize /\ bufferIndex \in 0 .. bufferEnd
    /\ call \in {"none", "done"} \cup Reads \cup Writes
    /\ size \in Nat /\ bytes \in Nat
    /\ failed \in BOOLEAN
    /\ answer \in [asked : Nat, bytes : Seq(Byte)]

\* A call is one for the way the file is open, and is not continued after an error.
CallInMode ==
    /\ call \in Reads => mode = "read"
    /\ call \in Writes => mode = "write"
    /\ call # "none" => mode # "closed" /\ bytes <= size /\ (~failed => bytes <= Tell)
    /\ failed => call = "none" \/ (call = "done" /\ mode = "write")

\* The buffer is the piece of the file at m_file_index, and the FILE is behind it; the
\* call has read what is before the position.
ReadInStep ==
    mode = "read" =>
        /\ disk = written
        /\ ~failed =>
            /\ head = fileIndex + bufferEnd
            /\ \A i \in 1 .. bufferEnd :
                 fileIndex + i <= Len(disk) /\ buffer[i] = disk[fileIndex + i]
        /\ call # "none" =>
            /\ Len(data) = bytes
            /\ \A i \in 1 .. bytes :
                 Tell - bytes + i <= Len(disk) /\ data[i] = disk[Tell - bytes + i]
            /\ call = "done" => bytes = size \/ Tell >= Len(disk)

\* The buffer is what is still to be appended to the file; the call has appended the
\* bytes it counts.
WriteInStep ==
    mode = "write" =>
        /\ bufferEnd = BufferSize
        /\ ~failed =>
            /\ head = fileIndex /\ fileIndex = Len(disk)
            /\ written = disk \o SubSeq(buffer, 1, bufferIndex)
            /\ call # "none" =>
                /\ Len(data) = size
                /\ \A i \in 1 .. bytes : data[i] = written[Tell - bytes + i]
                /\ call = "done" => bytes = size

ClosedInStep ==
    mode = "closed" =>
        disk = written /\ fileIndex = 0 /\ bufferEnd = 0 /\ call = "none"

IInv == TypeOK /\ CallInMode /\ ReadInStep /\ WriteInStep /\ ClosedInStep

=============================================================================

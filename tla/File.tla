-------------------------------- MODULE File --------------------------------
(***************************************************************************)
(* foundation/utility/bufferedfile.h: what a file promises to its caller.  *)
(* There is one position; a read returns the bytes from there on, fewer    *)
(* than asked for only at the end of the file; what was written without an *)
(* error is in the file when it has been closed without one, whichever way *)
(* reads and writes were buffered.                                         *)
(*                                                                         *)
(* BufferedFile implements it, but for seek() while writing.               *)
(***************************************************************************)
EXTENDS Integers, Sequences

VARIABLES mode,      \* how the file is open, or "closed"
          contents,  \* what it holds, or will hold once it is closed
          place,     \* what tell() returns
          answer,    \* the last call: the bytes asked for, and those read or written
          failed     \* an error was reported: only close() may be called

FileInit ==
    /\ mode = "closed"
    /\ contents = <<>>
    /\ place = 0
    /\ answer = [asked |-> 0, bytes |-> <<>>]
    /\ failed = FALSE

\* Opening a file to write it empties it.
Open ==
    /\ mode = "closed"
    /\ \/ mode' = "read" /\ UNCHANGED contents
       \/ mode' = "write" /\ contents' = <<>>
    /\ place' = 0
    /\ failed' = FALSE
    /\ UNCHANGED answer

\* At most n bytes of the file.
BytesAt(p, n) ==
    SubSeq(contents, p + 1, IF p + n < Len(contents) THEN p + n ELSE Len(contents))

\* read() and read_unbuf()
Read ==
    /\ mode = "read" /\ ~failed
    /\ answer'.bytes = BytesAt(place, answer'.asked)
    /\ place' = place + Len(answer'.bytes)
    /\ UNCHANGED <<mode, contents, failed>>

\* write() and write_unbuf()
Write ==
    /\ mode = "write" /\ ~failed
    /\ Len(answer'.bytes) = answer'.asked
    /\ place = Len(contents)
    /\ place' = place + answer'.asked
    /\ contents' = contents \o answer'.bytes
    /\ UNCHANGED <<mode, failed>>

\* seek() while reading
Seek ==
    /\ mode = "read" /\ ~failed
    /\ UNCHANGED <<mode, contents, answer>>
    /\ \/ place' \in Nat /\ UNCHANGED failed
       \/ failed' = TRUE

\* An error while writing: nothing more is promised of the file.
Fail == mode = "write" /\ failed' = TRUE /\ UNCHANGED mode

Close ==
    /\ mode # "closed" /\ mode' = "closed"
    /\ place' = 0
    /\ failed => failed'
    /\ mode = "read" \/ ~failed' => UNCHANGED contents
    /\ UNCHANGED answer

FileNext == Open \/ Read \/ Write \/ Seek \/ Fail \/ Close

FileSpec == FileInit /\ [][FileNext]_<<mode, contents, place, answer, failed>>

=============================================================================

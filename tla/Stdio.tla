------------------------------- MODULE Stdio -------------------------------
(***************************************************************************)
(* A FILE of the user library (user_src/user_libc.c) on a regular file:    *)
(* two buffers, one for what was read ahead and one for what is yet to be  *)
(* written, in front of the kernel's own offset.                           *)
(*                                                                         *)
(* The program keeps to the rules of C: between reading and writing it     *)
(* seeks (or flushes, after writing, or has met the end, when reading).    *)
(* After a read or a write that failed it only closes the stream.          *)
(*                                                                         *)
(* Two seeks go wrong while bytes are read ahead that the program has not  *)
(* taken: one relative to the position ("CUR") counts from the kernel's    *)
(* offset, and one that lseek refuses ("failing") has dropped those bytes  *)
(* before it fails.  SeeksAhead holds those of the two that programs make. *)
(***************************************************************************)
EXTENDS Integers, Sequences, SequencesExt

CONSTANTS
  BufferSize,              \* FILE_BUFFER_SIZE
  Octet,                   \* values of bytes
  MaxLength, MaxItems,     \* (bounds) the file, and the bytes of one call
  SeeksAhead               \* the seeks above that programs make; {}, if they make neither
StdioAssumption ==
  /\ BufferSize \in Nat \ {0} /\ MaxLength \in Nat /\ MaxItems \in Nat
  /\ 0 \in Octet /\ SeeksAhead \subseteq {"CUR", "failing"}
ASSUME StdioAssumption

VARIABLES
  kfile, koffset,          \* the kernel's file, a sequence, and the descriptor's offset
  ahead, buffer_pos,       \* read_buffer up to buffer_len, and what of it was taken
  pending,                 \* write_buffer up to write_pos
  error, open,
  flow,                    \* "reading", "writing" or "neither"
  at, got                  \* where the program is in the file; what the last fread returned

svars == <<kfile, koffset, ahead, buffer_pos, pending, error, open, flow, at, got>>

StdioInit ==                                   \* fopen(path, "w+")
  /\ kfile = <<>> /\ koffset = 0 /\ ahead = <<>> /\ buffer_pos = 0 /\ pending = <<>>
  /\ error = FALSE /\ open = TRUE /\ flow = "neither" /\ at = 0 /\ got = <<>>

(* sys_write and sys_read on the file: a gap reads as 0.                   *)
Overlaid(file, offset, bytes) ==
  LET end == offset + Len(bytes)
  IN [i \in 1 .. IF bytes # <<>> /\ end > Len(file) THEN end ELSE Len(file) |->
        IF offset < i /\ i <= end THEN bytes[i - offset]
        ELSE IF i <= Len(file) THEN file[i] ELSE 0]
Portion(file, offset, n) ==
  SubSeq(file, offset + 1, IF offset + n < Len(file) THEN offset + n ELSE Len(file))

(* The stream as a record that a call passes through.                      *)
Stream == [file |-> kfile, offset |-> koffset, ahead |-> ahead, pos |-> buffer_pos,
           pending |-> pending, error |-> error, stop |-> FALSE, bytes |-> <<>>]

Becomes(s) ==
  /\ kfile' = s.file /\ koffset' = s.offset /\ ahead' = s.ahead /\ buffer_pos' = s.pos
  /\ pending' = s.pending /\ error' = s.error

KeepsOffset(s) == [s EXCEPT !.file = Overlaid(@, s.offset, s.pending), !.pending = <<>>]
                                               \* fault: as if by pwrite
Written(s) == [s EXCEPT !.file = Overlaid(@, s.offset, s.pending),
                        !.offset = @ + Len(s.pending), !.pending = <<>>]
fflush_write(s, works) ==
  IF s.pending = <<>> THEN s
  ELSE IF works THEN Written(s) ELSE [s EXCEPT !.error = TRUE, !.stop = TRUE]

fputc(s, b, works) ==
  LET u == IF Len(s.pending) >= BufferSize THEN fflush_write(s, works) ELSE s
  IN IF u.stop THEN u ELSE [u EXCEPT !.pending = Append(@, b), !.bytes = Append(@, b)]

fill_read_buffer(s, works) ==
  LET read == IF works THEN Portion(s.file, s.offset, BufferSize) ELSE <<>>
  IN [s EXCEPT !.ahead = read, !.pos = 0, !.offset = @ + Len(read), !.stop = read = <<>>,
               !.error = @ \/ ~works]

fgetc(s, works) ==
  LET u == IF s.pos >= Len(s.ahead) THEN fill_read_buffer(s, works) ELSE s
  IN IF u.stop THEN u ELSE [u EXCEPT !.bytes = Append(@, u.ahead[u.pos + 1]), !.pos = @ + 1]

AheadKept(s) == s                              \* fault: fseek leaves the read buffer
AheadDropped(s) == [s EXCEPT !.ahead = <<>>, !.pos = 0]

(* Call after call, one for each element of calls, until one stops.        *)
Repeated(Op(_, _), s, calls) ==
  FoldLeft(LAMBDA u, c : IF u.stop THEN u ELSE Op(u, c), s, calls)

-----------------------------------------------------------------------------
fwrite(n, b, works) ==
  /\ open /\ ~error /\ flow # "reading" /\ at + n <= MaxLength
  /\ LET calls == [k \in 1 .. n |-> [byte |-> b, works |-> works]]
         s == Repeated(LAMBDA u, c : fputc(u, c.byte, c.works), Stream, calls)
     IN Becomes(s) /\ at' = at + Len(s.bytes)
  /\ flow' = "writing" /\ UNCHANGED <<open, got>>

fread(n, works) ==
  /\ open /\ ~error /\ flow # "writing"
  /\ LET s == Repeated(LAMBDA u, c : fgetc(u, c), Stream, [k \in 1 .. n |-> works])
     IN /\ Becomes(s) /\ at' = at + Len(s.bytes) /\ got' = s.bytes
        /\ flow' = IF s.stop THEN "neither" ELSE "reading"
  /\ UNCHANGED open

fflush(works) ==
  /\ open /\ ~error /\ flow # "reading"
  /\ Becomes(fflush_write(Stream, works))
  /\ flow' = "neither" /\ UNCHANGED <<open, at, got>>

(* whence with the number of bytes from there.  lseek refuses a target in  *)
(* front of the file, when the buffers are flushed and dropped already; the *)
(* program then takes itself to be where it was.                           *)
Sought(from, target) == IF target >= 0 THEN target ELSE from

fseek(whence, n, works) ==
  /\ open /\ ~error
  /\ LET s == AheadDropped(fflush_write(Stream, works))
         Target(from) == CASE whence = "SET" -> n [] whence = "CUR" -> from + n
                           [] whence = "END" -> Len(s.file) + n
     IN /\ Target(s.offset) <= MaxLength
        /\ buffer_pos < Len(ahead) =>
             /\ whence = "CUR" => "CUR" \in SeeksAhead
             /\ Target(s.offset) < 0 => "failing" \in SeeksAhead
        /\ Becomes([s EXCEPT !.offset = Sought(@, Target(@))])
        /\ at' = Sought(at, Target(at))
  /\ flow' = "neither" /\ UNCHANGED <<open, got>>

fclose(works) ==                               \* says nothing of a flush that failed
  /\ open /\ open' = FALSE
  /\ Becomes(fflush_write(Stream, works))
  /\ UNCHANGED <<flow, at, got>>

StdioNext ==
  \E works \in BOOLEAN :
    \/ \E n \in 0 .. MaxItems : fread(n, works) \/ \E b \in Octet : fwrite(n, b, works)
    \/ \E whence \in {"SET", "CUR", "END"}, n \in - MaxItems .. MaxLength : fseek(whence, n, works)
    \/ fflush(works) \/ fclose(works)

StdioSpec == StdioInit /\ [][StdioNext]_svars

-----------------------------------------------------------------------------
(* The file as the program sees it: what it wrote is there, pending or not.*)
Seen == Overlaid(kfile, koffset, pending)

(* Until a read or a write fails, the stream behaves as the file itself    *)
(* would: reads return what was written last, at the position the calls    *)
(* add up to, whatever is buffered (user_libc.c:510).  This and the next   *)
(* hold while programs leave the two seeks of SeeksAhead out; with either  *)
(* of them both fail.                                                      *)
PlainFile == INSTANCE SparseFile
          WITH Description <- {"stream"}, Byte <- Octet, MaxFile <- MaxLength,
               MaxCount <- MaxItems, MaxSeek <- MaxLength, size <- Len(Seen),
               content <- [i \in 0 .. Len(Seen) - 1 |-> Seen[i + 1]],
               position <- [d \in {"stream"} |-> at],
               result <- [i \in 0 .. Len(got) - 1 |-> got[i + 1]]
StreamIsFile == [][error' \/ PlainFile!FNext]_<<Seen, at, got>>

(* The kernel's offset, less what was read ahead, plus what is pending, is *)
(* where the program is, so the next call goes on where the last one       *)
(* ended; and fclose leaves nothing pending (stres.c:1333).                *)
PositionsAgree ==
  ~error => /\ at = koffset - (Len(ahead) - buffer_pos) + Len(pending)
            /\ ~open => pending = <<>>
=============================================================================

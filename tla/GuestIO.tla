------------------------------- MODULE GuestIO -------------------------------
(***************************************************************************)
(* The vectored reads and writes and the random fill of boundWasiIO,       *)
(* src/sdk/typescript/resource-fs.ts: the host follows addresses that the  *)
(* guest put in its own memory, and writes to that memory as it goes.      *)
(*                                                                         *)
(* Memory is cut into cells of four bytes: a function from 0..Size-1 to    *)
(* unsigned words.  An entry of a vector is two cells, an address and a    *)
(* length, both in cells.  A guest passes signed words.  A descriptor is   *)
(* [open, data, ret]: whether it is in the table, what is left to read or  *)
(* may still be written, and the error it gives when that is not enough    *)
(* (0: it just stops short).                                               *)
(***************************************************************************)
EXTENDS Integers, Sequences, FiniteSets, FiniteSetsExt

CONSTANTS
  Word,   \* the values of a cell: 0..Word-1
  Chunk,  \* what getRandomValues fills at most in one call
  Inval, Badf, NotSup,   \* ERRNO_INVAL, ERRNO_BADF, ERRNO_NOTSUP
  Poll    \* the cells of a clock subscription and of its event: [in, out]

Unsigned(x) == x % Word
Span(start, length) == start..(start + length - 1)
CellsOf(memory) == Cardinality(DOMAIN memory)
Fits(memory, start, length) == start + length <= CellsOf(memory)

\* The host's view of a cell; outside memory it would be an exception.
Load(memory, cell) == IF cell \in DOMAIN memory THEN memory[cell] ELSE 0
Store(memory, cell, value) ==
  IF cell \in DOMAIN memory THEN [memory EXCEPT ![cell] = value] ELSE memory

\* A call under way: the memory, what was moved, what it answers, whether it
\* has, and the cells the host went to.
Call(memory) == [memory |-> memory, moved |-> 0, ret |-> 0, done |-> FALSE, touched |-> {}]
Answer(s, ret) == [s EXCEPT !.ret = ret, !.done = TRUE]
Report(s, result) ==
  [s EXCEPT !.memory = Store(@, result, s.moved), !.touched = @ \cup {result}]

\* Mutant: the vector's own range is not checked.
CheckedResult(memory, pointer, count, result) == Fits(memory, result, 1)

\* Before anything is followed; and before an entry is.
Checked(memory, pointer, count, result) ==
  Fits(memory, pointer, 2 * count) /\ Fits(memory, result, 1)
EntryFits(memory, address, length) == Fits(memory, address, length)

\* One entry of a vector, before the descriptor is asked: it is read when the
\* call comes to it, and a bad one ends the call.
Entry(s, cell) ==
  LET address == Load(s.memory, cell)
      length == Load(s.memory, cell + 1)
      seen == [s EXCEPT !.touched = @ \cup {cell, cell + 1}]
  IN  IF s.done THEN s
      ELSE IF ~EntryFits(s.memory, address, length) THEN Answer(seen, Inval)
      ELSE [seen EXCEPT !.touched = @ \cup Span(address, length)]

\* What an entry asks for, and how much of it the descriptor moves.
Length(s, cell) == Load(s.memory, cell + 1)
Moved(s, cell, fd) == Min({Length(s, cell), Len(fd.data) - s.moved})

\* An entry of fd_write and fd_pwrite: the count is reported after every one.
WriteEntry(s, cell, result, fd) ==
  LET seen == Entry(s, cell)
      n == Moved(s, cell, fd)
      moved == Report([seen EXCEPT !.moved = @ + n], result)
  IN  IF seen.done THEN seen
      ELSE IF n # Length(s, cell) THEN Answer(moved, fd.ret)
      ELSE moved

\* An entry of fd_read and fd_pread: its data goes to guest memory at once,
\* where it may change the entries that follow.
Filled(memory, address, n, data, first) ==
  [x \in DOMAIN memory |->
     IF x \in Span(address, n) THEN data[first + x - address] ELSE memory[x]]

ReadEntry(s, cell, result, fd) ==
  LET seen == Entry(s, cell)
      n == Moved(s, cell, fd)
      address == Load(s.memory, cell)
      filled == [seen EXCEPT !.moved = @ + n,
                             !.memory = Filled(@, address, n, fd.data, s.moved + 1)]
  IN  IF seen.done THEN seen
      ELSE IF n = Length(s, cell) THEN filled
      ELSE IF fd.ret # 0 THEN Answer(Report(seen, result), fd.ret)
      ELSE Answer(Report(filled, result), 0)

\* The call after each of a vector's entries.
Written(memory, pointer, count, result, fd) ==
  LET after[k \in 0..count] ==
        IF k = 0 THEN Call(memory)
        ELSE WriteEntry(after[k - 1], pointer + 2 * (k - 1), result, fd)
  IN  after

ReadIn(memory, pointer, count, result, fd) ==
  LET after[k \in 0..count] ==
        IF k = 0 THEN Call(memory)
        ELSE ReadEntry(after[k - 1], pointer + 2 * (k - 1), result, fd)
  IN  after

\* What is looked at before the first, and what is answered after the last.
Outcome(memory, pointer, count, result, fd, final) ==
  IF ~fd.open THEN Answer(Call(memory), Badf)
  ELSE IF ~Checked(memory, pointer, count, result) THEN Answer(Call(memory), Inval)
  ELSE IF final.done THEN final ELSE Answer(Report(final, result), 0)

\* fd_write and fd_pwrite, fd_read and fd_pread.
Write(memory, p, c, r, fd) ==
  LET pointer == Unsigned(p)  count == Unsigned(c)  result == Unsigned(r)
  IN  Outcome(memory, pointer, count, result, fd,
              Written(memory, pointer, count, result, fd)[count])
Read(memory, p, c, r, fd) ==
  LET pointer == Unsigned(p)  count == Unsigned(c)  result == Unsigned(r)
  IN  Outcome(memory, pointer, count, result, fd,
              ReadIn(memory, pointer, count, result, fd)[count])

\* random_get: the cells that are filled, chunk by chunk.
RandomGet(memory, b, l) ==
  LET buffer == Unsigned(b)
      length == Unsigned(l)
      chunks == { k * Chunk : k \in { i \in 0..length : i * Chunk < length } }
  IN  IF ~Fits(memory, buffer, length) THEN Answer(Call(memory), Inval)
      ELSE [Answer(Call(memory), 0) EXCEPT
              !.moved = length,
              !.touched = UNION { (buffer + filled)..(buffer + Min({length, filled + Chunk}) - 1)
                                  : filled \in chunks }]

\* The imports that are left to the shim once the ranges it will use are known
\* to lie in memory.
Guarded(memory, ranges) ==
  IF \E r \in ranges : ~Fits(memory, r[1], r[2]) THEN Answer(Call(memory), Inval)
  ELSE [Answer(Call(memory), 0) EXCEPT !.touched = UNION { Span(r[1], r[2]) : r \in ranges }]

ReadDir(memory, buffer, length, used) ==
  Guarded(memory, {<<Unsigned(buffer), Unsigned(length)>>, <<Unsigned(used), 1>>})
PrestatName(memory, pointer, length) ==
  Guarded(memory, {<<Unsigned(pointer), Unsigned(length)>>})
PollOneoff(memory, input, output, count) ==
  IF Unsigned(count) = 0 THEN Answer(Call(memory), Inval)
  ELSE IF Unsigned(count) # 1 THEN Answer(Call(memory), NotSup)
  ELSE Guarded(memory, {<<Unsigned(input), Poll.in>>, <<Unsigned(output), Poll.out>>})

------------------------------------------------------------------------------
\* What a call owes the guest and the host.

\* Whatever the pointers and the entries, also those a read has just
\* overwritten, the host stays inside guest memory; a call that is refused at
\* once touches nothing; an answer other than EINVAL reports what was moved,
\* and no more was moved than the descriptor holds; a write changes nothing of
\* the guest but its report.
CallBounded(call, memory, result, fd) ==
  /\ call.touched \subseteq DOMAIN memory
  /\ call.done
  /\ call.touched = {} => call.memory = memory
  /\ call.ret \notin {Inval, Badf} => call.memory[Unsigned(result)] = call.moved
  /\ call.moved <= Len(fd.data)

WriteBounded(memory, p, c, r, fd) ==
  LET call == Write(memory, p, c, r, fd)
  IN  /\ CallBounded(call, memory, r, fd)
      /\ \A cell \in DOMAIN memory : cell # Unsigned(r) => call.memory[cell] = memory[cell]

ReadBounded(memory, p, c, r, fd) == CallBounded(Read(memory, p, c, r, fd), memory, r, fd)

GuardedBounded(memory, p, c, r) ==
  \A call \in {ReadDir(memory, p, c, r), PrestatName(memory, p, c), PollOneoff(memory, p, c, r)} :
    call.touched \subseteq DOMAIN memory

\* Every cell asked for is filled, and no other.
RandomBounded(memory, b, l) ==
  LET call == RandomGet(memory, b, l)
  IN  /\ call.touched \subseteq DOMAIN memory
      /\ call.ret = 0 => call.touched = Span(Unsigned(b), Unsigned(l))
=============================================================================

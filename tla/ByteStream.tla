------------------------------ MODULE ByteStream ------------------------------
(***************************************************************************)
(* The buffer of a Decoder over an io.Reader.  Every call of the reader    *)
(* overwrites the buffer from its start with the next chunk, of any size;  *)
(* values are cut out of the buffer, or glued together when they do not    *)
(* end in the chunk they began in.  A byte is <<class, place>>: a class    *)
(* 1..4 starts a character of so many bytes, 0 continues it, 9 is a digit  *)
(* and -1 ends a value.  The buffer is a record                            *)
(*   buf, head, tail   the bytes; those not read yet are head+1 .. tail    *)
(*   at, loads         what the reader has delivered, and in how many      *)
(*                     chunks                                              *)
(*   err               the first error                                     *)
(* What is cut out of the buffer shows what the buffer holds when it is    *)
(* looked at: <<"alias", from, to>>; what was copied is <<"copy", bytes>>. *)
(***************************************************************************)
EXTENDS Integers, Sequences, SequencesExt, FiniteSetsExt

CONSTANTS Items,      \* the items the input may hold: [op, w]
          MaxItems,   \* how many of them
          BufSize,    \* the size of the buffer (defaultBufferSize)
          MinChunk,   \* the least the reader delivers, while it has as much
          Period      \* after as many chunks their sizes are repeated

VARIABLES items,      \* the items of the input
          input,      \* their bytes
          chunks,     \* the sizes of the chunks
          stream,     \* the decoder's buffer
          results     \* what was read of each item: [data, edge]

svars == <<items, input, chunks, stream, results>>

-----------------------------------------------------------------------------
(* The input.  An item is read by the operation op; w are the lengths of   *)
(* its characters.                                                         *)
Operations == {"bytes", "unsafeBytes", "string", "unsafeString", "char", "until", "int"}

CharOf(n) == [i \in 1..n |-> IF i = 1 THEN n ELSE 0]
Content(it) ==
  IF it.op = "int" THEN [i \in 1..Len(it.w) |-> 9] ELSE FlattenSeq([i \in 1..Len(it.w) |-> CharOf(it.w[i])])
Classes(it) == Content(it) \o (IF it.op = "char" THEN <<>> ELSE <<-1>>)
BytesOf(its) == LET all == FlattenSeq([i \in 1..Len(its) |-> Classes(its[i])])
                IN  [i \in 1..Len(all) |-> <<all[i], i>>]

(* How many bytes come before item i.                                      *)
Starts(i) == Len(BytesOf(SubSeq(items, 1, i - 1)))

Empty == [buf |-> [i \in 1..BufSize |-> <<0, 0>>], head |-> 0, tail |-> 0, at |-> 0, loads |-> 0, err |-> "nil"]

Init ==
  /\ items \in UNION {[1..n -> Items] : n \in 1..MaxItems}
  /\ items[Len(items)].op /= "char"
  /\ input = BytesOf(items)
  /\ chunks \in [0..(Period - 1) -> MinChunk..BufSize]
  /\ stream = Empty
  /\ results = <<>>

-----------------------------------------------------------------------------
(* loadMore: the next chunk, or the end of the input.                      *)
loadMore(d) ==
  LET n == Min({chunks[d.loads % Period], Len(input) - d.at})
      e == [buf |-> [i \in 1..BufSize |-> IF i <= n THEN input[d.at + i] ELSE d.buf[i]],
            head |-> 0, tail |-> n, at |-> d.at + n, loads |-> d.loads + 1, err |-> d.err]
  IN  [d |-> IF n = 0 /\ e.err = "nil" THEN [e EXCEPT !.err = "EOF"] ELSE e, ok |-> n > 0]

(* The guard of every operation: something to read, loaded if need be.     *)
Filled(d) == IF d.head = d.tail THEN loadMore(d) ELSE [d |-> d, ok |-> TRUE]

Bytes(d, from, to) == SubSeq(d.buf, from + 1, to)
Look(d, x) == IF x[1] = "alias" THEN Bytes(d, x[2], x[3]) ELSE x[2]

Skip(d) == LET f == Filled(d) IN IF f.ok THEN [f.d EXCEPT !.head = @ + 1] ELSE f.d

-----------------------------------------------------------------------------
(* The loops that glue a value together.  q.d is the buffer, q.n what is   *)
(* still to be read, q.data what was, and q.x the value: <<>> until the    *)
(* loop is left.                                                           *)
Enter(d, n, data) == [d |-> d, n |-> n, data |-> data, x |-> <<>>]
Leave(d, bytes) == [d |-> d, x |-> <<"copy", bytes>>]

nextRound(q) ==
  LET f == loadMore(q.d) IN
  IF ~f.ok THEN Leave(f.d, q.data)
  ELSE IF f.d.tail >= q.n THEN Leave([f.d EXCEPT !.head = q.n], q.data \o Bytes(f.d, 0, q.n))
  ELSE Enter(f.d, q.n - f.d.tail, q.data \o Bytes(f.d, 0, f.d.tail))

(* bytes.IndexByte: where the next byte is that ends a value, or -1.       *)
Ends(b) == b[1] = -1
IndexOf(d) == SelectInSeq(Bytes(d, d.head, d.tail), Ends) - 1

untilRound(q) ==
  LET all == q.data \o Bytes(q.d, q.d.head, q.d.tail)
      f == loadMore(q.d)
      i == IndexOf(f.d) IN
  IF ~f.ok THEN Leave(f.d, all)
  ELSE IF i >= 0 THEN Leave([f.d EXCEPT !.head = @ + i + 1], all \o Bytes(f.d, f.d.head, f.d.head + i))
  ELSE Enter(f.d, q.n, all)

(* readUint64 looks for the byte after the digits.                         *)
NoDigit(b) == b[1] /= 9

digitRound(q) ==
  LET rest == Bytes(q.d, q.d.head, q.d.tail)
      n == SelectInSeq(rest, NoDigit)
      f == loadMore(q.d) IN
  IF n > 0 THEN Leave([q.d EXCEPT !.head = @ + n], q.data \o SubSeq(rest, 1, n - 1))
  ELSE IF ~f.ok THEN Leave(f.d, q.data \o rest)
  ELSE Enter(f.d, q.n, q.data \o rest)

(* Strings are counted in UTF-16 units: a character of four bytes is two.  *)
(* chars goes over n units of buf, or to its end; a round for each         *)
(* character, so that n rounds are enough.                                 *)
charStep(buf, p) ==
  IF p.n <= 0 \/ p.off >= Len(buf) \/ ~p.ok THEN p
  ELSE LET b == buf[p.off + 1][1] IN
       IF b \notin 1..4 THEN [p EXCEPT !.ok = FALSE]
       ELSE [off |-> p.off + b, n |-> p.n - (IF b = 4 THEN 2 ELSE 1), ok |-> TRUE]

chars(buf, n) ==
  LET rounds == IF n > 0 THEN n ELSE 0
      at[k \in 0..rounds] == IF k = 0 THEN [off |-> 0, n |-> n, ok |-> TRUE] ELSE charStep(buf, at[k - 1])
  IN  at[rounds]

Invalid(d) == IF d.err = "nil" THEN [d EXCEPT !.err = "UTF8"] ELSE d

(* readStringAsBytes: a last character that goes on in the next chunk is   *)
(* glued at once.                                                          *)
stringRound(q) ==
  LET length == q.d.tail - q.d.head
      buf == Bytes(q.d, q.d.head, q.d.tail)
      c == chars(buf, q.n)
      remains == length - c.off
      f == loadMore(q.d) IN
  IF length < 0 THEN Leave([q.d EXCEPT !.err = "panic"], <<>>)
  ELSE IF ~c.ok THEN Leave(Invalid(q.d), q.data)
  ELSE IF remains > 0
    THEN [d |-> [q.d EXCEPT !.head = @ + c.off],
          x |-> IF q.data = <<>> THEN <<"alias", q.d.head, q.d.head + c.off>>
                ELSE <<"copy", q.data \o SubSeq(buf, 1, c.off)>>]
  ELSE IF ~f.ok THEN Leave(IF remains < 0 THEN Invalid(f.d) ELSE f.d, q.data \o buf)
  ELSE Enter([f.d EXCEPT !.head = -remains], c.n, q.data \o buf \o Bytes(f.d, 0, -remains))

Round(loop, q) ==
  IF q.x /= <<>> THEN q
  ELSE IF loop = "next" THEN nextRound(q)
  ELSE IF loop = "until" THEN untilRound(q)
  ELSE IF loop = "digits" THEN digitRound(q)
  ELSE stringRound(q)

(* Each round but the last reads something, so that the loop is left after *)
(* as many rounds as there are bytes, and one.                             *)
Rounds(loop, q) ==
  LET at[k \in 0..(Len(input) + 1)] == IF k = 0 THEN q ELSE Round(loop, at[k - 1])
  IN  at[Len(input) + 1]

-----------------------------------------------------------------------------
(* next(n): n bytes.                                                       *)
(* mutant: what was left in the buffer is dropped.                         *)
DropsRemains(d, n) ==
  LET f == Filled(d)
      remain == f.d.tail - f.d.head IN
  IF remain >= n THEN [d |-> [f.d EXCEPT !.head = @ + n], x |-> <<"alias", f.d.head, f.d.head + n>>]
  ELSE Rounds("next", Enter(f.d, n - remain, <<>>))

next(d, n) ==
  LET f == Filled(d)
      remain == f.d.tail - f.d.head IN
  IF ~f.ok THEN [d |-> f.d, x |-> <<"copy", <<>>>>]
  ELSE IF remain >= n
    THEN [d |-> [f.d EXCEPT !.head = @ + n], x |-> <<"alias", f.d.head, f.d.head + n>>]
  ELSE Rounds("next", Enter(f.d, n - remain, Bytes(f.d, f.d.head, f.d.tail)))

(* until: the bytes up to the next one that ends a value, which is skipped. *)
(* mutant: the byte that ends the value is not skipped.                    *)
KeepsDelimiter(d) ==
  LET f == Filled(d)
      i == IndexOf(f.d) IN
  IF f.ok /\ i >= 0 THEN [d |-> [f.d EXCEPT !.head = @ + i], x |-> <<"alias", f.d.head, f.d.head + i>>]
  ELSE Rounds("until", Enter(f.d, 0, <<>>))

until(d) ==
  LET f == Filled(d)
      i == IndexOf(f.d) IN
  IF ~f.ok THEN [d |-> f.d, x |-> <<"copy", <<>>>>]
  ELSE IF i >= 0
    THEN [d |-> [f.d EXCEPT !.head = @ + i + 1], x |-> <<"alias", f.d.head, f.d.head + i>>]
  ELSE Rounds("until", Enter(f.d, 0, <<>>))

(* readUint64: digits and the byte after them.                             *)
readUint64(d) ==
  LET f == Filled(d)                                        \* NextByte
  IN  Rounds("digits", Enter([f.d EXCEPT !.head = @ + 1], 0, Bytes(f.d, f.d.head, f.d.head + 1)))

(* readStringAsBytes: n units.                                             *)
readStringAsBytes(d, n) ==
  LET f == Filled(d)
      length == f.d.tail - f.d.head
      fast == chars(Bytes(f.d, f.d.head, f.d.tail), n) IN
  IF n = 0 \/ ~f.ok THEN [d |-> IF n = 0 THEN d ELSE f.d, x |-> <<"copy", <<>>>>]
  ELSE IF length < 3 * n THEN Rounds("string", Enter(f.d, n, <<>>))
  ELSE IF fast.ok
    THEN [d |-> [f.d EXCEPT !.head = @ + fast.off], x |-> <<"alias", f.d.head, f.d.head + fast.off>>]
  ELSE [d |-> Invalid(f.d), x |-> <<"copy", <<>>>>]

Utf16Units(it) == Len(it.w) + Cardinality({i \in DOMAIN it.w : it.w[i] = 4})

-----------------------------------------------------------------------------
(* The next item is read by its operation: what is copied is copied before *)
(* the closing byte is skipped, an alias is looked at after that.          *)
Read(it) ==
  \E r \in {IF it.op \in {"bytes", "unsafeBytes"} THEN next(stream, Len(Content(it)))
            ELSE IF it.op = "until" THEN until(stream)
            ELSE IF it.op = "int" THEN readUint64(stream)
            ELSE readStringAsBytes(stream, Utf16Units(it))} :
  \E after \in {IF it.op \in {"until", "int", "char"} THEN r.d ELSE Skip(r.d)} :
    LET kept == IF it.op \in {"unsafeBytes", "unsafeString"} THEN r.x ELSE <<"copy", Look(r.d, r.x)>>
    IN  /\ stream' = after
        /\ results' = Append(results, [data |-> Look(after, kept), edge |-> r.x[1] = "alias" /\ r.d.head = r.d.tail])
        /\ UNCHANGED <<items, input, chunks>>

ReadItem == Len(results) < Len(items) /\ stream.err /= "panic" /\ Read(items[Len(results) + 1])

Next == ReadItem
Spec == Init /\ [][Next]_svars

-----------------------------------------------------------------------------
(* Properties *)

TypeOK ==
  /\ 0 <= stream.head /\ stream.head <= stream.tail /\ stream.tail <= BufSize
  /\ stream.at <= Len(input)
  /\ stream.err = "nil"

(* The bytes of item i, as the sender wrote them.                          *)
Wanted(i) == SubSeq(input, Starts(i) + 1, Starts(i) + Len(Content(items[i])))

(* However the input is cut into chunks, no byte is skipped or read twice: *)
(* the next byte to read is the first of the next item.                    *)
PlaceKept == stream.at - (stream.tail - stream.head) = Starts(Len(results) + 1)

(* Every value is what the sender wrote, however the input is cut into     *)
(* chunks.  Only an unsafe value that ended exactly with its chunk may     *)
(* show the bytes of the next one, for its closing byte is read before the *)
(* value is used (readUnsafeBytes and ReadUnsafeString).                   *)
ValuesIntact ==
  \A i \in DOMAIN results :
    \/ results[i].data = Wanted(i)
    \/ items[i].op \in {"unsafeBytes", "unsafeString"} /\ results[i].edge
=============================================================================

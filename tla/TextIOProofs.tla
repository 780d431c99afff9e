---------------------------- MODULE TextIOProofs ----------------------------
(***************************************************************************)
(* Theorems about TextForms and ByteStream, for integers of any width,     *)
(* strings and inputs of any length, and any buffer: no value changes by   *)
(* the way the input is cut into chunks; integers read back as they were   *)
(* written, and strings are measured alike on both sides.  The loops of    *)
(* the code are functions of their rounds: those over chunks come first,   *)
(* then those over digits and characters.                                  *)
(***************************************************************************)
EXTENDS TextIO, InductionLemmas, SequenceTheorems

-----------------------------------------------------------------------------
(* The input and the buffer                                                *)

Byte == Int \X Nat

(* The input and the chunks, as they start.                                *)
InputOK ==
  /\ input \in Seq(Byte)
  /\ chunks \in [0..(Period - 1) -> MinChunk..BufSize]

(* The bytes of the input from place a on, up to place b.                  *)
Seg(a, b) == SubSeq(input, a + 1, b)

(* It is a sequence of so many bytes.                                      *)
LEMMA SegIs ==
  ASSUME InputOK, NEW a \in Nat, NEW b \in Nat, a <= b, b <= Len(input)
  PROVE  /\ Seg(a, b) \in Seq(Byte) /\ Len(Seg(a, b)) = b - a
         /\ \A i \in 1..(b - a) : Seg(a, b)[i] = input[a + i]
<1>1. PICK m : m \in Int /\ m = a + 1
  OBVIOUS
<1>2. \A i \in m..b : input[i] \in Byte
  BY <1>1 DEF InputOK
<1>3. /\ SubSeq(input, m, b) \in Seq(Byte)
      /\ Len(SubSeq(input, m, b)) = IF m <= b THEN b - m + 1 ELSE 0
      /\ \A i \in 1..(b - m + 1) : SubSeq(input, m, b)[i] = input[m + i - 1]
  BY <1>1, <1>2, SubSeqProperties
<1>4. PICK s : s = SubSeq(input, m, b) /\ s = Seg(a, b)
  BY <1>1 DEF Seg
<1>5. Len(s) = b - a
  BY <1>1, <1>3, <1>4
<1>6. \A i \in 1..(b - a) : s[i] = input[a + i]
  BY <1>1, <1>3, <1>4
<1> QED
  BY <1>3, <1>4, <1>5, <1>6

(* A sequence with the same bytes is the same.                             *)
LEMMA SegSame ==
  ASSUME InputOK, NEW a \in Nat, NEW b \in Nat, a <= b, b <= Len(input),
         NEW S, NEW s \in Seq(S), Len(s) = b - a, \A i \in 1..(b - a) : s[i] = input[a + i]
  PROVE  s = Seg(a, b)
<1>1. PICK t : t = Seg(a, b)
  OBVIOUS
<1>2. t \in Seq(Byte) /\ Len(t) = b - a /\ \A i \in 1..(b - a) : t[i] = input[a + i]
  BY <1>1, SegIs
<1>3. s \in Seq(S \cup Byte) /\ t \in Seq(S \cup Byte)
  BY <1>2
<1>4. Len(s) = Len(t) /\ \A i \in 1..Len(s) : s[i] = t[i]
  BY <1>2
<1>5. s = t
  BY <1>3, <1>4, SeqEqual
<1> QED
  BY <1>1, <1>5

(* What comes next, one after the other.                                   *)
LEMMA SegJoin ==
  ASSUME InputOK, NEW a \in Nat, NEW b \in Nat, NEW c \in Nat, a <= b, b <= c, c <= Len(input)
  PROVE  Seg(a, b) \o Seg(b, c) = Seg(a, c)
<1>0. Len(input) \in Nat /\ b <= Len(input)
  BY DEF InputOK
<1>1. PICK s, t, u : s = Seg(a, b) /\ t = Seg(b, c) /\ u = s \o t
  OBVIOUS
<1>2. s \in Seq(Byte) /\ Len(s) = b - a /\ \A i \in 1..(b - a) : s[i] = input[a + i]
  BY <1>0, <1>1, SegIs
<1>3. t \in Seq(Byte) /\ Len(t) = c - b /\ \A i \in 1..(c - b) : t[i] = input[b + i]
  BY <1>1, SegIs
<1>4. /\ u \in Seq(Byte) /\ Len(u) = Len(s) + Len(t)
      /\ \A i \in 1..(Len(s) + Len(t)) : u[i] = IF i <= Len(s) THEN s[i] ELSE t[i - Len(s)]
  <2> SUFFICES /\ s \o t \in Seq(Byte) /\ Len(s \o t) = Len(s) + Len(t)
               /\ \A i \in 1..(Len(s) + Len(t)) : (s \o t)[i] = IF i <= Len(s) THEN s[i] ELSE t[i - Len(s)]
    BY <1>1
  <2> QED
    BY <1>2, <1>3, ConcatProperties
<1>5. Len(u) = c - a
  BY <1>2, <1>3, <1>4
<1>6. ASSUME NEW i \in 1..(c - a) PROVE u[i] = input[a + i]
  <2>1. CASE i <= b - a
    BY <1>2, <1>3, <1>4, <2>1
  <2>2. CASE i > b - a
    <3>1. PICK j \in 1..(c - b) : j = i - (b - a) /\ b + j = a + i
      BY <2>2
    <3>2. u[i] = t[i - Len(s)]
      BY <1>2, <1>3, <1>4, <2>2
    <3>3. u[i] = t[j]
      BY <1>2, <3>1, <3>2
    <3> QED
      BY <1>3, <3>1, <3>3
  <2> QED
    BY <2>1, <2>2
<1>7. u = Seg(a, c)
  BY <1>4, <1>5, <1>6, SegSame
<1> QED
  BY <1>1, <1>7

(* It is empty when the places are the same.                               *)
LEMMA SegEmpty ==
  ASSUME InputOK, NEW a \in Nat, NEW b \in Nat, a <= b, b <= Len(input)
  PROVE  Seg(a, b) = <<>> <=> a = b
<1>1. PICK s : s = Seg(a, b)
  OBVIOUS
<1>2. s \in Seq(Byte) /\ Len(s) = b - a
  BY <1>1, SegIs
<1>3. s = <<>> <=> Len(s) = 0
  BY <1>2
<1> QED
  BY <1>1, <1>2, <1>3

(* A buffer that holds what the reader delivered last.                     *)
Buffers == [buf : [1..BufSize -> Byte], head : Int, tail : 0..BufSize, at : 0..Len(input), loads : Nat, err : {"nil"}]

Window(d) ==
  /\ d \in Buffers /\ d.tail <= d.at
  /\ \A i \in 1..d.tail : d.buf[i] = input[(d.at - d.tail) + i]

(* The next byte to read is the one after place p.                         *)
Holds(d, p) == Window(d) /\ 0 <= d.head /\ d.head <= d.tail /\ p = (d.at - d.tail) + d.head

(* The numbers of a buffer.                                                *)
LEMMA WindowType ==
  ASSUME InputOK, NEW d, Window(d)
  PROVE  /\ d.buf \in [1..BufSize -> Byte] /\ d.head \in Int /\ d.tail \in Nat /\ d.tail <= BufSize
         /\ d.at \in Nat /\ d.at <= Len(input) /\ d.tail <= d.at /\ d.loads \in Nat /\ d.err = "nil"
         /\ Len(input) \in Nat /\ BufSize \in Nat /\ d.at - d.tail \in Nat
<1>1. Len(input) \in Nat /\ BufSize \in Nat
  BY StreamAssumption DEF InputOK
<1>2. d \in Buffers /\ d.tail <= d.at
  BY DEF Window
<1>3. /\ d.buf \in [1..BufSize -> Byte] /\ d.head \in Int /\ d.tail \in 0..BufSize
      /\ d.at \in 0..Len(input) /\ d.loads \in Nat /\ d.err = "nil"
  BY <1>2 DEF Buffers
<1> QED
  BY <1>1, <1>2, <1>3

(* What is cut out of the buffer is a part of the input.                   *)
LEMMA BytesAre ==
  ASSUME InputOK, NEW d, Window(d), NEW a \in Nat, NEW b \in Nat, a <= b, b <= d.tail
  PROVE  Stream!Bytes(d, a, b) = Seg((d.at - d.tail) + a, (d.at - d.tail) + b)
<1>1. /\ d.buf \in [1..BufSize -> Byte] /\ d.tail \in Nat /\ d.tail <= BufSize /\ d.at \in Nat /\ d.at <= Len(input)
      /\ Len(input) \in Nat /\ BufSize \in Nat /\ d.at - d.tail \in Nat
  BY WindowType
<1>2. PICK o \in Nat : o = d.at - d.tail
  BY <1>1
<1>3. PICK m : m \in Int /\ m = a + 1
  OBVIOUS
<1>4. \A i \in m..b : d.buf[i] \in Byte
  BY <1>1, <1>3
<1>5. /\ SubSeq(d.buf, m, b) \in Seq(Byte)
      /\ Len(SubSeq(d.buf, m, b)) = IF m <= b THEN b - m + 1 ELSE 0
      /\ \A i \in 1..(b - m + 1) : SubSeq(d.buf, m, b)[i] = d.buf[m + i - 1]
  BY <1>3, <1>4, SubSeqProperties
<1>6. PICK s : s = SubSeq(d.buf, m, b) /\ s = Stream!Bytes(d, a, b)
  BY <1>3 DEF Stream!Bytes
<1>7. o + a \in Nat /\ o + b \in Nat
  BY <1>2
<1>8. PICK x, y \in Nat : x = o + a /\ y = o + b
  BY <1>7
<1>9. x <= y /\ y <= Len(input) /\ y - x = b - a
  <2>1. PICK l, c, e \in Nat : l = d.tail /\ c = d.at /\ e = Len(input)
    BY <1>1
  <2>2. o = c - l /\ b <= l /\ c <= e
    BY <1>1, <1>2, <2>1
  <2> QED
    <3>1. y <= c
      BY <1>8, <2>2
    <3>2. y <= Len(input)
      BY <2>1, <2>2, <3>1
    <3>3. x <= y /\ y - x = b - a
      BY <1>8
    <3> QED
      BY <3>2, <3>3
<1>10. s \in Seq(Byte) /\ Len(s) = y - x
  BY <1>3, <1>5, <1>6, <1>9
<1>11. ASSUME NEW i \in 1..(y - x) PROVE s[i] = input[x + i]
  <2>1. PICK j \in 1..d.tail : j = a + i
    BY <1>1, <1>9
  <2>2. s[i] = d.buf[j]
    BY <1>3, <1>5, <1>6, <1>9, <2>1
  <2>3. d.buf[j] = input[o + j]
    BY <1>2, <2>1 DEF Window
  <2>4. o + j = x + i
    BY <1>2, <1>8, <2>1
  <2> QED
    BY <2>2, <2>3, <2>4
<1>12. s = Seg(x, y)
  BY <1>9, <1>10, <1>11, SegSame
<1> QED
  BY <1>2, <1>6, <1>8, <1>12

(* The less of two numbers.                                                *)
LEMMA MinOfTwo ==
  ASSUME NEW a \in Int, NEW b \in Int
  PROVE  Stream!Min({a, b}) = IF a <= b THEN a ELSE b
<1>1. PICK m : m = IF a <= b THEN a ELSE b
  OBVIOUS
<1>2. m \in {a, b} /\ \A y \in {a, b} : m <= y
  BY <1>1
<1>3. \A x \in {a, b} : (\A y \in {a, b} : x <= y) => x = m
  BY <1>1
<1>4. Stream!Min({a, b}) = m
  BY <1>2, <1>3 DEF Stream!Min
<1> QED
  BY <1>1, <1>4

(* The reader has delivered the next bytes: at least one, and at least     *)
(* MinChunk or all that are left.                                          *)
Loaded(d, e) ==
  /\ Window(e) /\ e.head = 0 /\ e.tail > 0 /\ e.at - e.tail = d.at
  /\ e.tail >= MinChunk \/ e.at = Len(input)

(* loadMore goes on where it was, as long as the input does.               *)
LEMMA LoadMore ==
  ASSUME InputOK, NEW d, Window(d), d.at < Len(input)
  PROVE  Stream!loadMore(d).ok /\ Loaded(d, Stream!loadMore(d).d)
<1>0. /\ d.buf \in [1..BufSize -> Byte] /\ d.at \in Nat /\ Len(input) \in Nat /\ BufSize \in Nat
      /\ d.loads \in Nat /\ d.err = "nil" /\ d \in Buffers
  BY WindowType DEF Window
<1>1. PICK len \in Nat : len = Len(input)
  BY <1>0
<1>2. PICK o \in Nat : o = d.at /\ o < len
  BY <1>0, <1>1
<1>3. MinChunk \in 1..BufSize /\ BufSize \in Nat
  BY StreamAssumption
<1>4. PICK c \in MinChunk..BufSize : c = chunks[d.loads % Period]
  <2>1. Period \in Nat \ {0}
    BY StreamAssumption
  <2>2. d.loads % Period \in 0..(Period - 1)
    BY <1>0, <2>1
  <2> QED
    BY <2>2 DEF InputOK
<1>5. PICK r \in Nat : r = len - o /\ r > 0
  BY <1>2
<1>6. PICK n : n = Stream!Min({chunks[d.loads % Period], Len(input) - d.at})
  OBVIOUS
<1>7. n = IF c <= r THEN c ELSE r
  <2>1. c \in Int /\ r \in Int
    BY <1>3, <1>5
  <2>2. n = Stream!Min({c, r})
    BY <1>1, <1>2, <1>4, <1>5, <1>6
  <2> QED
    BY <2>1, <2>2, MinOfTwo
<1>8. n \in Nat /\ n > 0 /\ n <= BufSize /\ o + n <= len /\ (n >= MinChunk \/ o + n = len)
  <2>1. CASE c <= r
    <3>1. n = c /\ c \in Nat /\ c > 0 /\ c >= MinChunk /\ c <= BufSize
      BY <1>3, <1>7, <2>1
    <3> QED
      BY <1>2, <1>5, <2>1, <3>1
  <2>2. CASE ~(c <= r)
    <3>1. n = r /\ c \in Nat /\ r < c /\ c <= BufSize
      BY <1>3, <1>5, <1>7, <2>2
    <3> QED
      BY <1>2, <1>3, <1>5, <3>1
  <2> QED
    BY <2>1, <2>2
<1>9. PICK b : b = [i \in 1..BufSize |-> IF i <= n THEN input[d.at + i] ELSE d.buf[i]]
  OBVIOUS
<1>10. b \in [1..BufSize -> Byte] /\ \A i \in 1..n : b[i] = input[o + i]
  <2>1. \A i \in 1..n : input[o + i] \in Byte
    BY <1>1, <1>2, <1>8 DEF InputOK
  <2> QED
    BY <1>0, <1>2, <1>8, <1>9, <2>1
<1>11. PICK k, a : k = d.loads + 1 /\ a = o + n /\ k \in Nat /\ a \in 0..len
  BY <1>0, <1>2, <1>8
<1>12. PICK e : e = [buf |-> b, head |-> 0, tail |-> n, at |-> a, loads |-> k, err |-> "nil"]
  OBVIOUS
<1>13. e \in Buffers
  <2>1. n \in 0..BufSize
    BY <1>0, <1>8
  <2> QED
    BY <1>1, <1>10, <1>11, <1>12, <2>1 DEF Buffers
<1>14. /\ e.head = 0 /\ e.tail = n /\ e.at = a /\ e.buf = b /\ e.err = "nil"
  BY <1>12
<1>15. e = [buf |-> [i \in 1..BufSize |-> IF i <= n THEN input[d.at + i] ELSE d.buf[i]],
            head |-> 0, tail |-> n, at |-> d.at + n, loads |-> d.loads + 1, err |-> d.err]
  BY <1>0, <1>2, <1>9, <1>11, <1>12
<1>16. Stream!loadMore(d) = [d |-> e, ok |-> TRUE]
  <2>1. n > 0 /\ n # 0
    BY <1>8
  <2>2. Stream!loadMore(d) = [d |-> IF n = 0 /\ e.err = "nil" THEN [e EXCEPT !.err = "EOF"] ELSE e, ok |-> n > 0]
    BY <1>6, <1>15 DEF Stream!loadMore
  <2> QED
    BY <2>1, <2>2
<1>17. Loaded(d, e)
  <2>1. e.at - e.tail = o /\ e.tail <= e.at
    BY <1>2, <1>8, <1>11, <1>14
  <2>2. \A i \in 1..e.tail : e.buf[i] = input[(e.at - e.tail) + i]
    BY <1>10, <1>14, <2>1
  <2>3. Window(e)
    BY <1>13, <2>1, <2>2 DEF Window
  <2> QED
    BY <1>1, <1>2, <1>8, <1>11, <1>14, <2>1, <2>3 DEF Loaded
<1> QED
  BY <1>16, <1>17

(* Only the place in the buffer moves.                                     *)
Moved(d, h) == [d EXCEPT !.head = h]

(* The rest of the buffer is as it was.                                    *)
LEMMA HeadMoves ==
  ASSUME NEW d, Window(d), NEW h \in Int
  PROVE  /\ Window(Moved(d, h)) /\ Moved(d, h).head = h /\ Moved(d, h).tail = d.tail
         /\ Moved(d, h).at = d.at /\ Moved(d, h).buf = d.buf /\ Moved(d, h).err = d.err
<1>1. d \in Buffers
  BY DEF Window
<1>2. PICK e : e = Moved(d, h)
  OBVIOUS
<1>3. e \in Buffers /\ e.head = h /\ e.tail = d.tail /\ e.at = d.at /\ e.buf = d.buf /\ e.err = d.err
  BY <1>1, <1>2 DEF Buffers, Moved
<1>4. Window(e)
  BY <1>3 DEF Window
<1> QED
  BY <1>2, <1>3, <1>4

(* The place after the bytes in the buffer that were read.                 *)
LEMMA MovesTo ==
  ASSUME InputOK, NEW d, Window(d), NEW h \in Nat, h <= d.tail, NEW p, p = (d.at - d.tail) + h
  PROVE  Holds(Moved(d, h), p)
BY HeadMoves, h \in Int DEF Holds

(* A part of what comes next.                                              *)
LEMMA SegPart ==
  ASSUME InputOK, NEW a \in Nat, NEW b \in Nat, NEW c \in Nat, a <= b, b <= c, c <= Len(input)
  PROVE  SubSeq(Seg(a, c), 1, b - a) = Seg(a, b)
<1>0. Len(input) \in Nat /\ a <= c /\ b <= Len(input)
  BY DEF InputOK
<1>1. PICK s : s = Seg(a, c)
  OBVIOUS
<1>2. s \in Seq(Byte) /\ Len(s) = c - a /\ \A i \in 1..(c - a) : s[i] = input[a + i]
  BY <1>0, <1>1, SegIs
<1>3. PICK n \in Nat : n = b - a /\ n <= c - a
  <2>1. b - a \in Nat /\ b - a <= c - a
    OBVIOUS
  <2> QED
    BY <2>1
<1>4. \A i \in 1..n : s[i] \in Byte
  BY <1>2, <1>3
<1>5. /\ SubSeq(s, 1, n) \in Seq(Byte)
      /\ Len(SubSeq(s, 1, n)) = IF 1 <= n THEN n - 1 + 1 ELSE 0
      /\ \A i \in 1..(n - 1 + 1) : SubSeq(s, 1, n)[i] = s[1 + i - 1]
  BY <1>3, <1>4, SubSeqProperties
<1>6. PICK t : t = SubSeq(s, 1, n)
  OBVIOUS
<1>7. t \in Seq(Byte) /\ Len(t) = b - a
  BY <1>3, <1>5, <1>6
<1>8. ASSUME NEW i \in 1..(b - a) PROVE t[i] = input[a + i]
  <2>1. t[i] = s[i]
    BY <1>3, <1>5, <1>6
  <2> QED
    BY <1>2, <1>3, <2>1
<1>9. t = Seg(a, b)
  BY <1>0, <1>7, <1>8, SegSame
<1> QED
  BY <1>1, <1>3, <1>6, <1>9

(* Filled: something to read, at the same place.                           *)
LEMMA FilledIs ==
  ASSUME InputOK, NEW d, NEW p, Holds(d, p), p < Len(input)
  PROVE  /\ Stream!Filled(d).ok /\ Holds(Stream!Filled(d).d, p)
         /\ Stream!Filled(d).d.head < Stream!Filled(d).d.tail
         /\ d.head # d.tail => Stream!Filled(d).d = d
<1>1. Window(d) /\ 0 <= d.head /\ d.head <= d.tail /\ p = (d.at - d.tail) + d.head
  BY DEF Holds
<1>2. /\ d.head \in Int /\ d.tail \in Nat /\ d.at \in Nat /\ d.at <= Len(input) /\ Len(input) \in Nat
  BY <1>1, WindowType
<1>3. CASE d.head = d.tail
  <2>1. d.at = p /\ d.at < Len(input)
    BY <1>1, <1>2, <1>3
  <2>2. PICK e : e = Stream!loadMore(d).d
    OBVIOUS
  <2>3. Stream!loadMore(d).ok /\ Loaded(d, e)
    BY <1>1, <2>1, <2>2, LoadMore
  <2>4. Stream!Filled(d) = Stream!loadMore(d)
    BY <1>3 DEF Stream!Filled
  <2>5. Window(e) /\ e.head = 0 /\ e.tail > 0 /\ e.at - e.tail = p
    BY <2>1, <2>3 DEF Loaded
  <2>6. e.tail \in Nat /\ e.at \in Nat
    BY <2>5, WindowType
  <2>7. Holds(e, p)
    BY <2>5, <2>6 DEF Holds
  <2> QED
    BY <1>3, <2>2, <2>3, <2>4, <2>5, <2>6, <2>7
<1>4. CASE d.head # d.tail
  <2>1. Stream!Filled(d) = [d |-> d, ok |-> TRUE]
    BY <1>4 DEF Stream!Filled
  <2> QED
    BY <1>1, <1>2, <1>4, <2>1
<1> QED
  BY <1>3, <1>4

(* Skip: the next byte is over.                                            *)
LEMMA SkipIsOne ==
  ASSUME InputOK, NEW d, NEW p \in Nat, Holds(d, p), p < Len(input)
  PROVE  /\ Holds(Stream!Skip(d), p + 1)
         /\ d.head # d.tail => Stream!Skip(d).buf = d.buf
<1>1. PICK f : f = Stream!Filled(d).d
  OBVIOUS
<1>2. Stream!Filled(d).ok /\ Holds(f, p) /\ f.head < f.tail /\ (d.head # d.tail => f = d)
  BY <1>1, FilledIs
<1>3. Window(f) /\ 0 <= f.head /\ p = (f.at - f.tail) + f.head
  BY <1>2 DEF Holds
<1>4. f.head \in Int /\ f.tail \in Nat /\ f.at \in Nat
  BY <1>3, WindowType
<1>5. PICK h \in Nat : h = f.head + 1
  BY <1>3, <1>4
<1>6. Stream!Skip(d) = Moved(f, h)
  BY <1>1, <1>2, <1>5 DEF Stream!Skip, Moved
<1>7. h <= f.tail /\ p + 1 = (f.at - f.tail) + h
  BY <1>2, <1>3, <1>4, <1>5
<1>8. Holds(Moved(f, h), p + 1)
  BY <1>3, <1>7, MovesTo
<1>9. Moved(f, h).buf = f.buf
  BY <1>3, HeadMoves
<1> QED
  BY <1>2, <1>6, <1>8, <1>9

(* Finds(s, n, Yes): n is where s first has one of Yes, or 0.              *)
Finds(s, n, Yes) ==
  \/ n = 0 /\ \A i \in 1..Len(s) : s[i] \notin Yes
  \/ n \in 1..Len(s) /\ s[n] \in Yes /\ \A i \in 1..(n - 1) : s[i] \notin Yes

Closings == {b \in Byte : Stream!Ends(b)}
Others == {b \in Byte : Stream!NoDigit(b)}

(* The least place of one of Yes is the first.                             *)
LEMMA LeastOf ==
  ASSUME NEW s \in Seq(Byte), NEW Yes, NEW I, I = {i \in 1..Len(s) : s[i] \in Yes}
  PROVE  Finds(s, IF I # {} THEN Stream!Min(I) ELSE 0, Yes)
<1>1. CASE I = {}
  BY <1>1 DEF Finds
<1>2. CASE I # {}
  <2>1. I \in SUBSET Nat
    OBVIOUS
  <2>2. PICK m \in I : \A k \in I : m <= k
    BY <1>2, <2>1, Least
  <2>3. \A x \in I : (\A y \in I : x <= y) => x = m
    BY <2>1, <2>2
  <2>4. Stream!Min(I) = m
    BY <2>2, <2>3 DEF Stream!Min
  <2>5. m \in 1..Len(s) /\ s[m] \in Yes
    BY <2>2
  <2>6. \A i \in 1..(m - 1) : s[i] \notin Yes
    BY <2>2, <2>5
  <2> QED
    BY <1>2, <2>4, <2>5, <2>6 DEF Finds
<1> QED
  BY <1>1, <1>2

(* The first byte that ends a value, and the first that is no digit.       *)
LEMMA ClosingFound ==
  ASSUME NEW s \in Seq(Byte)
  PROVE  Finds(s, Stream!SelectInSeq(s, Stream!Ends), Closings)
<1>1. PICK I : I = {i \in 1..Len(s) : Stream!Ends(s[i])}
  OBVIOUS
<1>2. I = {i \in 1..Len(s) : s[i] \in Closings}
  BY <1>1 DEF Closings
<1>3. Stream!SelectInSeq(s, Stream!Ends) = IF I # {} THEN Stream!Min(I) ELSE 0
  BY <1>1 DEF Stream!SelectInSeq
<1> QED
  BY <1>2, <1>3, LeastOf

(* The first byte that is no digit.                                        *)
LEMMA OtherFound ==
  ASSUME NEW s \in Seq(Byte)
  PROVE  Finds(s, Stream!SelectInSeq(s, Stream!NoDigit), Others)
<1>1. PICK I : I = {i \in 1..Len(s) : Stream!NoDigit(s[i])}
  OBVIOUS
<1>2. I = {i \in 1..Len(s) : s[i] \in Others}
  BY <1>1 DEF Others
<1>3. Stream!SelectInSeq(s, Stream!NoDigit) = IF I # {} THEN Stream!Min(I) ELSE 0
  BY <1>1 DEF Stream!SelectInSeq
<1> QED
  BY <1>2, <1>3, LeastOf

(* In a part of the input, the first of Yes is the one after place e, or   *)
(* comes later.                                                            *)
LEMMA FirstOf ==
  ASSUME InputOK, NEW a \in Nat, NEW b \in Nat, NEW e \in Nat, a <= b, b <= Len(input), a <= e, e < Len(input),
         NEW Yes, input[e + 1] \in Yes, \A i \in (a + 1)..e : input[i] \notin Yes,
         NEW n, Finds(Seg(a, b), n, Yes)
  PROVE  IF e < b THEN n = (e - a) + 1 ELSE n = 0
<1>0. Len(input) \in Nat
  BY DEF InputOK
<1>1. PICK s : s = Seg(a, b)
  OBVIOUS
<1>2. Len(s) = b - a /\ \A i \in 1..(b - a) : s[i] = input[a + i]
  BY <1>0, <1>1, SegIs
<1>3. Finds(s, n, Yes)
  BY <1>1
<1>4. CASE e < b
  <2>1. PICK m \in 1..(b - a) : m = (e - a) + 1 /\ a + m = e + 1
    <3>1. (e - a) + 1 \in 1..(b - a)
      BY <1>4
    <3> QED
      BY <3>1
  <2>2. s[m] \in Yes
    BY <1>2, <2>1
  <2>3. \A i \in 1..(m - 1) : s[i] \notin Yes
    <3> SUFFICES ASSUME NEW i \in 1..(m - 1) PROVE s[i] \notin Yes
      OBVIOUS
    <3>1. i \in 1..(b - a) /\ a + i \in (a + 1)..e
      BY <2>1
    <3> QED
      BY <1>2, <3>1
  <2>4. n # 0
    BY <1>2, <1>3, <2>1, <2>2 DEF Finds
  <2>5. n \in 1..(b - a) /\ s[n] \in Yes /\ \A i \in 1..(n - 1) : s[i] \notin Yes
    BY <1>2, <1>3, <2>4 DEF Finds
  <2>6. n = m
    BY <2>1, <2>2, <2>3, <2>5
  <2> QED
    BY <1>4, <2>1, <2>6
<1>5. CASE ~(e < b)
  <2>1. ASSUME NEW i \in 1..(b - a) PROVE s[i] \notin Yes
    <3>1. a + i \in (a + 1)..e
      BY <1>5
    <3> QED
      BY <1>2, <3>1
  <2>2. n = 0
    BY <1>2, <1>3, <2>1 DEF Finds
  <2> QED
    BY <1>5, <2>2
<1> QED
  BY <1>4, <1>5

-----------------------------------------------------------------------------
(* The loops                                                               *)

(* A loop that is in a good state until it is left, and each time reads    *)
(* something, is left in time: it has as many rounds as there are bytes.   *)
InLoop(loop, Good, Last) ==
  \A r \in Good : /\ r.x = <<>> /\ r.d.at \in 0..Len(input)
                  /\ \/ Stream!Round(loop, r) \in Last
                     \/ Stream!Round(loop, r) \in Good /\ Stream!Round(loop, r).d.at > r.d.at

(* Then the loop is left within its rounds.                                *)
LEMMA RoundsEnd ==
  ASSUME InputOK, NEW loop, NEW Good, NEW Last, NEW q \in Good, InLoop(loop, Good, Last), \A r \in Last : r.x # <<>>
  PROVE  Stream!Rounds(loop, q) \in Last
<1> DEFINE Is(g) == g = [k \in 0..(Len(input) + 1) |-> IF k = 0 THEN q ELSE Stream!Round(loop, g[k - 1])]
<1>1. PICK h : h = CHOOSE F : Is(F)
  OBVIOUS
<1>2. Stream!Rounds(loop, q) = h[Len(input) + 1]
  BY <1>1 DEF Stream!Rounds
<1>3. PICK n \in Nat : n = Len(input) + 1
  <2>1. Len(input) + 1 \in Nat
    BY DEF InputOK
  <2> QED
    BY <2>1
<1>4. PICK V : V = Good \cup Last
  OBVIOUS
<1>5. ASSUME NEW r \in V PROVE Stream!Round(loop, r) \in V
  <2>1. CASE r \in Good
    BY <1>4, <2>1 DEF InLoop
  <2>2. CASE r \in Last
    <3>1. Stream!Round(loop, r) = r
      BY <2>2 DEF Stream!Round
    <3> QED
      BY <1>4, <2>2, <3>1
  <2> QED
    BY <1>4, <2>1, <2>2
<1>6. PICK next : next = [p \in (1..n) \X V |-> Stream!Round(loop, p[2])]
  OBVIOUS
<1>7. next \in [(1..n) \X V -> V]
  BY <1>5, <1>6
<1>8. PICK f : Steps(f, V, n, q, next)
  BY <1>4, <1>7, StepsExist
<1>9. ASSUME NEW k \in 1..n PROVE f[k] = Stream!Round(loop, f[k - 1]) /\ f[k - 1] \in V
  <2>1. k - 1 \in 0..n
    OBVIOUS
  <2>2. f[k - 1] \in V /\ f[k] = next[<<k, f[k - 1]>>]
    BY <1>8, <2>1 DEF Steps
  <2> QED
    BY <1>6, <2>2
<1>10. f \in [0..n -> V] /\ f[0] = q
  BY <1>8 DEF Steps
<1>11. Is(f)
  <2>1. \A k \in 0..n : f[k] = IF k = 0 THEN q ELSE Stream!Round(loop, f[k - 1])
    BY <1>9, <1>10
  <2>2. f = [k \in 0..n |-> f[k]]
    BY <1>10
  <2> QED
    BY <1>3, <2>1, <2>2
<1>12. Is(h)
  <2> HIDE DEF Is
  <2> QED
    BY <1>1, <1>11
<1>13. h = f
  <2>1. UpTo(h, n) /\ UpTo(f, n)
    BY <1>3, <1>10, <1>12 DEF UpTo
  <2>2. \A k \in 0..n : h[k] = IF k = 0 THEN q ELSE Stream!Round(loop, h[k - 1])
    BY <1>3, <1>12
  <2> HIDE DEF Is
  <2>3. h[0] = f[0]
    BY <1>10, <2>2
  <2>4. \A k \in 1..n : h[k] = Stream!Round(loop, h[k - 1])
    BY <2>2
  <2>5. \A k \in 1..n : h[k - 1] = f[k - 1] => h[k] = f[k]
    BY <1>9, <2>4
  <2> QED
    BY <2>1, <2>3, <2>5, SameSteps
<1> HIDE DEF Is
<1>14. PICK S : S = {k \in Nat : k <= n => f[k] \in Last \/ (f[k] \in Good /\ f[k].d.at >= k)}
  OBVIOUS
<1>15. 0 \in S
  <2>1. q.d.at \in 0..Len(input)
    BY DEF InLoop
  <2>2. q.d.at >= 0
    BY <1>3, <2>1 DEF InputOK
  <2> QED
    BY <1>10, <1>14, <2>2
<1>16. ASSUME NEW k \in Nat, k \in S PROVE k + 1 \in S
  <2> SUFFICES ASSUME k + 1 <= n PROVE f[k + 1] \in Last \/ (f[k + 1] \in Good /\ f[k + 1].d.at >= k + 1)
    BY <1>14
  <2>1. PICK j \in 1..n : j = k + 1 /\ j - 1 = k
    OBVIOUS
  <2>2. f[j] = Stream!Round(loop, f[k])
    BY <1>9, <2>1
  <2>3. CASE f[k] \in Last
    <3>1. Stream!Round(loop, f[k]) = f[k]
      BY <2>3 DEF Stream!Round
    <3> QED
      BY <2>1, <2>2, <2>3, <3>1
  <2>4. CASE f[k] \in Good /\ f[k].d.at >= k
    <3>1. \/ f[j] \in Last
          \/ f[j] \in Good /\ f[j].d.at > f[k].d.at
      BY <2>2, <2>4 DEF InLoop
    <3>2. CASE f[j] \in Good /\ f[j].d.at > f[k].d.at
      <4>1. f[k].d.at \in Int /\ f[j].d.at \in Int
        BY <2>4, <3>2 DEF InLoop
      <4>2. f[j].d.at >= k + 1
        BY <2>4, <3>2, <4>1
      <4> QED
        BY <2>1, <3>2, <4>2
    <3> QED
      BY <2>1, <3>1, <3>2
  <2> QED
    BY <1>14, <1>16, <2>1, <2>3, <2>4
<1>17. Nat \subseteq S
  BY <1>15, <1>16, Induction
<1>18. f[n] \in Last
  <2>1. f[n] \in Last \/ (f[n] \in Good /\ f[n].d.at >= n)
    BY <1>14, <1>17
  <2>2. ASSUME f[n] \in Good, f[n].d.at >= n PROVE FALSE
    <3>1. f[n].d.at \in 0..Len(input) /\ Len(input) \in Nat
      BY <2>2 DEF InLoop, InputOK
    <3> QED
      BY <1>3, <2>2, <3>1
  <2> QED
    BY <2>1, <2>2
<1> QED
  BY <1>2, <1>3, <1>13, <1>18

(* The states of a loop.                                                   *)
Looping == [d : Buffers, n : Int, data : Seq(Byte), x : {<<>>}]

(* What is cut out of the buffer, or was copied, is the part of the input  *)
(* from place p to place e; the next byte to read is after place y.        *)
Cut(r, p, e, y) == Holds(r.d, y) /\ r.x # <<>> /\ Stream!Look(r.d, r.x) = Seg(p, e)

(* A value that was cut out is not the <<>> of a loop that goes on.        *)
LEMMA NotEmpty == (\A a, b : <<a, b>> # <<>>) /\ (\A a, b, c : <<a, b, c>> # <<>>)
OBVIOUS

(* Enter makes a state of a loop.                                          *)
LEMMA EnterIs ==
  ASSUME NEW d, Window(d), NEW n \in Int, NEW data \in Seq(Byte)
  PROVE  /\ Stream!Enter(d, n, data) \in Looping
         /\ Stream!Enter(d, n, data).d = d /\ Stream!Enter(d, n, data).n = n
         /\ Stream!Enter(d, n, data).data = data /\ Stream!Enter(d, n, data).x = <<>>
BY DEF Stream!Enter, Looping, Window

(* Leave keeps a copy, which is the part it was given.                     *)
LEMMA LeaveIs ==
  ASSUME NEW d, NEW data, NEW p, NEW e, NEW y, Holds(d, y), data = Seg(p, e)
  PROVE  Cut(Stream!Leave(d, data), p, e, y)
BY DEF Stream!Leave, Stream!Look, Cut

(* So a loop that cuts the right part when it is left cuts it.             *)
LEMMA LoopCuts ==
  ASSUME InputOK, NEW loop, NEW Good, NEW q \in Good, NEW p, NEW e, NEW y,
         \A r \in Good : /\ r.x = <<>> /\ r.d.at \in 0..Len(input)
                         /\ \/ Cut(Stream!Round(loop, r), p, e, y)
                            \/ Stream!Round(loop, r) \in Good /\ Stream!Round(loop, r).d.at > r.d.at
  PROVE  Cut(Stream!Rounds(loop, q), p, e, y)
<1>1. PICK Last : Last = {s \in {Stream!Round(loop, r) : r \in Good} : Cut(s, p, e, y)}
  OBVIOUS
<1>2. InLoop(loop, Good, Last)
  BY <1>1 DEF InLoop
<1>3. \A r \in Last : r.x # <<>> /\ Cut(r, p, e, y)
  BY <1>1 DEF Cut
<1>4. Stream!Rounds(loop, q) \in Last
  BY <1>2, <1>3, RoundsEnd
<1> QED
  BY <1>3, <1>4

(* next reads what is missing, which is n bytes.                           *)
NextLooping(p, e) ==
  {r \in Looping : Window(r.d) /\ p <= r.d.at /\ r.n >= 1 /\ r.d.at + r.n = e /\ r.data = Seg(p, r.d.at)}

(* So next ends with its n bytes.                                          *)
LEMMA NextLoop ==
  ASSUME InputOK, NEW p \in Nat, NEW e \in Nat, e <= Len(input), NEW q \in NextLooping(p, e)
  PROVE  Cut(Stream!Rounds("next", q), p, e, e)
<1> SUFFICES ASSUME NEW r \in NextLooping(p, e)
             PROVE  /\ r.x = <<>> /\ r.d.at \in 0..Len(input)
                    /\ \/ Cut(Stream!Round("next", r), p, e, e)
                       \/ Stream!Round("next", r) \in NextLooping(p, e) /\ Stream!Round("next", r).d.at > r.d.at
  BY LoopCuts
<1>1. /\ r.x = <<>> /\ r.n \in Int /\ r.data \in Seq(Byte) /\ Window(r.d)
      /\ p <= r.d.at /\ r.n >= 1 /\ r.d.at + r.n = e /\ r.data = Seg(p, r.d.at)
  BY DEF NextLooping, Looping
<1>2. r.d.at \in Nat /\ r.d.at <= Len(input) /\ Len(input) \in Nat
  BY <1>1, WindowType
<1>3. PICK a, n \in Nat : a = r.d.at /\ n = r.n /\ n >= 1 /\ a + n = e /\ a <= Len(input) /\ p <= a /\ a < Len(input)
  BY <1>1, <1>2
<1>4. PICK f : f = Stream!loadMore(r.d)
  OBVIOUS
<1>5. f.ok /\ Loaded(r.d, f.d)
  BY <1>1, <1>3, <1>4, LoadMore
<1>6. Window(f.d) /\ f.d.tail > 0 /\ f.d.at - f.d.tail = a /\ f.d.tail \in Nat /\ f.d.at \in Nat /\ f.d.at <= Len(input)
  BY <1>3, <1>5, WindowType DEF Loaded
<1>7. PICK t, b \in Nat : t = f.d.tail /\ b = f.d.at /\ b = a + t /\ t > 0 /\ b <= Len(input)
  BY <1>6
<1>7a. n >= 1 /\ a + n = e /\ p <= a /\ b = a + t /\ t > 0
  BY <1>3, <1>7
<1>8. Stream!Round("next", r) =
        IF t >= n THEN Stream!Leave(Moved(f.d, n), r.data \o Stream!Bytes(f.d, 0, n))
        ELSE Stream!Enter(f.d, n - t, r.data \o Stream!Bytes(f.d, 0, t))
  <2>1. Stream!Round("next", r) = Stream!nextRound(r)
    BY <1>1 DEF Stream!Round
  <2> QED
    BY <1>3, <1>4, <1>5, <1>7, <2>1 DEF Stream!nextRound, Moved
<1>9. ASSUME NEW m \in Nat, m <= t PROVE r.data \o Stream!Bytes(f.d, 0, m) = Seg(p, a + m)
  <2>1. Stream!Bytes(f.d, 0, m) = Seg((f.d.at - f.d.tail) + 0, (f.d.at - f.d.tail) + m)
    <3>1. 0 \in Nat /\ 0 <= m /\ m <= f.d.tail
      BY <1>7, <1>9
    <3> QED
      BY <1>6, <3>1, BytesAre
  <2>2. a + 0 = a /\ a + m \in Nat /\ a <= a + m /\ a + m <= Len(input)
    BY <1>2, <1>7, <1>9
  <2>3. Stream!Bytes(f.d, 0, m) = Seg(a, a + m)
    BY <1>6, <2>1, <2>2
  <2>4. Seg(p, a) \o Seg(a, a + m) = Seg(p, a + m)
    <3>1. PICK c \in Nat : c = a + m /\ a <= c /\ c <= Len(input)
      BY <2>2
    <3>2. Seg(p, a) \o Seg(a, c) = Seg(p, c)
      BY <1>7a, <3>1, SegJoin
    <3> QED
      BY <3>1, <3>2
  <2> QED
    BY <1>1, <1>3, <2>3, <2>4
<1>10. CASE t >= n
  <2>1. r.data \o Stream!Bytes(f.d, 0, n) = Seg(p, e)
    BY <1>3, <1>7, <1>9, <1>10
  <2>2. Holds(Moved(f.d, n), e)
    BY <1>3, <1>6, <1>7, <1>10, MovesTo
  <2>3. Cut(Stream!Leave(Moved(f.d, n), r.data \o Stream!Bytes(f.d, 0, n)), p, e, e)
    BY <2>1, <2>2, LeaveIs
  <2> QED
    BY <1>1, <1>2, <1>8, <1>10, <2>3
<1>11. CASE ~(t >= n)
  <2>1. PICK k \in Nat : k = n - t /\ k >= 1 /\ b + k = e
    <3>1. n - t \in Nat /\ n - t >= 1 /\ b + (n - t) = e
      BY <1>11, <1>7a
    <3> QED
      BY <3>1
  <2>2. r.data \o Stream!Bytes(f.d, 0, t) = Seg(p, b)
    <3>1. t <= t
      OBVIOUS
    <3>2. r.data \o Stream!Bytes(f.d, 0, t) = Seg(p, a + t)
      BY <1>9, <3>1
    <3> QED
      BY <1>7, <3>2
  <2>3. Seg(p, b) \in Seq(Byte)
    <3>1. p <= b
      BY <1>3, <1>7
    <3> QED
      BY <1>7, <3>1, SegIs
  <2>4. PICK s : s = Stream!Enter(f.d, k, Seg(p, b))
    OBVIOUS
  <2>5. s \in Looping /\ s.d = f.d /\ s.n = k /\ s.data = Seg(p, b)
    BY <1>6, <2>3, <2>4, EnterIs
  <2>6. s \in NextLooping(p, e)
    <3>1. s.d.at = b /\ s.n = k
      BY <1>7, <2>5
    <3>2. p <= s.d.at /\ s.d.at + s.n = e
      <4>1. p <= b
        BY <1>7a
      <4> QED
        BY <2>1, <3>1, <4>1
    <3> QED
      BY <1>6, <1>7, <2>1, <2>5, <3>1, <3>2 DEF NextLooping
  <2>7. s.d.at > r.d.at
    <3>1. b > a
      BY <1>7
    <3> QED
      BY <1>3, <1>7, <2>5, <3>1
  <2>8. Stream!Round("next", r) = s
    BY <1>8, <1>11, <2>1, <2>2, <2>4
  <2> QED
    BY <1>1, <1>2, <2>6, <2>7, <2>8
<1> QED
  BY <1>10, <1>11

(* A chunk goes on where the last one ended.                               *)
LEMMA Refilled ==
  ASSUME InputOK, NEW d, Window(d), d.at < Len(input), NEW f, f = Stream!loadMore(d)
  PROVE  /\ f.ok /\ Window(f.d) /\ f.d.head = 0 /\ f.d.tail > 0
         /\ f.d.tail \in Nat /\ f.d.at \in Nat /\ d.at \in Nat /\ Len(input) \in Nat
         /\ d.at < f.d.at /\ f.d.at <= Len(input) /\ f.d.at - f.d.tail = d.at /\ f.d.at = d.at + f.d.tail
         /\ f.d.tail >= MinChunk \/ f.d.at = Len(input)
         /\ \A m \in Nat : m <= f.d.tail => Stream!Bytes(f.d, 0, m) = Seg(d.at, d.at + m)
<1>1. f.ok /\ Loaded(d, f.d)
  BY LoadMore
<1>2. Window(f.d) /\ f.d.head = 0 /\ f.d.tail > 0 /\ f.d.at - f.d.tail = d.at /\ (f.d.tail >= MinChunk \/ f.d.at = Len(input))
  BY <1>1 DEF Loaded
<1>3. f.d.tail \in Nat /\ f.d.at \in Nat /\ d.at \in Nat /\ Len(input) \in Nat /\ f.d.at <= Len(input)
  BY <1>2, WindowType
<1>4. f.d.at = d.at + f.d.tail /\ d.at < f.d.at
  BY <1>2, <1>3
<1>5. ASSUME NEW m \in Nat, m <= f.d.tail PROVE Stream!Bytes(f.d, 0, m) = Seg(d.at, d.at + m)
  <2>1. 0 \in Nat /\ 0 <= m
    OBVIOUS
  <2>2. Stream!Bytes(f.d, 0, m) = Seg((f.d.at - f.d.tail) + 0, (f.d.at - f.d.tail) + m)
    BY <1>2, <1>5, <2>1, BytesAre
  <2>3. PICK a \in Nat : a = d.at
    BY <1>3
  <2>4. Stream!Bytes(f.d, 0, m) = Seg(a + 0, a + m)
    BY <1>2, <2>2, <2>3
  <2>5. a + 0 = a
    OBVIOUS
  <2> QED
    BY <2>3, <2>4, <2>5
<1> QED
  BY <1>1, <1>2, <1>3, <1>4, <1>5

(* What has been read, and what is left in the buffer.                     *)
LEMMA RestOf ==
  ASSUME InputOK, NEW d, NEW y \in Nat, Holds(d, y), NEW p \in Nat, p <= y
  PROVE  /\ Stream!Bytes(d, d.head, d.tail) = Seg(y, d.at)
         /\ Seg(p, y) \o Stream!Bytes(d, d.head, d.tail) = Seg(p, d.at)
         /\ y <= d.at /\ d.at \in Nat /\ d.at <= Len(input) /\ d.tail - d.head = d.at - y
         /\ d.head \in Nat /\ d.tail \in Nat /\ d.head <= d.tail /\ d.at - d.tail = y - d.head
<1>1. Window(d) /\ 0 <= d.head /\ d.head <= d.tail /\ y = (d.at - d.tail) + d.head
  BY DEF Holds
<1>2. d.head \in Int /\ d.tail \in Nat /\ d.at \in Nat /\ d.at <= Len(input) /\ Len(input) \in Nat
  BY <1>1, WindowType
<1>3. PICK h, t, a \in Nat : h = d.head /\ t = d.tail /\ a = d.at
  BY <1>1, <1>2
<1>4. h <= t /\ y = (a - t) + h
  BY <1>1, <1>3
<1>5. y <= a /\ t - h = a - y /\ a - t = y - h /\ (a - t) + t = a
  BY <1>4
<1>6. Stream!Bytes(d, h, t) = Seg((d.at - d.tail) + h, (d.at - d.tail) + t)
  <2>1. t <= d.tail
    BY <1>3
  <2> QED
    BY <1>1, <1>4, <2>1, BytesAre
<1>7. Stream!Bytes(d, h, t) = Seg(y, a)
  BY <1>3, <1>4, <1>5, <1>6
<1>8. Seg(p, y) \o Seg(y, a) = Seg(p, a)
  <2>1. a <= Len(input)
    BY <1>2, <1>3
  <2> QED
    BY <1>5, <2>1, SegJoin
<1> QED
  BY <1>2, <1>3, <1>4, <1>5, <1>7, <1>8

(* until looks for the next byte that ends a value, which is after e.      *)
ClosesAt(p, e) ==
  /\ p <= e /\ e < Len(input) /\ input[e + 1] \in Closings
  /\ \A i \in (p + 1)..e : input[i] \notin Closings

UntilLooping(p, e) ==
  {r \in Looping : \E y \in Nat : Holds(r.d, y) /\ p <= y /\ r.d.at <= e /\ r.data = Seg(p, y)}

(* So until ends with the bytes before that one, and after it.             *)
LEMMA UntilLoop ==
  ASSUME InputOK, NEW p \in Nat, NEW e \in Nat, ClosesAt(p, e), NEW q \in UntilLooping(p, e)
  PROVE  Cut(Stream!Rounds("until", q), p, e, e + 1)
<1> SUFFICES ASSUME NEW r \in UntilLooping(p, e)
             PROVE  /\ r.x = <<>> /\ r.d.at \in 0..Len(input)
                    /\ \/ Cut(Stream!Round("until", r), p, e, e + 1)
                       \/ Stream!Round("until", r) \in UntilLooping(p, e) /\ Stream!Round("until", r).d.at > r.d.at
  BY LoopCuts
<1>1. r.x = <<>> /\ r.n \in Int /\ r.data \in Seq(Byte)
  BY DEF UntilLooping, Looping
<1>2. PICK y \in Nat : Holds(r.d, y) /\ p <= y /\ r.d.at <= e /\ r.data = Seg(p, y)
  BY DEF UntilLooping
<1>3. /\ r.data \o Stream!Bytes(r.d, r.d.head, r.d.tail) = Seg(p, r.d.at)
      /\ y <= r.d.at /\ r.d.at \in Nat /\ r.d.at <= Len(input)
  <2>1. /\ Seg(p, y) \o Stream!Bytes(r.d, r.d.head, r.d.tail) = Seg(p, r.d.at)
        /\ y <= r.d.at /\ r.d.at \in Nat /\ r.d.at <= Len(input)
    <3>1. Holds(r.d, y) /\ p <= y
      BY <1>2
    <3> QED
      BY <3>1, RestOf
  <2> QED
    BY <1>2, <2>1
<1>4. Len(input) \in Nat /\ e < Len(input)
  BY DEF InputOK, ClosesAt
<1>5. PICK a \in Nat : a = r.d.at
  BY <1>3
<1>6. a <= e /\ p <= a /\ a < Len(input)
  <2>1. p <= y /\ y <= a /\ a <= e
    BY <1>2, <1>3, <1>5
  <2> QED
    BY <1>4, <2>1
<1>7. PICK f : f = Stream!loadMore(r.d)
  OBVIOUS
<1>8. /\ f.ok /\ Window(f.d) /\ f.d.head = 0
      /\ f.d.tail \in Nat /\ f.d.at \in Nat /\ a < f.d.at /\ f.d.at <= Len(input) /\ f.d.at - f.d.tail = a
      /\ f.d.at = a + f.d.tail
      /\ \A m \in Nat : m <= f.d.tail => Stream!Bytes(f.d, 0, m) = Seg(a, a + m)
  <2>1. Window(r.d) /\ r.d.at < Len(input)
    BY <1>2, <1>5, <1>6 DEF Holds
  <2> QED
    BY <1>5, <1>7, <2>1, Refilled
<1>9. PICK t, b \in Nat : t = f.d.tail /\ b = f.d.at
  BY <1>8
<1>10. b = a + t /\ a < b /\ b <= Len(input) /\ b - t = a
  BY <1>8, <1>9
<1>11. PICK n : n = Stream!SelectInSeq(Seg(a, b), Stream!Ends)
  OBVIOUS
<1>12. Stream!IndexOf(f.d) = n - 1
  <2>1. t \in Nat /\ t <= f.d.tail
    BY <1>9
  <2>2. Stream!Bytes(f.d, 0, t) = Seg(a, b)
    BY <1>8, <1>10, <2>1
  <2> QED
    BY <1>8, <1>9, <1>11, <2>2 DEF Stream!IndexOf
<1>13. IF e < b THEN n = (e - a) + 1 ELSE n = 0
  <2>1. Seg(a, b) \in Seq(Byte)
    BY <1>4, <1>10, SegIs
  <2>2. Finds(Seg(a, b), n, Closings)
    BY <1>11, <2>1, ClosingFound
  <2>3. input[e + 1] \in Closings /\ \A i \in (a + 1)..e : input[i] \notin Closings
    <3>1. \A i \in (a + 1)..e : i \in (p + 1)..e
      BY <1>6
    <3> QED
      BY <3>1 DEF ClosesAt
  <2>4. a <= b /\ b <= Len(input) /\ a <= e /\ e < Len(input)
    BY <1>4, <1>6, <1>10
  <2> QED
    BY <2>2, <2>3, <2>4, FirstOf
<1>14. Stream!Round("until", r) =
        IF n - 1 >= 0 THEN Stream!Leave(Moved(f.d, n), Seg(p, a) \o Stream!Bytes(f.d, 0, n - 1))
        ELSE Stream!Enter(f.d, r.n, Seg(p, a))
  <2>1. Stream!Round("until", r) = Stream!untilRound(r)
    BY <1>1 DEF Stream!Round
  <2>2. n \in Int /\ 0 + (n - 1) = n - 1 /\ 0 + (n - 1) + 1 = n
    BY <1>6, <1>13
  <2> QED
    BY <1>3, <1>5, <1>7, <1>8, <1>12, <2>1, <2>2 DEF Stream!untilRound, Moved
<1>15. CASE e < b
  <2>1. PICK k \in Nat : k = n - 1 /\ a + k = e /\ k < t /\ n \in Nat /\ n <= t /\ a + n = e + 1
    <3>1. n = (e - a) + 1
      BY <1>13, <1>15
    <3>2. n - 1 \in Nat /\ a + (n - 1) = e
      BY <1>6, <3>1
    <3>3. n - 1 < t /\ n \in Nat /\ n <= t /\ a + n = e + 1
      BY <1>6, <1>10, <1>15, <3>1
    <3> QED
      BY <3>2, <3>3
  <2>2. Stream!Bytes(f.d, 0, k) = Seg(a, e)
    BY <1>8, <1>9, <2>1
  <2>3. Seg(p, a) \o Seg(a, e) = Seg(p, e)
    <3>1. e <= Len(input)
      BY <1>4
    <3> QED
      BY <1>6, <3>1, SegJoin
  <2>4. Holds(Moved(f.d, n), e + 1)
    BY <1>8, <1>9, <2>1, MovesTo
  <2>5. Cut(Stream!Leave(Moved(f.d, n), Seg(p, a) \o Stream!Bytes(f.d, 0, k)), p, e, e + 1)
    BY <2>2, <2>3, <2>4, LeaveIs
  <2>6. Stream!Round("until", r) = Stream!Leave(Moved(f.d, n), Seg(p, a) \o Stream!Bytes(f.d, 0, k))
    BY <1>14, <2>1
  <2> QED
    BY <1>1, <1>3, <1>4, <2>5, <2>6
<1>16. CASE ~(e < b)
  <2>1. n = 0 /\ ~(n - 1 >= 0)
    BY <1>13, <1>16
  <2>2. Seg(p, a) \in Seq(Byte)
    BY <1>4, <1>6, SegIs
  <2>3. PICK s : s = Stream!Enter(f.d, r.n, Seg(p, a))
    OBVIOUS
  <2>4. s \in Looping /\ s.d = f.d /\ s.data = Seg(p, a)
    BY <1>1, <1>8, <2>2, <2>3, EnterIs
  <2>5. Holds(s.d, a)
    <3>1. 0 <= f.d.tail /\ a = (f.d.at - f.d.tail) + 0
      BY <1>8
    <3> QED
      BY <1>8, <2>4, <3>1 DEF Holds
  <2>6. s.d.at = b /\ b <= e
    BY <1>9, <1>16, <2>4
  <2>7. s \in UntilLooping(p, e)
    BY <1>6, <2>4, <2>5, <2>6 DEF UntilLooping
  <2>8. s.d.at > r.d.at
    BY <1>5, <1>10, <2>6
  <2>9. Stream!Round("until", r) = s
    BY <1>14, <2>1, <2>3
  <2> QED
    BY <1>1, <1>3, <1>4, <2>7, <2>8, <2>9
<1> QED
  BY <1>15, <1>16

(* readUint64 looks for the byte after the digits, which is after e.       *)
EndsDigits(p, e) ==
  /\ p <= e /\ e < Len(input) /\ input[e + 1] \in Others
  /\ \A i \in (p + 1)..e : input[i] \notin Others

DigitLooping(p, e) ==
  {r \in Looping : \E y \in Nat : Holds(r.d, y) /\ p <= y /\ y <= e /\ r.data = Seg(p, y)}

(* So readUint64 ends with the digits, and after the byte that follows.    *)
LEMMA DigitLoop ==
  ASSUME InputOK, NEW p \in Nat, NEW e \in Nat, EndsDigits(p, e), NEW q \in DigitLooping(p, e)
  PROVE  Cut(Stream!Rounds("digits", q), p, e, e + 1)
<1> SUFFICES ASSUME NEW r \in DigitLooping(p, e)
             PROVE  /\ r.x = <<>> /\ r.d.at \in 0..Len(input)
                    /\ \/ Cut(Stream!Round("digits", r), p, e, e + 1)
                       \/ Stream!Round("digits", r) \in DigitLooping(p, e) /\ Stream!Round("digits", r).d.at > r.d.at
  BY LoopCuts
<1>1. r.x = <<>> /\ r.n \in Int /\ r.data \in Seq(Byte)
  BY DEF DigitLooping, Looping
<1>2. PICK y \in Nat : Holds(r.d, y) /\ p <= y /\ y <= e /\ r.data = Seg(p, y)
  BY DEF DigitLooping
<1>3. /\ Stream!Bytes(r.d, r.d.head, r.d.tail) = Seg(y, r.d.at)
      /\ Seg(p, y) \o Stream!Bytes(r.d, r.d.head, r.d.tail) = Seg(p, r.d.at)
      /\ y <= r.d.at /\ r.d.at \in Nat /\ r.d.at <= Len(input) /\ r.d.tail - r.d.head = r.d.at - y
      /\ r.d.head \in Nat /\ r.d.tail \in Nat /\ r.d.at - r.d.tail = y - r.d.head
  <2>1. Holds(r.d, y) /\ p <= y
    BY <1>2
  <2> QED
    BY <2>1, RestOf
<1>4. Len(input) \in Nat /\ e < Len(input) /\ p <= y /\ y <= e
  BY <1>2 DEF InputOK, EndsDigits
<1>5. PICK a, h, t \in Nat : a = r.d.at /\ h = r.d.head /\ t = r.d.tail
  BY <1>3
<1>6. y <= a /\ a <= Len(input) /\ t - h = a - y /\ a - t = y - h
  BY <1>3, <1>5
<1>7. PICK n : n = Stream!SelectInSeq(Seg(y, a), Stream!NoDigit)
  OBVIOUS
<1>8. PICK f : f = Stream!loadMore(r.d)
  OBVIOUS
<1>9. Stream!Round("digits", r) =
        IF n > 0 THEN Stream!Leave(Moved(r.d, h + n), Seg(p, y) \o SubSeq(Seg(y, a), 1, n - 1))
        ELSE IF ~f.ok THEN Stream!Leave(f.d, Seg(p, a))
        ELSE Stream!Enter(f.d, r.n, Seg(p, a))
  <2>1. Stream!Round("digits", r) = Stream!digitRound(r)
    BY <1>1 DEF Stream!Round
  <2> QED
    BY <1>2, <1>3, <1>5, <1>7, <1>8, <2>1 DEF Stream!digitRound, Moved
<1>10. IF e < a THEN n = (e - y) + 1 ELSE n = 0
  <2>1. Seg(y, a) \in Seq(Byte)
    BY <1>6, SegIs
  <2>2. Finds(Seg(y, a), n, Others)
    BY <1>7, <2>1, OtherFound
  <2>3. input[e + 1] \in Others /\ \A i \in (y + 1)..e : input[i] \notin Others
    <3>1. \A i \in (y + 1)..e : i \in (p + 1)..e
      BY <1>4
    <3> QED
      BY <3>1 DEF EndsDigits
  <2> QED
    BY <1>4, <1>6, <2>2, <2>3, FirstOf
<1>11. CASE e < a
  <2>1. PICK k \in Nat : k = n - 1 /\ k = e - y /\ n > 0 /\ n \in Nat /\ h + n \in Nat /\ h + n <= t /\ e + 1 = (a - t) + (h + n)
    <3>1. n = (e - y) + 1
      BY <1>10, <1>11
    <3>2. n - 1 \in Nat /\ n - 1 = e - y /\ n > 0 /\ n \in Nat /\ h + n \in Nat
      BY <1>4, <3>1
    <3>3. h + n <= t /\ e + 1 = (a - t) + (h + n)
      BY <1>6, <1>11, <3>1
    <3> QED
      BY <3>2, <3>3
  <2>2. SubSeq(Seg(y, a), 1, e - y) = Seg(y, e)
    <3>1. e <= a
      BY <1>11
    <3> QED
      BY <1>4, <1>6, <3>1, SegPart
  <2>3. Seg(p, y) \o Seg(y, e) = Seg(p, e)
    <3>1. e <= Len(input)
      BY <1>4
    <3> QED
      BY <1>4, <3>1, SegJoin
  <2>4. Holds(Moved(r.d, h + n), e + 1)
    <3>1. Window(r.d)
      BY <1>2 DEF Holds
    <3> QED
      BY <1>5, <2>1, <3>1, MovesTo
  <2>5. Cut(Stream!Leave(Moved(r.d, h + n), Seg(p, y) \o SubSeq(Seg(y, a), 1, n - 1)), p, e, e + 1)
    BY <2>1, <2>2, <2>3, <2>4, LeaveIs
  <2>6. Stream!Round("digits", r) = Stream!Leave(Moved(r.d, h + n), Seg(p, y) \o SubSeq(Seg(y, a), 1, n - 1))
    BY <1>9, <2>1
  <2> QED
    BY <1>1, <1>3, <1>4, <2>5, <2>6
<1>12. CASE ~(e < a)
  <2>1. n = 0 /\ a <= e /\ p <= a /\ a < Len(input)
    BY <1>4, <1>6, <1>10, <1>12
  <2>2. Seg(p, a) \in Seq(Byte)
    BY <1>6, <2>1, SegIs
  <2>3. f.ok /\ Window(f.d) /\ f.d.head = 0 /\ f.d.tail \in Nat /\ f.d.at - f.d.tail = a /\ f.d.at > a
    <3>1. Window(r.d) /\ r.d.at < Len(input)
      BY <1>2, <1>5, <2>1 DEF Holds
    <3> QED
      BY <1>5, <1>8, <3>1, Refilled
  <2>4. PICK s : s = Stream!Enter(f.d, r.n, Seg(p, a))
    OBVIOUS
  <2>5. s \in Looping /\ s.d = f.d /\ s.data = Seg(p, a)
    BY <1>1, <2>2, <2>3, <2>4, EnterIs
  <2>6. Holds(s.d, a)
    <3>1. 0 <= f.d.tail /\ a = (f.d.at - f.d.tail) + 0
      BY <2>3
    <3> QED
      BY <2>3, <2>5, <3>1 DEF Holds
  <2>7. s \in DigitLooping(p, e)
    BY <2>1, <2>5, <2>6 DEF DigitLooping
  <2>8. s.d.at > r.d.at
    BY <1>5, <2>3, <2>5
  <2>9. Stream!Round("digits", r) = s
    BY <1>9, <2>1, <2>3, <2>4
  <2> QED
    BY <1>1, <1>3, <1>4, <2>7, <2>8, <2>9
<1> QED
  BY <1>11, <1>12

-----------------------------------------------------------------------------
(* Strings                                                                 *)

(* The lengths of a string's characters are w; B are the bytes of the      *)
(* first characters, and U the units of the others.                        *)
Wide(n) == IF n = 4 THEN 2 ELSE 1

Measures(w, m, B, U) ==
  /\ m \in Nat /\ w \in [1..m -> 1..4] /\ B \in [0..m -> Nat] /\ U \in [0..m -> Nat]
  /\ B[0] = 0 /\ U[m] = 0
  /\ \A j \in 1..m : B[j] = B[j - 1] + w[j] /\ U[j - 1] = U[j] + Wide(w[j])

(* Each character has a byte.                                              *)
LEMMA BytesGrow ==
  ASSUME NEW w, NEW m, NEW B, NEW U, Measures(w, m, B, U), NEW j \in 0..m, NEW k \in 0..m, j <= k
  PROVE  B[j] <= B[k] /\ (j # k => B[j] < B[k])
<1>1. m \in Nat /\ B \in [0..m -> Nat] /\ \A i \in 1..m : B[i] = B[i - 1] + w[i] /\ w[i] \in 1..4
  BY DEF Measures
<1>2. PICK S : S = {n \in Nat : j <= n /\ n <= m => B[j] <= B[n] /\ (j # n => B[j] < B[n])}
  OBVIOUS
<1>3. 0 \in S
  BY <1>1, <1>2
<1>4. ASSUME NEW n \in Nat, n \in S PROVE n + 1 \in S
  <2> SUFFICES ASSUME j <= n + 1, n + 1 <= m PROVE B[j] <= B[n + 1] /\ (j # n + 1 => B[j] < B[n + 1])
    BY <1>2
  <2>1. CASE j = n + 1
    BY <1>1, <2>1
  <2>2. CASE j # n + 1
    <3>1. j <= n /\ n <= m /\ n \in 0..m
      BY <1>1, <2>2
    <3>2. B[j] <= B[n]
      BY <1>2, <1>4, <3>1
    <3>3. PICK i \in 1..m : i = n + 1 /\ i - 1 = n
      BY <1>1
    <3>4. B[i] = B[n] + w[i] /\ w[i] \in 1..4
      BY <1>1, <3>3
    <3>5. B[j] \in Nat /\ B[n] \in Nat
      BY <1>1, <3>1
    <3>6. B[j] < B[i]
      BY <3>2, <3>4, <3>5
    <3>7. B[j] <= B[i]
      BY <3>4, <3>5, <3>6
    <3> QED
      BY <3>3, <3>6, <3>7
  <2> QED
    BY <2>1, <2>2
<1>5. Nat \subseteq S
  BY <1>3, <1>4, Induction
<1>6. k \in Nat /\ k <= m
  BY <1>1
<1> QED
  BY <1>2, <1>5, <1>6

(* Each character has a unit, and at most three bytes for each of them.    *)
LEMMA UnitsLeft ==
  ASSUME NEW w, NEW m, NEW B, NEW U, Measures(w, m, B, U), NEW j \in 0..m
  PROVE  U[j] >= m - j /\ B[m] - B[j] <= 3 * U[j]
<1>1. /\ m \in Nat /\ B \in [0..m -> Nat] /\ U \in [0..m -> Nat] /\ U[m] = 0
      /\ \A i \in 1..m : B[i] = B[i - 1] + w[i] /\ w[i] \in 1..4 /\ U[i - 1] = U[i] + Wide(w[i])
  BY DEF Measures
<1>2. PICK S : S = {n \in Nat : n <= m => U[m - n] >= n /\ B[m] - B[m - n] <= 3 * U[m - n]}
  OBVIOUS
<1>3. 0 \in S
  <2>1. m - 0 = m /\ B[m] \in Nat
    BY <1>1
  <2>2. U[m - 0] >= 0 /\ B[m] - B[m - 0] <= 3 * U[m - 0]
    BY <1>1, <2>1
  <2> QED
    BY <1>2, <2>2
<1>4. ASSUME NEW n \in Nat, n \in S PROVE n + 1 \in S
  <2> SUFFICES ASSUME n + 1 <= m PROVE U[m - (n + 1)] >= n + 1 /\ B[m] - B[m - (n + 1)] <= 3 * U[m - (n + 1)]
    BY <1>2
  <2>1. PICK i \in 1..m : i = m - n /\ i - 1 = m - (n + 1)
    <3>1. m - n \in 1..m /\ (m - n) - 1 = m - (n + 1)
      BY <1>1
    <3> QED
      BY <3>1
  <2>2. U[i] >= n /\ B[m] - B[i] <= 3 * U[i]
    <3>1. n <= m
      BY <1>1
    <3> QED
      BY <1>2, <1>4, <2>1, <3>1
  <2>3. i \in 0..m /\ i - 1 \in 0..m /\ m \in 0..m
    BY <1>1
  <2>4. PICK b0, b1, b2, u0, u1 \in Nat : b0 = B[i - 1] /\ b1 = B[i] /\ b2 = B[m] /\ u0 = U[i - 1] /\ u1 = U[i]
    BY <1>1, <2>3
  <2>5. PICK v \in 1..4 : v = w[i]
    BY <1>1
  <2>6. b1 = b0 + v /\ u0 = u1 + (IF v = 4 THEN 2 ELSE 1) /\ u1 >= n /\ b2 - b1 <= 3 * u1
    BY <1>1, <2>2, <2>4, <2>5 DEF Wide
  <2>7. u0 >= n + 1 /\ b2 - b0 <= 3 * u0
    BY <2>6
  <2> QED
    BY <2>1, <2>4, <2>7
<1>5. Nat \subseteq S
  BY <1>3, <1>4, Induction
<1>6. m - j \in Nat /\ m - j <= m /\ m - (m - j) = j
  BY <1>1
<1> QED
  BY <1>2, <1>5, <1>6

(* Where chars is: after so many bytes, with so many units to go.          *)
CharState(o, n) == [off |-> o, n |-> n, ok |-> TRUE]

(* A step goes over the character that the byte starts, if there is one.   *)
LEMMA CharStepIs ==
  ASSUME NEW s, NEW o \in Nat, NEW n \in Nat, NEW b, b = s[o + 1][1]
  PROVE  Stream!charStep(s, CharState(o, n)) =
           IF n <= 0 \/ o >= Len(s) THEN CharState(o, n)
           ELSE IF b \in 1..4 THEN CharState(o + b, n - Wide(b))
           ELSE [CharState(o, n) EXCEPT !.ok = FALSE]
<1>1. PICK c : c = CharState(o, n)
  OBVIOUS
<1>2. c.off = o /\ c.n = n /\ c.ok = TRUE
  BY <1>1 DEF CharState
<1>4. CASE n <= 0 \/ o >= Len(s)
  BY <1>1, <1>2, <1>4 DEF Stream!charStep
<1>5. CASE ~(n <= 0 \/ o >= Len(s)) /\ b \in 1..4
  <2>1. Stream!charStep(s, c) = [off |-> o + b, n |-> n - (IF b = 4 THEN 2 ELSE 1), ok |-> TRUE]
    BY <1>2, <1>5 DEF Stream!charStep
  <2> QED
    BY <1>1, <1>5, <2>1 DEF Wide, CharState
<1>6. CASE ~(n <= 0 \/ o >= Len(s)) /\ b \notin 1..4
  BY <1>1, <1>2, <1>6 DEF Stream!charStep
<1> QED
  BY <1>4, <1>5, <1>6

(* A string of the input, after place p, and a byte after it.              *)
StringAt(p, w, m, B, U) ==
  /\ Measures(w, m, B, U) /\ p \in Nat /\ p + B[m] < Len(input)
  /\ \A j \in 1..m : input[(p + B[j - 1]) + 1][1] = w[j]

(* A string in the buffer, from its character after the j-th on: the state *)
(* of chars after character c, and the next one.                           *)
After(B, U, j, c) == CharState(B[c] - B[j], U[c])

(* A step goes over one character of the string.                           *)
LEMMA NextChar ==
  ASSUME InputOK, NEW p, NEW w, NEW m, NEW B, NEW U, StringAt(p, w, m, B, U), NEW j \in 0..m, NEW a \in Nat,
         NEW y \in Nat, y = p + B[j], y <= a, a <= Len(input), NEW c \in 0..m, j <= c
  PROVE  Stream!charStep(Seg(y, a), After(B, U, j, c)) =
           IF c = m \/ B[c] - B[j] >= a - y THEN After(B, U, j, c) ELSE After(B, U, j, c + 1)
<1>1. /\ m \in Nat /\ B \in [0..m -> Nat] /\ U \in [0..m -> Nat] /\ p \in Nat /\ w \in [1..m -> 1..4] /\ U[m] = 0
      /\ \A i \in 1..m : B[i] = B[i - 1] + w[i] /\ U[i - 1] = U[i] + Wide(w[i])
      /\ \A i \in 1..m : input[(p + B[i - 1]) + 1][1] = w[i]
      /\ Measures(w, m, B, U)
  BY DEF StringAt, Measures
<1>2. PICK bj, bc, n \in Nat : bj = B[j] /\ bc = B[c] /\ n = U[c]
  BY <1>1
<1>3. bj <= bc
  BY <1>1, <1>2, BytesGrow
<1>4. PICK o \in Nat : o = bc - bj /\ bj + o = bc
  BY <1>2, <1>3
<1>5. PICK s : s = Seg(y, a)
  OBVIOUS
<1>6. Len(s) = a - y /\ \A i \in 1..(a - y) : s[i] = input[y + i]
  BY <1>5, SegIs
<1>7. After(B, U, j, c) = CharState(o, n)
  BY <1>2, <1>4 DEF After
<1>8. PICK b : b = s[o + 1][1]
  OBVIOUS
<1>9. Stream!charStep(s, CharState(o, n)) =
        IF n <= 0 \/ o >= Len(s) THEN CharState(o, n)
        ELSE IF b \in 1..4 THEN CharState(o + b, n - Wide(b))
        ELSE [CharState(o, n) EXCEPT !.ok = FALSE]
  BY <1>8, CharStepIs
<1>10. CASE c = m \/ B[c] - B[j] >= a - y
  <2>1. n <= 0 \/ o >= Len(s)
    <3>1. CASE c = m
      BY <1>1, <1>2, <3>1
    <3>2. CASE B[c] - B[j] >= a - y
      BY <1>2, <1>4, <1>6, <3>2
    <3> QED
      BY <1>10, <3>1, <3>2
  <2> QED
    BY <1>5, <1>7, <1>9, <1>10, <2>1
<1>11. CASE ~(c = m \/ B[c] - B[j] >= a - y)
  <2>1. c # m /\ o < a - y
    BY <1>2, <1>4, <1>11
  <2>2. PICK i \in 1..m : i = c + 1 /\ i - 1 = c
    BY <1>1, <2>1
  <2>3. PICK v \in 1..4 : v = w[i]
    BY <1>1
  <2>4. B[i] = bc + v /\ n = U[i] + Wide(v) /\ input[(p + bc) + 1][1] = v
    BY <1>1, <1>2, <2>2, <2>3
  <2>5. PICK u \in Nat, d \in 1..2 : u = U[i] /\ d = Wide(v)
    <3>1. i \in 0..m
      BY <1>1
    <3>2. U[i] \in Nat
      BY <1>1, <3>1
    <3>3. Wide(v) \in 1..2
      BY DEF Wide
    <3> QED
      BY <3>2, <3>3
  <2>6. n > 0 /\ n - Wide(v) = u
    <3>1. n = u + d
      BY <2>4, <2>5
    <3>2. n > 0 /\ n - d = u
      BY <3>1
    <3> QED
      BY <2>5, <3>2
  <2>7. b = v
    <3>1. o + 1 \in 1..(a - y)
      BY <2>1
    <3>2. s[o + 1] = input[y + (o + 1)]
      BY <1>6, <3>1
    <3>3. y + (o + 1) = (p + bc) + 1
      <4>1. y = p + bj /\ p \in Nat
        BY <1>1, <1>2
      <4> QED
        BY <1>4, <4>1
    <3> QED
      BY <1>8, <2>4, <3>2, <3>3
  <2>8. ~(n <= 0 \/ o >= Len(s))
    BY <1>6, <2>1, <2>6
  <2>9. Stream!charStep(s, CharState(o, n)) = CharState(o + v, u)
    BY <1>9, <2>6, <2>7, <2>8
  <2>10. o + v = B[i] - B[j]
    <3>1. (bc + v) - bj = o + v
      BY <1>4
    <3> QED
      BY <1>2, <2>4, <3>1
  <2>11. After(B, U, j, c + 1) = CharState(o + v, u)
    BY <2>2, <2>5, <2>10 DEF After
  <2> QED
    BY <1>5, <1>7, <1>11, <2>9, <2>11
<1> QED
  BY <1>10, <1>11

(* chars goes over a string as far as it is in the buffer, and at least to *)
(* the end of the character that the buffer ends in.                       *)
Over(m, B, U, j, y, a, c) ==
  /\ c \in 0..m /\ j <= c /\ Stream!chars(Seg(y, a), U[j]) = After(B, U, j, c)
  /\ c = m \/ B[c] - B[j] >= a - y
  /\ c = j \/ B[c - 1] - B[j] < a - y

(* That is where chars ends.                                               *)
LEMMA CharsOver ==
  ASSUME InputOK, NEW p, NEW w, NEW m, NEW B, NEW U, StringAt(p, w, m, B, U), NEW j \in 0..m, NEW a \in Nat,
         NEW y \in Nat, y = p + B[j], y <= a, a <= Len(input)
  PROVE  \E c : Over(m, B, U, j, y, a, c)
<1> DEFINE Base == [off |-> 0, n |-> U[j], ok |-> TRUE]
           Is(g) == g = [k \in 0..(IF U[j] > 0 THEN U[j] ELSE 0) |->
                           IF k = 0 THEN Base ELSE Stream!charStep(Seg(y, a), g[k - 1])]
           To(c) == /\ c \in 0..m /\ j <= c /\ (c = j \/ B[c - 1] - B[j] < a - y)
<1>1. m \in Nat /\ B \in [0..m -> Nat] /\ U \in [0..m -> Nat] /\ Measures(w, m, B, U)
  BY DEF StringAt, Measures
<1>2. PICK h : h = CHOOSE F : Is(F)
  OBVIOUS
<1>3. Stream!chars(Seg(y, a), U[j]) = h[IF U[j] > 0 THEN U[j] ELSE 0]
  BY <1>2 DEF Stream!chars
<1>4. PICK n \in Nat : n = U[j] /\ n = (IF U[j] > 0 THEN U[j] ELSE 0)
  BY <1>1
<1>5. Base = After(B, U, j, j)
  <2>1. B[j] - B[j] = 0
    BY <1>1
  <2> QED
    BY <2>1 DEF After, CharState
<1> HIDE DEF Base
<1>6. PICK V : V = {After(B, U, j, c) : c \in j..m}
  OBVIOUS
<1>7. \A v \in V : Stream!charStep(Seg(y, a), v) \in V
  <2> SUFFICES ASSUME NEW c \in j..m PROVE Stream!charStep(Seg(y, a), After(B, U, j, c)) \in V
    BY <1>6
  <2>1. c \in 0..m /\ j <= c
    BY <1>1
  <2>2. CASE c = m \/ B[c] - B[j] >= a - y
    BY <1>6, <2>1, <2>2, NextChar
  <2>3. CASE ~(c = m \/ B[c] - B[j] >= a - y)
    <3>1. c + 1 \in j..m
      BY <1>1, <2>1, <2>3
    <3>2. Stream!charStep(Seg(y, a), After(B, U, j, c)) = After(B, U, j, c + 1)
      BY <2>1, <2>3, NextChar
    <3> QED
      BY <1>6, <3>1, <3>2
  <2> QED
    BY <2>2, <2>3
<1>8. Base \in V
  BY <1>1, <1>5, <1>6
<1>9. PICK next : next = [q \in (1..n) \X V |-> Stream!charStep(Seg(y, a), q[2])]
  OBVIOUS
<1>10. next \in [(1..n) \X V -> V]
  BY <1>7, <1>9
<1>11. PICK base : base = Base
  OBVIOUS
<1>12. PICK f : Steps(f, V, n, base, next)
  BY <1>8, <1>10, <1>11, StepsExist
<1>13. ASSUME NEW k \in 1..n PROVE f[k] = Stream!charStep(Seg(y, a), f[k - 1])
  <2>1. k - 1 \in 0..n
    OBVIOUS
  <2>2. f[k - 1] \in V /\ f[k] = next[<<k, f[k - 1]>>]
    BY <1>12, <2>1 DEF Steps
  <2> QED
    BY <1>9, <2>2
<1>14. f \in [0..n -> V] /\ f[0] = Base
  BY <1>11, <1>12 DEF Steps
<1>15. Is(f)
  <2>1. \A k \in 0..n : f[k] = IF k = 0 THEN Base ELSE Stream!charStep(Seg(y, a), f[k - 1])
    BY <1>13, <1>14
  <2>2. f = [k \in 0..n |-> f[k]]
    BY <1>14
  <2> QED
    BY <1>4, <2>1, <2>2
<1>16. Is(h)
  <2> HIDE DEF Is
  <2> QED
    BY <1>2, <1>15
<1>17. h = f
  <2>1. UpTo(h, n) /\ UpTo(f, n)
    BY <1>4, <1>14, <1>16 DEF UpTo
  <2>2. \A k \in 0..n : h[k] = IF k = 0 THEN Base ELSE Stream!charStep(Seg(y, a), h[k - 1])
    BY <1>4, <1>16
  <2> HIDE DEF Is
  <2>3. h[0] = f[0]
    BY <1>14, <2>2
  <2>4. \A k \in 1..n : h[k] = Stream!charStep(Seg(y, a), h[k - 1])
    BY <2>2
  <2>5. \A k \in 1..n : h[k - 1] = f[k - 1] => h[k] = f[k]
    BY <1>13, <2>4
  <2> QED
    BY <2>1, <2>3, <2>5, SameSteps
<1> HIDE DEF Is
<1> DEFINE There(k) == \E c \in 0..m : /\ To(c) /\ f[k] = After(B, U, j, c)
                                       /\ c >= j + k \/ c = m \/ B[c] - B[j] >= a - y
<1>18. PICK S : S = {k \in Nat : k <= n => There(k)}
  OBVIOUS
<1>19. 0 \in S
  <2>1. To(j) /\ f[0] = After(B, U, j, j) /\ j >= j + 0
    BY <1>1, <1>5, <1>14
  <2>2. There(0)
    BY <2>1
  <2> HIDE DEF There
  <2> QED
    BY <1>18, <2>2
<1>20. ASSUME NEW k \in Nat, k \in S PROVE k + 1 \in S
  <2> SUFFICES ASSUME k + 1 <= n PROVE There(k + 1)
    <3> HIDE DEF There
    <3> QED
      BY <1>18
  <2>1. PICK c \in 0..m : To(c) /\ f[k] = After(B, U, j, c) /\ (c >= j + k \/ c = m \/ B[c] - B[j] >= a - y)
    <3>1. There(k)
      <4> HIDE DEF There
      <4> QED
        BY <1>18, <1>20
    <3> QED
      BY <3>1
  <2>2. PICK i \in 1..n : i = k + 1 /\ i - 1 = k
    OBVIOUS
  <2>3. f[i] = Stream!charStep(Seg(y, a), After(B, U, j, c))
    BY <1>13, <2>1, <2>2
  <2>4. CASE c = m \/ B[c] - B[j] >= a - y
    <3>1. f[i] = After(B, U, j, c)
      BY <2>1, <2>3, <2>4, NextChar
    <3> QED
      BY <2>1, <2>2, <2>4, <3>1
  <2>5. CASE ~(c = m \/ B[c] - B[j] >= a - y)
    <3>1. f[i] = After(B, U, j, c + 1)
      BY <2>1, <2>3, <2>5, NextChar
    <3>2. PICK d \in 0..m : d = c + 1 /\ d - 1 = c
      BY <1>1, <2>5
    <3>3. c >= j + k
      BY <2>1, <2>5
    <3>4. d >= j + (k + 1) /\ j <= d
      BY <1>1, <2>1, <3>2, <3>3
    <3>5. B[d - 1] - B[j] < a - y
      <4>1. B[c] \in Nat /\ B[j] \in Nat
        BY <1>1
      <4> QED
        BY <2>5, <3>2, <4>1
    <3> QED
      BY <2>2, <3>1, <3>2, <3>4, <3>5
  <2> QED
    BY <2>4, <2>5
<1>21. Nat \subseteq S
  <2> HIDE DEF There
  <2> QED
    BY <1>19, <1>20, Induction
<1>22. PICK c \in 0..m : To(c) /\ f[n] = After(B, U, j, c) /\ (c >= j + n \/ c = m \/ B[c] - B[j] >= a - y)
  <2>1. There(n)
    <3> HIDE DEF There
    <3> QED
      BY <1>18, <1>21
  <2> QED
    BY <2>1
<1>23. c = m \/ B[c] - B[j] >= a - y
  <2>1. n >= m - j
    BY <1>1, <1>4, UnitsLeft
  <2>2. c >= j + n => c = m
    BY <1>1, <2>1
  <2> QED
    BY <1>22, <2>2
<1>24. Stream!chars(Seg(y, a), U[j]) = After(B, U, j, c)
  BY <1>3, <1>4, <1>17, <1>22
<1> QED
  BY <1>22, <1>23, <1>24 DEF Over

(* A character that is cut ends in the next chunk: it has at most one byte *)
(* more than every chunk.                                                  *)
Fits(w, m) == \A i \in 1..m : w[i] <= MinChunk + 1

(* readStringAsBytes reads the rest of a string, from a character on.      *)
StringLooping(p, m, B, U) ==
  {r \in Looping : \E j \in 0..m : \E y \in Nat :
     y = p + B[j] /\ Holds(r.d, y) /\ r.n = U[j] /\ r.data = Seg(p, y)}

(* So readStringAsBytes ends with the last character.                      *)
LEMMA StringLoop ==
  ASSUME InputOK, NEW p, NEW w, NEW m, NEW B, NEW U, StringAt(p, w, m, B, U), Fits(w, m),
         NEW q \in StringLooping(p, m, B, U), NEW z \in Nat, z = p + B[m]
  PROVE  Cut(Stream!Rounds("string", q), p, z, z)
<1> SUFFICES ASSUME NEW r \in StringLooping(p, m, B, U)
             PROVE  /\ r.x = <<>> /\ r.d.at \in 0..Len(input)
                    /\ \/ Cut(Stream!Round("string", r), p, z, z)
                       \/ Stream!Round("string", r) \in StringLooping(p, m, B, U) /\ Stream!Round("string", r).d.at > r.d.at
  BY LoopCuts
<1>1. /\ m \in Nat /\ B \in [0..m -> Nat] /\ U \in [0..m -> Nat] /\ p \in Nat /\ w \in [1..m -> 1..4]
      /\ B[0] = 0 /\ Measures(w, m, B, U) /\ z < Len(input) /\ Len(input) \in Nat
      /\ \A i \in 1..m : B[i] = B[i - 1] + w[i]
  BY DEF StringAt, Measures, InputOK
<1>2. r.x = <<>> /\ r.n \in Int /\ r.data \in Seq(Byte)
  BY DEF StringLooping, Looping
<1>3. PICK j \in 0..m : \E y \in Nat : y = p + B[j] /\ Holds(r.d, y) /\ r.n = U[j] /\ r.data = Seg(p, y)
  BY DEF StringLooping
<1>4. PICK y \in Nat : y = p + B[j] /\ Holds(r.d, y) /\ r.n = U[j] /\ r.data = Seg(p, y)
  BY <1>3
<1>5. p <= y
  BY <1>1, <1>4
<1>6. /\ Stream!Bytes(r.d, r.d.head, r.d.tail) = Seg(y, r.d.at)
      /\ Seg(p, y) \o Stream!Bytes(r.d, r.d.head, r.d.tail) = Seg(p, r.d.at)
      /\ y <= r.d.at /\ r.d.at \in Nat /\ r.d.at <= Len(input) /\ r.d.tail - r.d.head = r.d.at - y
      /\ r.d.head \in Nat /\ r.d.tail \in Nat /\ r.d.at - r.d.tail = y - r.d.head
  <2>1. Holds(r.d, y) /\ p \in Nat
    BY <1>1, <1>4
  <2> QED
    BY <1>5, <2>1, RestOf
<1>7. PICK a, h, t \in Nat : a = r.d.at /\ h = r.d.head /\ t = r.d.tail
  BY <1>6
<1>8. y <= a /\ a <= Len(input) /\ t - h = a - y /\ a - t = y - h
  BY <1>6, <1>7
<1>9. PICK c \in 0..m : /\ j <= c /\ Stream!chars(Seg(y, a), U[j]) = After(B, U, j, c)
                        /\ c = m \/ B[c] - B[j] >= a - y
                        /\ c = j \/ B[c - 1] - B[j] < a - y
  <2>1. y = p + B[j] /\ y <= a /\ a <= Len(input)
    BY <1>4, <1>8
  <2>2. PICK c : Over(m, B, U, j, y, a, c)
    BY <2>1, CharsOver
  <2> QED
    BY <2>2 DEF Over
<1>10. PICK bj, bc, n \in Nat : bj = B[j] /\ bc = B[c] /\ n = U[c]
  BY <1>1
<1>11. bj <= bc
  BY <1>1, <1>9, <1>10, BytesGrow
<1>12. PICK o, v \in Nat : o = bc - bj /\ v = y + o /\ v = p + bc
  <2>1. bc - bj \in Nat /\ y = p + bj
    BY <1>4, <1>10, <1>11
  <2>2. y + (bc - bj) \in Nat /\ y + (bc - bj) = p + bc
    BY <1>1, <2>1
  <2> QED
    BY <2>1, <2>2
<1>13. v <= z
  <2>1. m \in 0..m /\ c <= m
    BY <1>1
  <2>2. B[c] <= B[m]
    BY <1>1, <2>1, BytesGrow
  <2>3. PICK bm \in Nat : bm = B[m]
    BY <1>1, <2>1
  <2>4. z = p + bm /\ bc <= bm /\ p \in Nat
    BY <1>1, <1>10, <2>2, <2>3
  <2> QED
    BY <1>12, <2>4
<1>14. v < Len(input)
  BY <1>1, <1>13
<1>15. PICK f : f = Stream!loadMore(r.d)
  OBVIOUS
<1>16. PICK C : C = Stream!chars(Seg(y, a), r.n) /\ C.off = o /\ C.n = n /\ C.ok = TRUE
  <2>1. Stream!chars(Seg(y, a), r.n) = CharState(o, n)
    BY <1>4, <1>9, <1>10, <1>12 DEF After
  <2> QED
    BY <2>1 DEF CharState
<1>17. Stream!Round("string", r) =
         IF (t - h) - o > 0
         THEN [d |-> Moved(r.d, h + o),
               x |-> IF r.data = <<>> THEN <<"alias", h, h + o>> ELSE <<"copy", r.data \o SubSeq(Seg(y, a), 1, o)>>]
         ELSE IF ~f.ok THEN Stream!Leave(IF (t - h) - o < 0 THEN Stream!Invalid(f.d) ELSE f.d, Seg(p, a))
         ELSE Stream!Enter(Moved(f.d, -((t - h) - o)), n, Seg(p, a) \o Stream!Bytes(f.d, 0, -((t - h) - o)))
  <2>1. Stream!Round("string", r) = Stream!stringRound(r)
    BY <1>2 DEF Stream!Round
  <2>2. ~(t - h < 0)
    BY <1>8
  <2>3. Stream!Bytes(r.d, h, t) = Seg(y, a) /\ r.data \o Seg(y, a) = Seg(p, a)
    BY <1>4, <1>6, <1>7
  <2> QED
    BY <1>7, <1>15, <1>16, <2>1, <2>2, <2>3 DEF Stream!stringRound, Moved
<1>18. (t - h) - o = a - v
  BY <1>8, <1>12
<1>19. CASE v < a
  <2>1. c = m /\ v = z
    <3>1. o < a - y
      BY <1>12, <1>19
    <3>2. ~(B[c] - B[j] >= a - y)
      BY <1>10, <1>12, <3>1
    <3>3. c = m
      BY <1>9, <3>2
    <3> QED
      BY <1>10, <1>12, <3>3
  <2>2. h + o \in Nat /\ h + o <= t /\ v = (a - t) + (h + o)
    BY <1>8, <1>12, <1>19
  <2>3. Holds(Moved(r.d, h + o), v)
    <3>1. Window(r.d)
      BY <1>4 DEF Holds
    <3> QED
      BY <1>7, <2>2, <3>1, MovesTo
  <2>4. PICK s : /\ s.d = Moved(r.d, h + o) /\ s = Stream!Round("string", r)
                 /\ s.x = IF r.data = <<>> THEN <<"alias", h, h + o>> ELSE <<"copy", r.data \o SubSeq(Seg(y, a), 1, o)>>
    <3>1. (t - h) - o > 0
      BY <1>18, <1>19
    <3>2. PICK x : x = IF r.data = <<>> THEN <<"alias", h, h + o>> ELSE <<"copy", r.data \o SubSeq(Seg(y, a), 1, o)>>
      OBVIOUS
    <3>3. Stream!Round("string", r) = [d |-> Moved(r.d, h + o), x |-> x]
      BY <1>17, <3>1, <3>2
    <3>4. PICK s : s = [d |-> Moved(r.d, h + o), x |-> x]
      OBVIOUS
    <3>5. s.d = Moved(r.d, h + o) /\ s.x = x
      BY <3>4
    <3> QED
      BY <3>2, <3>3, <3>4, <3>5
  <2>5. Stream!Look(s.d, s.x) = Seg(p, v)
    <3>1. CASE r.data = <<>>
      <4>1. p = y
        <5>1. Seg(p, y) = <<>> /\ p \in Nat
          BY <1>1, <1>4, <3>1
        <5>2. y <= Len(input)
          BY <1>1, <1>8
        <5> QED
          BY <1>5, <5>1, <5>2, SegEmpty
      <4>2. Stream!Bytes(r.d, h, h + o) = Seg((r.d.at - r.d.tail) + h, (r.d.at - r.d.tail) + (h + o))
        <5>1. Window(r.d)
          BY <1>4 DEF Holds
        <5>2. h <= h + o /\ h + o <= r.d.tail
          BY <1>7, <2>2
        <5> QED
          BY <2>2, <5>1, <5>2, BytesAre
      <4>3. (a - t) + h = y
        BY <1>8
      <4>4. Stream!Bytes(r.d, h, h + o) = Seg(p, v)
        BY <1>7, <2>2, <4>1, <4>2, <4>3
      <4>5. s.d.buf = r.d.buf
        <5>1. Window(r.d) /\ h + o \in Int
          BY <1>4, <2>2 DEF Holds
        <5>2. Moved(r.d, h + o).buf = r.d.buf
          BY <5>1, HeadMoves
        <5> QED
          BY <2>4, <5>2
      <4>6. Stream!Bytes(s.d, h, h + o) = Stream!Bytes(r.d, h, h + o)
        BY <4>5 DEF Stream!Bytes
      <4>7. s.x = <<"alias", h, h + o>>
        BY <2>4, <3>1
      <4>8. Stream!Look(s.d, s.x) = Stream!Bytes(s.d, h, h + o)
        BY <4>7 DEF Stream!Look
      <4> QED
        BY <4>4, <4>6, <4>8
    <3>2. CASE r.data # <<>>
      <4>1. v - y = o
        BY <1>12
      <4>2. SubSeq(Seg(y, a), 1, v - y) = Seg(y, v)
        <5>1. y <= v /\ v <= a /\ a <= Len(input)
          BY <1>8, <1>12, <1>19
        <5> QED
          BY <5>1, SegPart
      <4>3. Seg(p, y) \o Seg(y, v) = Seg(p, v)
        <5>1. p <= y /\ y <= v /\ v <= Len(input)
          BY <1>1, <1>5, <1>12, <1>14
        <5> QED
          BY <1>1, <5>1, SegJoin
      <4>4. r.data \o SubSeq(Seg(y, a), 1, o) = Seg(p, v)
        BY <1>4, <4>1, <4>2, <4>3
      <4>5. s.x = <<"copy", Seg(p, v)>>
        BY <2>4, <3>2, <4>4
      <4> QED
        BY <4>5 DEF Stream!Look
    <3> QED
      BY <3>1, <3>2
  <2>6. s.x # <<>>
    <3>1. CASE r.data = <<>>
      <4>1. s.x = <<"alias", h, h + o>>
        BY <2>4, <3>1
      <4> QED
        BY <4>1, NotEmpty
    <3>2. CASE r.data # <<>>
      <4>1. s.x = <<"copy", r.data \o SubSeq(Seg(y, a), 1, o)>>
        BY <2>4, <3>2
      <4> QED
        BY <4>1, NotEmpty
    <3> QED
      BY <3>1, <3>2
  <2>7. Cut(s, p, z, z)
    BY <2>1, <2>3, <2>4, <2>5, <2>6 DEF Cut
  <2> QED
    BY <1>2, <1>6, <2>4, <2>7
<1>20. CASE ~(v < a)
  <2>1. a <= v /\ a < Len(input)
    BY <1>14, <1>20
  <2>2. /\ f.ok /\ Window(f.d) /\ f.d.tail \in Nat /\ f.d.at \in Nat /\ a < f.d.at
        /\ f.d.at - f.d.tail = a /\ f.d.at = a + f.d.tail
        /\ f.d.tail >= MinChunk \/ f.d.at = Len(input)
        /\ \A k \in Nat : k <= f.d.tail => Stream!Bytes(f.d, 0, k) = Seg(a, a + k)
    <3>1. Window(r.d) /\ r.d.at < Len(input)
      BY <1>4, <1>7, <2>1 DEF Holds
    <3> QED
      BY <1>7, <1>15, <3>1, Refilled
  <2>3. PICK g, b, k \in Nat : g = f.d.tail /\ b = f.d.at /\ k = v - a
    <3>1. v - a \in Nat
      BY <2>1
    <3> QED
      BY <2>2, <3>1
  <2>4. a + k = v /\ b = a + g /\ a < b /\ -((t - h) - o) = k /\ (t - h) - o <= 0
    <3>1. a + k = v /\ -(a - v) = k /\ a - v <= 0
      BY <2>1, <2>3
    <3>2. b = a + g /\ a < b
      BY <2>2, <2>3
    <3> QED
      BY <1>18, <3>1, <3>2
  <2>5. k <= g
    <3>1. CASE c = j
      <4>1. v = y
        BY <1>10, <1>12, <3>1
      <4>2. k = 0
        BY <1>8, <2>1, <2>3, <4>1
      <4> QED
        BY <4>2
    <3>2. CASE c # j
      <4>1. c \in 1..m /\ c - 1 \in 0..m
        BY <1>1, <1>9, <3>2
      <4>2. PICK b0 \in Nat, x \in 1..4 : b0 = B[c - 1] /\ x = w[c]
        BY <1>1, <4>1
      <4>3. bc = b0 + x /\ b0 - bj < a - y /\ x <= MinChunk + 1
        BY <1>1, <1>9, <1>10, <3>2, <4>1, <4>2 DEF Fits
      <4>4. v - a < x
        <5>1. b0 - bj = o - x
          BY <1>12, <4>3
        <5> QED
          BY <1>12, <4>3, <5>1
      <4>5. CASE f.d.tail >= MinChunk
        <5>1. PICK mc \in Nat : mc = MinChunk
          BY StreamAssumption
        <5>2. k < mc + 1
          BY <2>3, <4>3, <4>4, <5>1
        <5>3. g >= mc
          BY <2>3, <4>5, <5>1
        <5> QED
          BY <5>2, <5>3
      <4>6. CASE f.d.at = Len(input)
        <5>1. b = Len(input)
          BY <2>3, <4>6
        <5>2. v < b
          BY <1>14, <5>1
        <5> QED
          BY <2>4, <5>2
      <4> QED
        BY <2>2, <4>5, <4>6
    <3> QED
      BY <3>1, <3>2
  <2>6. Stream!Bytes(f.d, 0, k) = Seg(a, v)
    BY <2>2, <2>3, <2>4, <2>5
  <2>7. Seg(p, a) \o Seg(a, v) = Seg(p, v)
    <3>1. p <= a /\ v <= Len(input)
      BY <1>1, <1>5, <1>8, <1>14
    <3> QED
      BY <1>1, <2>1, <3>1, SegJoin
  <2>8. Stream!Round("string", r) = Stream!Enter(Moved(f.d, k), n, Seg(p, v))
    <3>1. PICK x : x = (t - h) - o
      OBVIOUS
    <3>2. ~(x > 0) /\ -x = k
      BY <1>18, <2>1, <2>4, <3>1
    <3>3. Stream!Round("string", r) = Stream!Enter(Moved(f.d, -x), n, Seg(p, a) \o Stream!Bytes(f.d, 0, -x))
      BY <1>17, <2>2, <3>1, <3>2
    <3> QED
      BY <2>6, <2>7, <3>2, <3>3
  <2>9. Holds(Moved(f.d, k), v) /\ Moved(f.d, k).at = b
    <3>1. k <= f.d.tail /\ v = (f.d.at - f.d.tail) + k
      BY <2>2, <2>3, <2>4, <2>5
    <3>2. Holds(Moved(f.d, k), v)
      BY <2>2, <3>1, MovesTo
    <3>3. k \in Int
      OBVIOUS
    <3> QED
      BY <2>2, <2>3, <3>2, <3>3, HeadMoves
  <2>10. Seg(p, v) \in Seq(Byte)
    <3>1. p <= v /\ v <= Len(input)
      BY <1>1, <1>5, <1>12, <1>14
    <3> QED
      BY <1>1, <3>1, SegIs
  <2>11. PICK s : s = Stream!Enter(Moved(f.d, k), n, Seg(p, v))
    OBVIOUS
  <2>12. s \in Looping /\ s.d = Moved(f.d, k) /\ s.n = n /\ s.data = Seg(p, v)
    <3>1. Window(Moved(f.d, k)) /\ n \in Int
      BY <2>9 DEF Holds
    <3> QED
      BY <2>10, <2>11, <3>1, EnterIs
  <2>13. s \in StringLooping(p, m, B, U)
    <3>1. v = p + B[c] /\ Holds(s.d, v) /\ s.n = U[c] /\ s.data = Seg(p, v)
      BY <1>10, <1>12, <2>9, <2>12
    <3> QED
      BY <2>12, <3>1 DEF StringLooping
  <2>14. s.d.at > r.d.at
    BY <1>7, <2>4, <2>9, <2>12
  <2> QED
    BY <1>2, <1>6, <2>8, <2>11, <2>13, <2>14
<1> QED
  BY <1>19, <1>20

-----------------------------------------------------------------------------
(* The operations                                                          *)

(* A value that is still in the buffer is cut out of it.                   *)
LEMMA AliasCuts ==
  ASSUME InputOK, NEW d, NEW p \in Nat, Holds(d, p), NEW e \in Nat, p <= e, NEW k, k = d.head + (e - p), k <= d.tail,
         NEW h \in Nat, h <= d.tail, NEW y, y = (d.at - d.tail) + h,
         NEW r, r = [d |-> Moved(d, h), x |-> <<"alias", d.head, k>>]
  PROVE  Cut(r, p, e, y)
<1>1. /\ Window(d) /\ d.head \in Nat /\ d.tail \in Nat /\ d.at \in Nat /\ d.at - d.tail = p - d.head
  <2>1. p <= p
    OBVIOUS
  <2> QED
    BY <2>1, RestOf DEF Holds
<1>2. PICK g, t, a \in Nat : g = d.head /\ t = d.tail /\ a = d.at
  BY <1>1
<1>3. k = g + (e - p) /\ a - t = p - g
  BY <1>1, <1>2
<1>4. k \in Nat /\ g <= k /\ (a - t) + g = p /\ (a - t) + k = e
  BY <1>3
<1>5. Stream!Bytes(d, g, k) = Seg((d.at - d.tail) + g, (d.at - d.tail) + k)
  BY <1>1, <1>4, BytesAre
<1>6. Stream!Bytes(d, g, k) = Seg(p, e)
  BY <1>2, <1>4, <1>5
<1>7. Holds(r.d, y)
  BY <1>1, MovesTo
<1>8. r.d.buf = d.buf
  <2>1. Moved(d, h).buf = d.buf
    BY <1>1, h \in Int, HeadMoves
  <2> QED
    BY <2>1
<1>9. r.x = <<"alias", g, k>>
  BY <1>2
<1>10. Stream!Look(r.d, r.x) = Stream!Bytes(r.d, g, k)
  BY <1>9 DEF Stream!Look
<1>11. Stream!Bytes(r.d, g, k) = Stream!Bytes(d, g, k)
  BY <1>8 DEF Stream!Bytes
<1>12. r.x # <<>>
  BY <1>9, NotEmpty
<1> QED
  BY <1>6, <1>7, <1>10, <1>11, <1>12 DEF Cut

(* Once something is in the buffer: its numbers, and what is left in it.   *)
LEMMA FilledUp ==
  ASSUME InputOK, NEW d, NEW p \in Nat, Holds(d, p), p < Len(input), NEW f, f = Stream!Filled(d)
  PROVE  /\ f.ok /\ Window(f.d) /\ Holds(f.d, p)
         /\ Stream!Bytes(f.d, f.d.head, f.d.tail) = Seg(p, f.d.at)
         /\ f.d.head \in Nat /\ f.d.tail \in Nat /\ f.d.at \in Nat /\ f.d.at <= Len(input)
         /\ f.d.head < f.d.tail /\ f.d.tail - f.d.head = f.d.at - p /\ f.d.at - f.d.tail = p - f.d.head /\ p < f.d.at
<1>1. f.ok /\ Holds(f.d, p) /\ f.d.head < f.d.tail
  BY FilledIs
<1>2. p <= p
  OBVIOUS
<1>3. /\ Stream!Bytes(f.d, f.d.head, f.d.tail) = Seg(p, f.d.at) /\ f.d.at \in Nat /\ f.d.at <= Len(input)
      /\ f.d.tail - f.d.head = f.d.at - p
      /\ f.d.head \in Nat /\ f.d.tail \in Nat /\ f.d.at - f.d.tail = p - f.d.head
  BY <1>1, <1>2, RestOf
<1>4. PICK h, t, a \in Nat : h = f.d.head /\ t = f.d.tail /\ a = f.d.at
  BY <1>3
<1>5. h < t /\ t - h = a - p
  BY <1>1, <1>3, <1>4
<1>6. p < a
  BY <1>5
<1> QED
  BY <1>1, <1>3, <1>4, <1>6 DEF Holds

(* next reads n bytes.                                                     *)
LEMMA NextCuts ==
  ASSUME InputOK, NEW d, NEW p \in Nat, NEW e \in Nat, p <= e, e < Len(input), Holds(d, p), NEW n, n = e - p
  PROVE  Cut(Stream!next(d, n), p, e, e)
<1>0. Len(input) \in Nat /\ p < Len(input) /\ e <= Len(input) /\ n \in Nat
  BY DEF InputOK
<1>1. PICK f : f = Stream!Filled(d)
  OBVIOUS
<1>2. /\ f.ok /\ Window(f.d) /\ Holds(f.d, p)
      /\ Stream!Bytes(f.d, f.d.head, f.d.tail) = Seg(p, f.d.at)
      /\ f.d.head \in Nat /\ f.d.tail \in Nat /\ f.d.at \in Nat /\ f.d.at <= Len(input)
      /\ f.d.head < f.d.tail /\ f.d.tail - f.d.head = f.d.at - p /\ f.d.at - f.d.tail = p - f.d.head /\ p < f.d.at
  BY <1>0, <1>1, FilledUp
<1>3. PICK h, t, a \in Nat : h = f.d.head /\ t = f.d.tail /\ a = f.d.at
  BY <1>2
<1>4. h < t /\ t - h = a - p /\ a - t = p - h /\ p < a
  BY <1>2, <1>3
<1>5. Stream!next(d, n) = IF t - h >= n THEN [d |-> Moved(f.d, h + n), x |-> <<"alias", h, h + n>>]
                          ELSE Stream!Rounds("next", Stream!Enter(f.d, n - (t - h), Seg(p, a)))
  BY <1>1, <1>2, <1>3 DEF Stream!next, Moved
<1>6. CASE t - h >= n
  <2>1. PICK k \in Nat : k = h + n /\ k = h + (e - p) /\ k <= t /\ e = (a - t) + k
    <3>1. h + n \in Nat /\ h + n = h + (e - p) /\ h + n <= t /\ e = (a - t) + (h + n)
      BY <1>0, <1>4, <1>6
    <3> QED
      BY <3>1
  <2>2. PICK r : r = [d |-> Moved(f.d, k), x |-> <<"alias", f.d.head, k>>]
    OBVIOUS
  <2>3. k = f.d.head + (e - p) /\ k <= f.d.tail /\ e = (f.d.at - f.d.tail) + k
    BY <1>3, <2>1
  <2>4. Cut(r, p, e, e)
    BY <1>2, <2>2, <2>3, AliasCuts
  <2>5. Stream!next(d, n) = r
    BY <1>3, <1>5, <1>6, <2>1, <2>2
  <2> QED
    BY <2>4, <2>5
<1>7. CASE ~(t - h >= n)
  <2>1. PICK k \in Nat : k = n - (t - h) /\ k >= 1 /\ a + k = e
    <3>1. n - (t - h) \in Nat /\ n - (t - h) >= 1
      BY <1>0, <1>4, <1>7
    <3>2. a + (n - (t - h)) = e
      BY <1>0, <1>4
    <3> QED
      BY <3>1, <3>2
  <2>2. Seg(p, a) \in Seq(Byte)
    <3>1. p <= a /\ a <= Len(input)
      BY <1>2, <1>3, <1>4
    <3> QED
      BY <3>1, SegIs
  <2>3. PICK q : q = Stream!Enter(f.d, k, Seg(p, a))
    OBVIOUS
  <2>4. q \in Looping /\ q.d = f.d /\ q.n = k /\ q.data = Seg(p, a)
    BY <1>2, <2>2, <2>3, EnterIs
  <2>5. q \in NextLooping(p, e)
    <3>1. Window(q.d) /\ p <= q.d.at /\ q.n >= 1 /\ q.d.at + q.n = e /\ q.data = Seg(p, q.d.at)
      BY <1>2, <1>3, <1>4, <2>1, <2>4
    <3> QED
      BY <2>4, <3>1 DEF NextLooping
  <2>6. Cut(Stream!Rounds("next", q), p, e, e)
    BY <1>0, <2>5, NextLoop
  <2>7. Stream!next(d, n) = Stream!Rounds("next", q)
    BY <1>5, <1>7, <2>1, <2>3
  <2> QED
    BY <2>6, <2>7
<1> QED
  BY <1>6, <1>7

(* until reads up to the byte that ends the value, and over it.            *)
LEMMA UntilCuts ==
  ASSUME InputOK, NEW d, NEW p \in Nat, NEW e \in Nat, ClosesAt(p, e), Holds(d, p)
  PROVE  Cut(Stream!until(d), p, e, e + 1)
<1>0. Len(input) \in Nat /\ p < Len(input) /\ p <= e /\ e < Len(input)
  BY DEF InputOK, ClosesAt
<1>1. PICK f : f = Stream!Filled(d)
  OBVIOUS
<1>2. /\ f.ok /\ Window(f.d) /\ Holds(f.d, p)
      /\ Stream!Bytes(f.d, f.d.head, f.d.tail) = Seg(p, f.d.at)
      /\ f.d.head \in Nat /\ f.d.tail \in Nat /\ f.d.at \in Nat /\ f.d.at <= Len(input)
      /\ f.d.head < f.d.tail /\ f.d.tail - f.d.head = f.d.at - p /\ f.d.at - f.d.tail = p - f.d.head /\ p < f.d.at
  BY <1>0, <1>1, FilledUp
<1>3. PICK h, t, a \in Nat : h = f.d.head /\ t = f.d.tail /\ a = f.d.at
  BY <1>2
<1>4. h < t /\ t - h = a - p /\ a - t = p - h /\ p < a
  BY <1>2, <1>3
<1>5. PICK n : n = Stream!SelectInSeq(Seg(p, a), Stream!Ends)
  OBVIOUS
<1>6. IF e < a THEN n = (e - p) + 1 ELSE n = 0
  <2>1. p <= a /\ a <= Len(input)
    BY <1>2, <1>3, <1>4
  <2>2. Seg(p, a) \in Seq(Byte)
    BY <2>1, SegIs
  <2>3. Finds(Seg(p, a), n, Closings)
    BY <1>5, <2>2, ClosingFound
  <2>4. input[e + 1] \in Closings /\ \A i \in (p + 1)..e : input[i] \notin Closings
    BY DEF ClosesAt
  <2> QED
    BY <1>0, <2>1, <2>3, <2>4, FirstOf
<1>7. Stream!IndexOf(f.d) = n - 1
  BY <1>2, <1>3, <1>5 DEF Stream!IndexOf
<1>8. Stream!until(d) = IF n - 1 >= 0 THEN [d |-> Moved(f.d, h + (n - 1) + 1), x |-> <<"alias", h, h + (n - 1)>>]
                        ELSE Stream!Rounds("until", Stream!Enter(f.d, 0, <<>>))
  BY <1>1, <1>2, <1>3, <1>7 DEF Stream!until, Moved
<1>9. CASE e < a
  <2>1. PICK k, g \in Nat : /\ k = h + (n - 1) /\ g = h + (n - 1) + 1 /\ n - 1 >= 0
                            /\ k = h + (e - p) /\ k <= t /\ g <= t /\ e + 1 = (a - t) + g
    <3>1. n = (e - p) + 1
      BY <1>6, <1>9
    <3>2. h + (n - 1) \in Nat /\ h + (n - 1) + 1 \in Nat /\ n - 1 >= 0 /\ h + (n - 1) = h + (e - p)
      BY <1>0, <3>1
    <3>3. h + (n - 1) <= t /\ h + (n - 1) + 1 <= t
      BY <1>4, <1>9, <3>1
    <3>4. e + 1 = (a - t) + (h + (n - 1) + 1)
      BY <1>4, <3>1
    <3> QED
      BY <3>2, <3>3, <3>4
  <2>2. PICK r : r = [d |-> Moved(f.d, g), x |-> <<"alias", f.d.head, k>>]
    OBVIOUS
  <2>3. k = f.d.head + (e - p) /\ k <= f.d.tail /\ g <= f.d.tail /\ e + 1 = (f.d.at - f.d.tail) + g
    BY <1>3, <2>1
  <2>4. Cut(r, p, e, e + 1)
    BY <1>0, <1>2, <2>2, <2>3, AliasCuts
  <2>5. Stream!until(d) = r
    BY <1>3, <1>8, <2>1, <2>2
  <2> QED
    BY <2>4, <2>5
<1>10. CASE ~(e < a)
  <2>1. ~(n - 1 >= 0)
    BY <1>6, <1>10
  <2>2. PICK q : q = Stream!Enter(f.d, 0, <<>>)
    OBVIOUS
  <2>3. q \in Looping /\ q.d = f.d /\ q.data = <<>>
    <3>1. PICK n0 \in Int : n0 = 0
      OBVIOUS
    <3>2. PICK none \in Seq(Byte) : none = <<>>
      <4>1. <<>> \in Seq(Byte)
        OBVIOUS
      <4> QED
        BY <4>1
    <3>3. q = Stream!Enter(f.d, n0, none) /\ Window(f.d)
      BY <1>2, <2>2, <3>1, <3>2
    <3>4. q \in Looping /\ q.d = f.d /\ q.data = none
      BY <3>3, EnterIs
    <3> QED
      BY <3>2, <3>4
  <2>4. Seg(p, p) = <<>>
    <3>1. p <= p /\ p <= Len(input)
      BY <1>0
    <3> QED
      BY <3>1, SegEmpty
  <2>5. q.d.at <= e /\ p <= p
    BY <1>3, <1>10, <2>3
  <2>6. q \in UntilLooping(p, e)
    <3>1. Holds(q.d, p) /\ q.data = Seg(p, p)
      BY <1>2, <2>3, <2>4
    <3> QED
      BY <2>3, <2>5, <3>1 DEF UntilLooping
  <2>7. Cut(Stream!Rounds("until", q), p, e, e + 1)
    BY <2>6, UntilLoop
  <2> QED
    BY <1>8, <2>1, <2>2, <2>7
<1> QED
  BY <1>9, <1>10

(* readUint64 reads the digits, and the byte after them.                   *)
LEMMA DigitCuts ==
  ASSUME InputOK, NEW d, NEW p \in Nat, NEW e \in Nat, EndsDigits(p, e), p < e, Holds(d, p)
  PROVE  Cut(Stream!readUint64(d), p, e, e + 1)
<1>0. Len(input) \in Nat /\ p < Len(input)
  BY DEF InputOK, EndsDigits
<1>1. PICK f : f = Stream!Filled(d)
  OBVIOUS
<1>2. /\ f.ok /\ Window(f.d) /\ Holds(f.d, p)
      /\ f.d.head \in Nat /\ f.d.tail \in Nat /\ f.d.at \in Nat /\ f.d.at <= Len(input)
      /\ f.d.head < f.d.tail /\ f.d.tail - f.d.head = f.d.at - p /\ f.d.at - f.d.tail = p - f.d.head /\ p < f.d.at
  BY <1>0, <1>1, FilledUp
<1>3. PICK h, t, a \in Nat : h = f.d.head /\ t = f.d.tail /\ a = f.d.at
  BY <1>2
<1>4. h < t /\ a - t = p - h
  BY <1>2, <1>3
<1>5. PICK k, y \in Nat : k = h + 1 /\ y = p + 1
  <2>1. h + 1 \in Nat /\ p + 1 \in Nat
    OBVIOUS
  <2> QED
    BY <2>1
<1>6. k <= t /\ y = (a - t) + k /\ (a - t) + h = p /\ p <= y /\ y <= e /\ h <= k
  BY <1>4, <1>5
<1>7. Stream!Bytes(f.d, h, k) = Seg(p, y)
  <2>1. k <= f.d.tail
    BY <1>3, <1>6
  <2>2. Stream!Bytes(f.d, h, k) = Seg((f.d.at - f.d.tail) + h, (f.d.at - f.d.tail) + k)
    BY <1>2, <1>6, <2>1, BytesAre
  <2> QED
    BY <1>3, <1>6, <2>2
<1>8. Holds(Moved(f.d, k), y)
  <2>1. k <= f.d.tail /\ y = (f.d.at - f.d.tail) + k
    BY <1>3, <1>6
  <2> QED
    BY <1>2, <2>1, MovesTo
<1>9. PICK q : q = Stream!Enter(Moved(f.d, k), 0, Seg(p, y))
  OBVIOUS
<1>10. q \in Looping /\ q.d = Moved(f.d, k) /\ q.data = Seg(p, y)
  <2>1. PICK n0 \in Int : n0 = 0
    OBVIOUS
  <2>2. y <= Len(input)
    <3>1. e < Len(input)
      BY DEF EndsDigits
    <3> QED
      BY <1>0, <1>6, <3>1
  <2>3. Seg(p, y) \in Seq(Byte)
    BY <1>6, <2>2, SegIs
  <2>4. Window(Moved(f.d, k))
    BY <1>8 DEF Holds
  <2>5. q = Stream!Enter(Moved(f.d, k), n0, Seg(p, y))
    BY <1>9, <2>1
  <2> QED
    BY <2>3, <2>4, <2>5, EnterIs
<1>11. q \in DigitLooping(p, e)
  BY <1>6, <1>8, <1>10 DEF DigitLooping
<1>12. Cut(Stream!Rounds("digits", q), p, e, e + 1)
  BY <1>11, DigitLoop
<1>13. Stream!readUint64(d) = Stream!Rounds("digits", q)
  BY <1>1, <1>3, <1>5, <1>7, <1>9 DEF Stream!readUint64, Moved
<1> QED
  BY <1>12, <1>13

(* readStringAsBytes reads n units.                                        *)
LEMMA StringCuts ==
  ASSUME InputOK, NEW p, NEW w, NEW m, NEW B, NEW U, StringAt(p, w, m, B, U), Fits(w, m),
         NEW d, Holds(d, p), NEW z \in Nat, z = p + B[m]
  PROVE  Cut(Stream!readStringAsBytes(d, U[0]), p, z, z)
<1>1. /\ m \in Nat /\ B \in [0..m -> Nat] /\ U \in [0..m -> Nat] /\ p \in Nat /\ B[0] = 0
      /\ Measures(w, m, B, U) /\ z < Len(input) /\ Len(input) \in Nat /\ 0 \in 0..m /\ m \in 0..m
  BY DEF StringAt, Measures, InputOK
<1>2. PICK n, bm \in Nat : n = U[0] /\ bm = B[m]
  BY <1>1
<1>3. z = p + bm /\ p <= z /\ p < Len(input) /\ p <= p
  BY <1>1, <1>2
<1>4. n >= m /\ bm <= 3 * n
  <2>1. U[0] >= m - 0 /\ B[m] - B[0] <= 3 * U[0]
    BY <1>1, UnitsLeft
  <2> QED
    BY <1>1, <1>2, <2>1
<1>5. CASE n = 0
  <2>1. bm = 0
    BY <1>4, <1>5
  <2>2. z = p
    BY <1>1, <1>3, <2>1
  <2>3. Seg(p, p) = <<>>
    <3>1. p <= Len(input)
      BY <1>1, <1>3
    <3> QED
      BY <1>1, <1>3, <3>1, SegEmpty
  <2>4. PICK r : r = [d |-> d, x |-> <<"copy", <<>>>>]
    OBVIOUS
  <2>5. Stream!readStringAsBytes(d, U[0]) = r
    BY <1>2, <1>5, <2>4 DEF Stream!readStringAsBytes
  <2>6. r.d = d /\ r.x = <<"copy", Seg(p, p)>>
    BY <2>3, <2>4
  <2>7. r.x # <<>>
    BY <2>6, NotEmpty
  <2>8. Stream!Look(r.d, r.x) = Seg(p, p)
    BY <2>6 DEF Stream!Look
  <2>9. Cut(r, p, p, p)
    BY <2>6, <2>7, <2>8 DEF Cut
  <2> QED
    BY <2>2, <2>5, <2>9
<1>6. CASE n # 0
  <2>1. PICK f : f = Stream!Filled(d)
    OBVIOUS
  <2>2. /\ f.ok /\ Window(f.d) /\ Holds(f.d, p)
        /\ Stream!Bytes(f.d, f.d.head, f.d.tail) = Seg(p, f.d.at)
        /\ f.d.head \in Nat /\ f.d.tail \in Nat /\ f.d.at \in Nat /\ f.d.at <= Len(input)
        /\ f.d.head < f.d.tail /\ f.d.tail - f.d.head = f.d.at - p /\ f.d.at - f.d.tail = p - f.d.head /\ p < f.d.at
    <3>1. p \in Nat /\ p < Len(input)
      BY <1>1, <1>3
    <3> QED
      BY <2>1, <3>1, FilledUp
  <2>3. PICK h, t, a \in Nat : h = f.d.head /\ t = f.d.tail /\ a = f.d.at
    BY <2>2
  <2>4. h < t /\ t - h = a - p /\ a - t = p - h /\ p < a /\ a <= Len(input)
    BY <2>2, <2>3
  <2>5. PICK fast : fast = Stream!chars(Seg(p, a), n)
    OBVIOUS
  <2>6. Stream!readStringAsBytes(d, U[0]) =
          IF t - h < 3 * n THEN Stream!Rounds("string", Stream!Enter(f.d, n, <<>>))
          ELSE IF fast.ok THEN [d |-> Moved(f.d, h + fast.off), x |-> <<"alias", h, h + fast.off>>]
          ELSE [d |-> Stream!Invalid(f.d), x |-> <<"copy", <<>>>>]
    BY <1>2, <1>6, <2>1, <2>2, <2>3, <2>5 DEF Stream!readStringAsBytes, Moved
  <2>7. CASE t - h < 3 * n
    <3>0. PICK u \in Int : u = n
      OBVIOUS
    <3>1. PICK none \in Seq(Byte) : none = <<>>
      <4>1. <<>> \in Seq(Byte)
        OBVIOUS
      <4> QED
        BY <4>1
    <3>2. PICK q : q = Stream!Enter(f.d, u, none)
      OBVIOUS
    <3>3. q \in Looping /\ q.d = f.d /\ q.n = u /\ q.data = none
      <4>1. Window(f.d)
        BY <2>2
      <4> QED
        BY <3>2, <4>1, EnterIs
    <3>4. Seg(p, p) = <<>>
      <4>1. p <= Len(input)
        BY <1>1, <1>3
      <4> QED
        BY <1>1, <1>3, <4>1, SegEmpty
    <3>5. p = p + B[0]
      BY <1>1
    <3>6. q.n = U[0] /\ q.data = Seg(p, p) /\ Holds(q.d, p)
      BY <1>2, <2>2, <3>0, <3>1, <3>3, <3>4
    <3>7. q \in StringLooping(p, m, B, U)
      BY <1>1, <3>3, <3>5, <3>6 DEF StringLooping
    <3>8. Cut(Stream!Rounds("string", q), p, z, z)
      BY <3>7, StringLoop
    <3> QED
      BY <2>6, <2>7, <3>0, <3>1, <3>2, <3>8
  <2>8. CASE ~(t - h < 3 * n)
    <3>1. PICK c : Over(m, B, U, 0, p, a, c)
      <4>1. p = p + B[0] /\ p <= a
        BY <1>1, <2>4
      <4> QED
        BY <1>1, <2>4, <4>1, CharsOver
    <3>2. c \in 0..m /\ (c = m \/ B[c] - B[0] >= a - p) /\ Stream!chars(Seg(p, a), U[0]) = After(B, U, 0, c)
      BY <3>1 DEF Over
    <3>3. bm <= a - p
      BY <1>4, <2>4, <2>8
    <3>4. c = m
      <4> SUFFICES ASSUME c # m PROVE FALSE
        OBVIOUS
      <4>1. B[c] < B[m]
        <5>1. c <= m
          BY <1>1, <3>2
        <5> QED
          BY <1>1, <3>2, <5>1, BytesGrow
      <4>2. PICK bc \in Nat : bc = B[c]
        BY <1>1, <3>2
      <4>3. bc >= a - p
        BY <1>1, <3>2, <4>2
      <4>4. bc < bm
        BY <1>2, <4>1, <4>2
      <4> QED
        BY <1>1, <3>3, <4>3, <4>4
    <3>5. fast.ok = TRUE /\ fast.off = bm
      <4>1. B[m] - B[0] = bm
        BY <1>1, <1>2
      <4>2. fast = CharState(bm, U[m])
        BY <1>2, <2>5, <3>2, <3>4, <4>1 DEF After
      <4> QED
        BY <4>2 DEF CharState
    <3>6. PICK k \in Nat : k = h + bm /\ k = h + (z - p) /\ k <= t /\ z = (a - t) + k
      <4>1. h + bm \in Nat /\ h + bm = h + (z - p)
        BY <1>1, <1>3
      <4>2. h + bm <= t
        BY <2>4, <3>3
      <4>3. z = (a - t) + (h + bm)
        <5>1. p \in Nat /\ z = p + bm
          BY <1>1, <1>3
        <5>2. a - t = p - h
          BY <2>4
        <5> QED
          BY <5>1, <5>2
      <4> QED
        BY <4>1, <4>2, <4>3
    <3>7. PICK r : r = [d |-> Moved(f.d, k), x |-> <<"alias", f.d.head, k>>]
      OBVIOUS
    <3>8. k = f.d.head + (z - p) /\ k <= f.d.tail /\ z = (f.d.at - f.d.tail) + k
      BY <2>3, <3>6
    <3>9. Cut(r, p, z, z)
      BY <1>1, <1>3, <2>2, <3>7, <3>8, AliasCuts
    <3>10. Stream!readStringAsBytes(d, U[0]) = r
      BY <2>3, <2>6, <2>8, <3>5, <3>6, <3>7
    <3> QED
      BY <3>9, <3>10
  <2> QED
    BY <2>7, <2>8
<1> QED
  BY <1>5, <1>6

-----------------------------------------------------------------------------
(* The input                                                               *)

(* all is made of the pieces ss, one after the other; O is where each      *)
(* begins.                                                                 *)
Offsets(ss, n, O) == O \in [0..n -> Nat] /\ O[0] = 0 /\ \A j \in 1..n : O[j] = O[j - 1] + Len(ss[j])

Pieces(S, ss, n, O, all) ==
  /\ Offsets(ss, n, O) /\ all \in Seq(S) /\ Len(all) = O[n]
  /\ \A j \in 1..n : \A i \in 1..Len(ss[j]) : all[O[j - 1] + i] = ss[j][i]

(* Pieces begin somewhere.                                                 *)
LEMMA OffsetsExist ==
  ASSUME NEW S, NEW n \in Nat, NEW ss \in [1..n -> Seq(S)]
  PROVE  \E O : Offsets(ss, n, O)
<1>1. PICK next : next = [q \in (1..n) \X Nat |-> q[2] + Len(ss[q[1]])]
  OBVIOUS
<1>2. next \in [(1..n) \X Nat -> Nat]
  <2> SUFFICES ASSUME NEW q \in (1..n) \X Nat PROVE q[2] + Len(ss[q[1]]) \in Nat
    BY <1>1
  <2>1. ss[q[1]] \in Seq(S) /\ q[2] \in Nat
    OBVIOUS
  <2> QED
    BY <2>1
<1>3. PICK zero \in Nat : zero = 0
  OBVIOUS
<1>4. PICK O : Steps(O, Nat, n, zero, next)
  BY <1>2, <1>3, StepsExist
<1>5. ASSUME NEW j \in 1..n PROVE O[j] = O[j - 1] + Len(ss[j])
  <2>1. j - 1 \in 0..n
    OBVIOUS
  <2>2. O[j - 1] \in Nat /\ O[j] = next[<<j, O[j - 1]>>]
    BY <1>4, <2>1 DEF Steps
  <2> QED
    BY <1>1, <2>2
<1> QED
  BY <1>3, <1>4, <1>5 DEF Offsets, Steps

(* Pieces begin where the ones before them end.                            *)
LEMMA OffsetsGrow ==
  ASSUME NEW S, NEW n \in Nat, NEW ss \in [1..n -> Seq(S)], NEW O, Offsets(ss, n, O), NEW j \in 0..n, NEW k \in 0..n, j <= k
  PROVE  O[j] <= O[k]
<1>1. O \in [0..n -> Nat] /\ \A i \in 1..n : O[i] = O[i - 1] + Len(ss[i])
  BY DEF Offsets
<1>2. PICK T : T = {c \in Nat : j <= c /\ c <= n => O[j] <= O[c]}
  OBVIOUS
<1>3. 0 \in T
  BY <1>1, <1>2
<1>4. ASSUME NEW c \in Nat, c \in T PROVE c + 1 \in T
  <2> SUFFICES ASSUME j <= c + 1, c + 1 <= n PROVE O[j] <= O[c + 1]
    BY <1>2
  <2>1. CASE j = c + 1
    BY <1>1, <2>1
  <2>2. CASE j # c + 1
    <3>1. j <= c /\ c <= n /\ c \in 0..n
      BY <2>2
    <3>2. O[j] <= O[c]
      BY <1>2, <1>4, <3>1
    <3>3. PICK i \in 1..n : i = c + 1 /\ i - 1 = c
      OBVIOUS
    <3>4. PICK l \in Nat : l = Len(ss[i])
      BY <3>3
    <3>5. O[i] = O[c] + l /\ O[c] \in Nat /\ O[j] \in Nat
      BY <1>1, <3>1, <3>3, <3>4
    <3>6. O[j] <= O[i]
      BY <3>2, <3>5
    <3> QED
      BY <3>3, <3>6
  <2> QED
    BY <2>1, <2>2
<1>5. Nat \subseteq T
  BY <1>3, <1>4, Induction
<1>6. k \in Nat /\ k <= n
  OBVIOUS
<1> QED
  BY <1>2, <1>5, <1>6

(* The same pieces begin at the same places.                               *)
LEMMA OffsetsAgree ==
  ASSUME NEW n \in Nat, NEW k \in Nat, k <= n, NEW ss, NEW tt, \A i \in 1..k : tt[i] = ss[i],
         NEW O, Offsets(ss, n, O), NEW P, Offsets(tt, k, P)
  PROVE  \A i \in 0..k : P[i] = O[i]
<1>1. PICK T : T = {c \in Nat : c <= k => P[c] = O[c]}
  OBVIOUS
<1>2. 0 \in T
  BY <1>1 DEF Offsets
<1>3. ASSUME NEW c \in Nat, c \in T PROVE c + 1 \in T
  <2> SUFFICES ASSUME c + 1 <= k PROVE P[c + 1] = O[c + 1]
    BY <1>1
  <2>1. PICK i \in 1..k : i = c + 1 /\ i - 1 = c /\ i \in 1..n
    OBVIOUS
  <2>2. P[i] = P[c] + Len(tt[i]) /\ O[i] = O[c] + Len(ss[i])
    BY <2>1 DEF Offsets
  <2>3. P[c] = O[c]
    BY <1>1, <1>3
  <2> QED
    BY <2>1, <2>2, <2>3
<1>4. Nat \subseteq T
  BY <1>2, <1>3, Induction
<1> QED
  BY <1>1, <1>4

(* FlattenSeq puts the pieces together.                                    *)
LEMMA FlattenIs ==
  ASSUME NEW S, NEW n \in Nat, NEW ss \in [1..n -> Seq(S)], NEW O, Offsets(ss, n, O)
  PROVE  Pieces(S, ss, n, O, Stream!FlattenSeq(ss))
<1>1. ss \in Seq(Seq(S)) /\ Len(ss) = n
  OBVIOUS
<1>2. O \in [0..n -> Nat] /\ O[0] = 0 /\ \A i \in 1..n : O[i] = O[i - 1] + Len(ss[i])
  BY DEF Offsets
<1>3. CASE n = 0
  <2>1. ss = <<>>
    BY <1>1, <1>3
  <2>2. Stream!FlattenSeq(ss) = <<>>
    BY <1>1, <1>3, <2>1 DEF Stream!FlattenSeq
  <2>3. <<>> \in Seq(S) /\ Len(<<>>) = 0
    OBVIOUS
  <2>4. \A j \in 1..n : FALSE
    BY <1>3
  <2> QED
    BY <1>2, <1>3, <2>2, <2>3, <2>4 DEF Pieces
<1>4. CASE n # 0
  <2> DEFINE Is(g) == g = [i \in 1..n |-> IF i = 1 THEN ss[i] ELSE g[i - 1] \o ss[i]]
  <2>1. PICK h : h = CHOOSE F : Is(F)
    OBVIOUS
  <2>2. Stream!FlattenSeq(ss) = h[n]
    BY <1>1, <1>4, <2>1 DEF Stream!FlattenSeq
  <2>3. PICK m \in Nat : n = m + 1
    <3>1. 0 < n
      BY <1>4
    <3> QED
      BY <3>1, Predecessor
  <2>4. PICK V : V = Seq(S)
    OBVIOUS
  <2>5. PICK next : next = [q \in (1..m) \X V |-> q[2] \o ss[q[1] + 1]]
    OBVIOUS
  <2>6. next \in [(1..m) \X V -> V]
    <3> SUFFICES ASSUME NEW q \in (1..m) \X V PROVE q[2] \o ss[q[1] + 1] \in V
      BY <2>5
    <3>1. q[1] + 1 \in 1..n /\ q[2] \in V
      BY <2>3
    <3>2. ss[q[1] + 1] \in Seq(S) /\ q[2] \in Seq(S)
      BY <2>4, <3>1
    <3> QED
      BY <2>4, <3>2, ConcatProperties
  <2>7. PICK base \in V : base = ss[1]
    <3>1. 1 \in 1..n
      BY <2>3
    <3> QED
      BY <2>4, <3>1
  <2>8. PICK f : Steps(f, V, m, base, next)
    BY <2>6, <2>7, StepsExist
  <2>9. PICK g : g = [i \in 1..n |-> f[i - 1]]
    OBVIOUS
  <2>10. ASSUME NEW i \in 1..n PROVE g[i] = IF i = 1 THEN ss[i] ELSE g[i - 1] \o ss[i]
    <3>1. CASE i = 1
      BY <2>7, <2>8, <2>9, <3>1 DEF Steps
    <3>2. CASE i # 1
      <4>1. PICK k \in 1..m : k = i - 1 /\ k + 1 = i
        <5>1. i - 1 \in 1..m /\ (i - 1) + 1 = i
          BY <2>3, <3>2
        <5> QED
          BY <5>1
      <4>2. k - 1 \in 0..m /\ k \in 1..n
        BY <2>3
      <4>3. f[k] = next[<<k, f[k - 1]>>] /\ f[k - 1] \in V
        BY <2>8, <4>2 DEF Steps
      <4>4. f[k] = f[k - 1] \o ss[k + 1]
        BY <2>5, <4>3
      <4>5. g[i] = f[k] /\ g[i - 1] = f[k - 1]
        BY <2>9, <4>1, <4>2
      <4> QED
        BY <3>2, <4>1, <4>4, <4>5
    <3> QED
      BY <3>1, <3>2
  <2>11. Is(g)
    <3>1. g = [i \in 1..n |-> g[i]]
      BY <2>9
    <3> QED
      BY <2>10, <3>1
  <2>12. Is(h)
    <3> HIDE DEF Is
    <3> QED
      BY <2>1, <2>11
  <2>13. h[1] = ss[1] /\ \A i \in 1..n : i # 1 => h[i] = h[i - 1] \o ss[i]
    <3>1. 1 \in 1..n
      BY <2>3
    <3>2. \A i \in 1..n : h[i] = IF i = 1 THEN ss[i] ELSE h[i - 1] \o ss[i]
      BY <2>12
    <3> HIDE DEF Is
    <3> QED
      BY <3>1, <3>2
  <2> HIDE DEF Is
  <2> DEFINE Good(k) == Pieces(S, ss, k, [i \in 0..k |-> O[i]], h[k])
  <2>14. PICK T : T = {k \in Nat : k + 1 <= n => Good(k + 1)}
    OBVIOUS
  <2>15. 0 \in T
    <3>1. 1 \in 1..n /\ 1 \in 0..n /\ 0 \in 0..n
      BY <2>3
    <3>2. PICK Q : Q = [i \in 0..1 |-> O[i]]
      OBVIOUS
    <3>3. Q \in [0..1 -> Nat] /\ Q[0] = 0 /\ Q[1] = O[1] /\ O[1] = O[0] + Len(ss[1])
      BY <1>2, <3>1, <3>2
    <3>4. ss[1] \in Seq(S) /\ Len(ss[1]) \in Nat
      BY <3>1
    <3>5. Offsets(ss, 1, Q)
      BY <1>2, <3>3, <3>4 DEF Offsets
    <3>6. \A i \in 1..Len(ss[1]) : h[1][Q[0] + i] = ss[1][i]
      BY <2>13, <3>3
    <3>7. Len(h[1]) = Q[1] /\ h[1] \in Seq(S)
      BY <1>2, <2>13, <3>3, <3>4
    <3>8. Pieces(S, ss, 1, Q, h[1])
      BY <3>5, <3>6, <3>7 DEF Pieces
    <3>9. Good(0 + 1)
      BY <3>2, <3>8
    <3> HIDE DEF Good
    <3> QED
      BY <2>14, <3>9
  <2>16. ASSUME NEW k \in Nat, k \in T PROVE k + 1 \in T
    <3> SUFFICES ASSUME (k + 1) + 1 <= n PROVE Good((k + 1) + 1)
      <4> HIDE DEF Good
      <4> QED
        BY <2>14
    <3>1. PICK a \in 1..n : a = k + 1
      OBVIOUS
    <3>2. PICK b \in 1..n : b = a + 1 /\ b - 1 = a /\ b # 1 /\ b = (k + 1) + 1
      BY <3>1
    <3>3. Good(a)
      <4>1. k + 1 <= n
        OBVIOUS
      <4> HIDE DEF Good
      <4> QED
        BY <2>14, <2>16, <3>1, <4>1
    <3>4. PICK P : P = [i \in 0..a |-> O[i]]
      OBVIOUS
    <3>5. PICK Q : Q = [i \in 0..b |-> O[i]]
      OBVIOUS
    <3>6. PICK s, t : s = h[a] /\ t = ss[b]
      OBVIOUS
    <3>7. /\ s \in Seq(S) /\ Len(s) = P[a]
          /\ \A j \in 1..a : \A i \in 1..Len(ss[j]) : s[P[j - 1] + i] = ss[j][i]
      BY <3>3, <3>4, <3>6 DEF Pieces
    <3>8. t \in Seq(S) /\ Len(t) \in Nat
      BY <3>6
    <3>9. h[b] = s \o t
      BY <2>13, <3>2, <3>6
    <3>10. /\ h[b] \in Seq(S) /\ Len(h[b]) = Len(s) + Len(t)
           /\ \A i \in 1..(Len(s) + Len(t)) : h[b][i] = IF i <= Len(s) THEN s[i] ELSE t[i - Len(s)]
      <4>1. PICK u : u = s \o t
        OBVIOUS
      <4>2. s \in Seq(S) /\ t \in Seq(S)
        BY <3>7, <3>8
      <4>3. /\ u \in Seq(S) /\ Len(u) = Len(s) + Len(t)
            /\ \A i \in 1..(Len(s) + Len(t)) : u[i] = IF i <= Len(s) THEN s[i] ELSE t[i - Len(s)]
        BY <4>1, <4>2, ConcatProperties
      <4>4. h[b] = u
        BY <3>9, <4>1
      <4> QED
        BY <4>3, <4>4
    <3>11. Len(s) = O[a] /\ O[a] \in Nat /\ O[b] = O[a] + Len(t)
      <4>1. a \in 0..a /\ a \in 0..n
        OBVIOUS
      <4> QED
        BY <1>2, <3>2, <3>4, <3>6, <3>7, <4>1
    <3>12. Offsets(ss, b, Q)
      <4>1. \A i \in 0..b : i \in 0..n /\ Q[i] = O[i]
        BY <3>5
      <4>2. Q \in [0..b -> Nat]
        BY <1>2, <3>5, <4>1
      <4>3. \A i \in 1..b : i \in 1..n /\ i - 1 \in 0..b /\ i \in 0..b
        OBVIOUS
      <4>4. \A i \in 1..b : Q[i] = Q[i - 1] + Len(ss[i])
        BY <1>2, <4>1, <4>3
      <4>5. Q[0] = 0
        <5>1. 0 \in 0..b
          OBVIOUS
        <5> QED
          BY <1>2, <4>1, <5>1
      <4> QED
        BY <4>2, <4>4, <4>5 DEF Offsets
    <3>13. ASSUME NEW j \in 1..b, NEW i \in 1..Len(ss[j]) PROVE h[b][Q[j - 1] + i] = ss[j][i]
      <4>1. j \in 1..n /\ j - 1 \in 0..b /\ j - 1 \in 0..n /\ j \in 0..n
        OBVIOUS
      <4>2. ss[j] \in Seq(S)
        BY <4>1
      <4>3. PICK o, l \in Nat : o = O[j - 1] /\ l = Len(ss[j])
        BY <1>2, <4>1, <4>2
      <4>4. Q[j - 1] = o /\ i \in 1..l /\ O[j] = o + l
        BY <1>2, <3>5, <4>1, <4>3
      <4>5. CASE j = b
        <5>1. j - 1 = a /\ o = Len(s) /\ l = Len(t)
          BY <3>2, <3>6, <3>11, <4>3, <4>5
        <5>2. o + i \in 1..(Len(s) + Len(t)) /\ ~(o + i <= Len(s)) /\ (o + i) - Len(s) = i
          BY <3>8, <4>4, <5>1
        <5>3. h[b][o + i] = t[i]
          BY <3>10, <5>2
        <5> QED
          BY <3>6, <4>4, <4>5, <5>3
      <4>6. CASE j # b
        <5>1. j \in 1..a /\ j - 1 \in 0..a /\ j <= a /\ a \in 0..n
          BY <3>2, <4>6
        <5>2. s[o + i] = ss[j][i]
          BY <3>4, <3>7, <4>3, <5>1
        <5>3. O[j] <= O[a]
          BY <4>1, <5>1, OffsetsGrow
        <5>4. o + i <= Len(s) /\ o + i \in 1..(Len(s) + Len(t))
          BY <3>8, <3>11, <4>4, <5>3
        <5>5. h[b][o + i] = s[o + i]
          BY <3>10, <5>4
        <5> QED
          BY <4>4, <5>2, <5>5
      <4> QED
        BY <4>5, <4>6
    <3>14. Len(h[b]) = Q[b]
      BY <3>5, <3>10, <3>11
    <3>15. Pieces(S, ss, b, Q, h[b])
      BY <3>10, <3>12, <3>13, <3>14 DEF Pieces
    <3>16. Good(b)
      BY <3>5, <3>15
    <3> HIDE DEF Good
    <3> QED
      BY <3>2, <3>16
  <2>17. Nat \subseteq T
    <3> HIDE DEF Good
    <3> QED
      BY <2>15, <2>16, Induction
  <2>18. Good(n)
    <3>1. Good(m + 1)
      <4> HIDE DEF Good
      <4>1. m + 1 <= n
        BY <2>3
      <4> QED
        BY <2>14, <2>17, <4>1
    <3> HIDE DEF Good
    <3> QED
      BY <2>3, <3>1
  <2>19. O = [i \in 0..n |-> O[i]]
    BY <1>2
  <2> QED
    BY <2>2, <2>18, <2>19
<1> QED
  BY <1>3, <1>4

(* The items.                                                              *)
LEMMA ItemIs ==
  ASSUME NEW it \in Items
  PROVE  /\ it.op \in Stream!Operations /\ it.w \in Seq(1..4) /\ Len(it.w) \in Nat
         /\ it.w \in [1..Len(it.w) -> 1..4] /\ (it.op = "int" => Len(it.w) >= 1)
<1>1. it \in [op : Stream!Operations, w : Seq(1..4)] /\ (it.op = "int" => it.w # <<>>)
  BY StreamAssumption
<1>2. it.op \in Stream!Operations /\ it.w \in Seq(1..4)
  BY <1>1
<1>3. PICK w \in Seq(1..4) : w = it.w
  BY <1>2
<1>4. Len(w) \in Nat /\ w \in [1..Len(w) -> 1..4] /\ (w # <<>> => Len(w) >= 1)
  BY EmptySeq, LenProperties
<1> QED
  BY <1>1, <1>2, <1>3, <1>4

(* The bytes of a character: the first tells how many there are.           *)
LEMMA CharOfIs ==
  ASSUME NEW n \in 1..4
  PROVE  Stream!CharOf(n) \in Seq(0..4) /\ Len(Stream!CharOf(n)) = n /\ Stream!CharOf(n)[1] = n
<1>1. PICK c : c = Stream!CharOf(n)
  OBVIOUS
<1>2. c = [i \in 1..n |-> IF i = 1 THEN n ELSE 0]
  BY <1>1 DEF Stream!CharOf
<1>3. c \in [1..n -> 0..4]
  BY <1>2
<1>4. c \in Seq(0..4) /\ Len(c) = n
  BY <1>2, <1>3
<1>5. c[1] = n
  BY <1>2
<1> QED
  BY <1>1, <1>4, <1>5

(* The characters of four bytes among the last ones.                       *)
Longer(w, m, j) == {i \in (j + 1)..m : w[i] = 4}

(* One character more may be one of them.                                  *)
LEMMA LongerIs ==
  ASSUME NEW m \in Nat, NEW w \in [1..m -> 1..4], NEW j \in 1..m
  PROVE  /\ IsFiniteSet(Longer(w, m, j)) /\ Cardinality(Longer(w, m, j)) \in Nat
         /\ Cardinality(Longer(w, m, j - 1)) = Cardinality(Longer(w, m, j)) + (IF w[j] = 4 THEN 1 ELSE 0)
<1>1. IsFiniteSet(Longer(w, m, j))
  <2>1. IsFiniteSet((j + 1)..m)
    BY FS_Interval
  <2>2. Longer(w, m, j) \subseteq (j + 1)..m
    BY DEF Longer
  <2> QED
    BY <2>1, <2>2, FS_Subset
<1>2. Cardinality(Longer(w, m, j)) \in Nat
  BY <1>1, FS_CardinalityType
<1>3. j \notin Longer(w, m, j)
  BY DEF Longer
<1>4. CASE w[j] = 4
  <2>1. Longer(w, m, j - 1) = Longer(w, m, j) \cup {j}
    BY <1>4 DEF Longer
  <2>2. Cardinality(Longer(w, m, j) \cup {j}) = Cardinality(Longer(w, m, j)) + 1
    BY <1>1, <1>3, FS_AddElement
  <2> QED
    BY <1>1, <1>2, <1>4, <2>1, <2>2
<1>5. CASE w[j] # 4
  <2>1. Longer(w, m, j - 1) = Longer(w, m, j)
    BY <1>5 DEF Longer
  <2> QED
    BY <1>1, <1>2, <1>5, <2>1
<1> QED
  BY <1>4, <1>5

(* No character comes after the last.                                      *)
LEMMA LongerEnds == ASSUME NEW m \in Nat, NEW w PROVE Cardinality(Longer(w, m, m)) = 0 /\ IsFiniteSet(Longer(w, m, m))
<1>1. Longer(w, m, m) = {}
  BY DEF Longer
<1> QED
  BY <1>1, FS_EmptySet

(* The text of an item that is no integer: its characters one after the    *)
(* other, with their units.                                                *)
LEMMA TextOf ==
  ASSUME NEW it \in Items, it.op # "int", NEW m, m = Len(it.w)
  PROVE  \E B, U : /\ Measures(it.w, m, B, U) /\ U[0] = Stream!Utf16Units(it)
                   /\ Stream!Content(it) \in Seq(0..4) /\ Len(Stream!Content(it)) = B[m]
                   /\ \A j \in 1..m : Stream!Content(it)[B[j - 1] + 1] = it.w[j]
<1>1. PICK w : w = it.w
  OBVIOUS
<1>2. m \in Nat /\ w \in [1..m -> 1..4] /\ Len(w) = m /\ DOMAIN w = 1..m
  BY <1>1, ItemIs
<1>3. PICK ss : ss = [i \in 1..m |-> Stream!CharOf(w[i])]
  OBVIOUS
<1>4. ASSUME NEW i \in 1..m
      PROVE  ss[i] \in Seq(0..4) /\ Len(ss[i]) = w[i] /\ ss[i][1] = w[i] /\ w[i] \in 1..4
  <2>1. PICK n \in 1..4 : n = w[i]
    BY <1>2
  <2>2. ss[i] = Stream!CharOf(n)
    BY <1>3, <2>1
  <2> QED
    BY <2>1, <2>2, CharOfIs
<1>5. ss \in [1..m -> Seq(0..4)]
  BY <1>3, <1>4
<1>6. PICK B : Offsets(ss, m, B)
  BY <1>2, <1>5, OffsetsExist
<1>7. PICK all : all = Stream!FlattenSeq(ss)
  OBVIOUS
<1>8. Pieces(0..4, ss, m, B, all)
  BY <1>2, <1>5, <1>6, <1>7, FlattenIs
<1>9. Stream!Content(it) = all
  BY <1>1, <1>2, <1>3, <1>7 DEF Stream!Content
<1>10. PICK U : U = [j \in 0..m |-> (m - j) + Cardinality(Longer(w, m, j))]
  OBVIOUS
<1>11. U \in [0..m -> Nat] /\ U[m] = 0 /\ \A j \in 1..m : U[j - 1] = U[j] + Wide(w[j])
  <2>1. ASSUME NEW j \in 0..m PROVE Cardinality(Longer(w, m, j)) \in Nat
    <3>1. CASE j = m
      BY <1>2, <3>1, LongerEnds
    <3>2. CASE j # m
      <4>1. PICK k \in 1..m : k = j + 1 /\ k - 1 = j
        BY <1>2, <3>2
      <4>2. Cardinality(Longer(w, m, k)) \in Nat
        BY <1>2, LongerIs
      <4>3. Cardinality(Longer(w, m, k - 1)) = Cardinality(Longer(w, m, k)) + (IF w[k] = 4 THEN 1 ELSE 0)
        BY <1>2, LongerIs
      <4> QED
        BY <4>1, <4>2, <4>3
    <3> QED
      BY <3>1, <3>2
  <2>2. ASSUME NEW j \in 0..m PROVE U[j] \in Nat
    <3>1. m - j \in Nat
      BY <1>2
    <3> QED
      BY <1>10, <2>1, <3>1
  <2>3. m \in 0..m
    BY <1>2
  <2>4. U[m] = 0
    BY <1>2, <1>10, <2>3, LongerEnds
  <2>5. ASSUME NEW j \in 1..m PROVE U[j - 1] = U[j] + Wide(w[j])
    <3>1. j \in 0..m /\ j - 1 \in 0..m
      BY <1>2
    <3>2. PICK a, b \in Nat : a = Cardinality(Longer(w, m, j)) /\ b = Cardinality(Longer(w, m, j - 1))
      BY <2>1, <3>1
    <3>3. U[j] = (m - j) + a /\ U[j - 1] = (m - (j - 1)) + b
      BY <1>10, <3>1, <3>2
    <3>4. b = a + (IF w[j] = 4 THEN 1 ELSE 0)
      BY <1>2, <3>2, LongerIs
    <3> QED
      <4>1. (IF w[j] = 4 THEN 1 ELSE 0) \in Nat /\ m - j \in Nat
        BY <1>2, <3>1
      <4>2. PICK c \in Nat : c = IF w[j] = 4 THEN 1 ELSE 0
        BY <4>1
      <4>3. PICK x \in Nat : x = m - j
        BY <4>1
      <4>4. Wide(w[j]) = c + 1
        BY <4>2 DEF Wide
      <4>5. m - (j - 1) = x + 1 /\ b = a + c
        BY <1>2, <3>4, <4>2, <4>3
      <4>6. U[j] = x + a /\ U[j - 1] = (x + 1) + (a + c)
        BY <3>3, <4>3, <4>5
      <4> QED
        BY <4>4, <4>6
  <2> QED
    BY <1>10, <2>2, <2>4, <2>5
<1>12. Measures(w, m, B, U)
  <2>1. B \in [0..m -> Nat] /\ B[0] = 0 /\ \A j \in 1..m : B[j] = B[j - 1] + w[j]
    BY <1>4, <1>6 DEF Offsets
  <2> QED
    BY <1>2, <1>11, <2>1 DEF Measures
<1>13. U[0] = Stream!Utf16Units(it)
  <2>1. {i \in DOMAIN w : w[i] = 4} = Longer(w, m, 0)
    BY <1>2 DEF Longer
  <2>2. Stream!Utf16Units(it) = m + Cardinality(Longer(w, m, 0))
    <3>1. Stream!Cardinality({i \in DOMAIN w : w[i] = 4}) = Cardinality({i \in DOMAIN w : w[i] = 4})
      BY Zenon DEF Stream!Cardinality, Cardinality
    <3> QED
      BY <1>1, <1>2, <2>1, <3>1 DEF Stream!Utf16Units
  <2>3. 0 \in 0..m /\ m - 0 = m
    BY <1>2
  <2> QED
    BY <1>10, <2>2, <2>3
<1>14. all \in Seq(0..4) /\ Len(all) = B[m]
  BY <1>8 DEF Pieces
<1>15. ASSUME NEW j \in 1..m PROVE all[B[j - 1] + 1] = w[j]
  <2>1. 1 \in 1..Len(ss[j])
    BY <1>4
  <2>2. all[B[j - 1] + 1] = ss[j][1]
    BY <1>8, <2>1 DEF Pieces
  <2> QED
    BY <1>4, <2>2
<1> QED
  BY <1>1, <1>9, <1>12, <1>13, <1>14, <1>15

(* The text of an item, and what else it has on the wire.                  *)
LEMMA ContentType ==
  ASSUME NEW it \in Items
  PROVE  /\ Stream!Content(it) \in Seq(0..9) /\ Len(Stream!Content(it)) \in Nat
         /\ Stream!Classes(it) \in Seq(Int)
         /\ Len(Stream!Classes(it)) = Len(Stream!Content(it)) + (IF it.op = "char" THEN 0 ELSE 1)
         /\ \A i \in 1..Len(Stream!Content(it)) : Stream!Classes(it)[i] = Stream!Content(it)[i]
         /\ it.op # "char" => Stream!Classes(it)[Len(Stream!Content(it)) + 1] = -1
<1>1. PICK s : s = Stream!Content(it)
  OBVIOUS
<1>2. s \in Seq(0..9)
  <2>1. CASE it.op = "int"
    <3>1. PICK m \in Nat : m = Len(it.w)
      BY ItemIs
    <3>2. s = [i \in 1..m |-> 9]
      BY <1>1, <2>1, <3>1 DEF Stream!Content
    <3> QED
      BY <3>2
  <2>2. CASE it.op # "int"
    <3>1. s \in Seq(0..4)
      BY <1>1, <2>2, TextOf
    <3>2. 0..4 \subseteq 0..9
      OBVIOUS
    <3> QED
      BY <3>1, <3>2, SeqMonotonic
  <2> QED
    BY <2>1, <2>2
<1>3. s \in Seq(Int) /\ Len(s) \in Nat
  <2>1. 0..9 \subseteq Int
    OBVIOUS
  <2> QED
    BY <1>2, <2>1, SeqMonotonic, LenProperties
<1>4. PICK z : z = Stream!Classes(it)
  OBVIOUS
<1>5. CASE it.op = "char"
  <2>1. z = s \o <<>>
    BY <1>1, <1>4, <1>5 DEF Stream!Classes
  <2>2. z = s
    BY <1>3, <2>1, ConcatEmptySeq
  <2> QED
    BY <1>1, <1>2, <1>3, <1>4, <1>5, <2>2
<1>6. CASE it.op # "char"
  <2>1. PICK t : t = <<-1>>
    OBVIOUS
  <2>2. t \in Seq(Int) /\ Len(t) = 1 /\ t[1] = -1
    BY <2>1
  <2>3. z = s \o t
    BY <1>1, <1>4, <1>6, <2>1 DEF Stream!Classes
  <2>4. /\ z \in Seq(Int) /\ Len(z) = Len(s) + Len(t)
        /\ \A i \in 1..(Len(s) + Len(t)) : z[i] = IF i <= Len(s) THEN s[i] ELSE t[i - Len(s)]
    <3>1. PICK u : u = s \o t
      OBVIOUS
    <3>2. /\ u \in Seq(Int) /\ Len(u) = Len(s) + Len(t)
          /\ \A i \in 1..(Len(s) + Len(t)) : u[i] = IF i <= Len(s) THEN s[i] ELSE t[i - Len(s)]
      BY <1>3, <2>2, <3>1, ConcatProperties
    <3> QED
      BY <2>3, <3>1, <3>2
  <2>5. PICK l \in Nat : l = Len(s)
    BY <1>3
  <2>6. \A i \in 1..l : z[i] = s[i]
    BY <2>2, <2>4, <2>5
  <2>7. z[l + 1] = -1
    <3>1. l + 1 \in 1..(l + 1) /\ ~(l + 1 <= l) /\ (l + 1) - l = 1
      OBVIOUS
    <3> QED
      BY <2>2, <2>4, <2>5, <3>1
  <2> QED
    BY <1>1, <1>2, <1>4, <1>6, <2>2, <2>4, <2>5, <2>6, <2>7
<1> QED
  BY <1>5, <1>6

-----------------------------------------------------------------------------
(* Reading an item                                                         *)

(* The item is in the input after place p, and something comes after its   *)
(* text.                                                                   *)
ItemAt(p, it) ==
  /\ p \in Nat /\ it \in Items /\ p + Len(Stream!Content(it)) < Len(input)
  /\ \A i \in 1..Len(Stream!Content(it)) : input[p + i][1] = Stream!Content(it)[i]
  /\ it.op # "char" => input[(p + Len(Stream!Content(it))) + 1][1] = -1

(* Only bytes from 0 to 9 are text.                                        *)
LEMMA TextBytes ==
  ASSUME InputOK, NEW p, NEW it, ItemAt(p, it), NEW e, e = p + Len(Stream!Content(it)), NEW i \in (p + 1)..e
  PROVE  /\ input[i][1] \in 0..9 /\ input[i] \in Byte
         /\ \E c \in 1..Len(Stream!Content(it)) : input[i][1] = Stream!Content(it)[c] /\ i = p + c
<1>1. PICK l \in Nat : l = Len(Stream!Content(it))
  BY ContentType DEF ItemAt
<1>2. p \in Nat /\ it \in Items /\ p + l < Len(input) /\ Len(input) \in Nat
  BY <1>1 DEF ItemAt, InputOK
<1>3. i - p \in 1..l /\ p + (i - p) = i /\ i \in 1..Len(input)
  BY <1>1, <1>2
<1>4. PICK c \in 1..l : c = i - p /\ p + c = i
  BY <1>3
<1>5. input[i][1] = Stream!Content(it)[c]
  BY <1>1, <1>4 DEF ItemAt
<1>6. PICK s \in Seq(0..9) : s = Stream!Content(it)
  BY <1>2, ContentType
<1>7. s[c] \in 0..9
  BY <1>1, <1>4, <1>6, ElementOfSeq
<1>8. input[i] \in Byte
  BY <1>3 DEF InputOK
<1> QED
  BY <1>1, <1>4, <1>5, <1>6, <1>7, <1>8

(* The byte after a value that is no character closes it.                  *)
LEMMA ClosedBy ==
  ASSUME InputOK, NEW p, NEW it, ItemAt(p, it), NEW e, e = p + Len(Stream!Content(it)), it.op # "char"
  PROVE  /\ ClosesAt(p, e)
         /\ it.op = "int" => EndsDigits(p, e) /\ p < e
<1>1. PICK l \in Nat : l = Len(Stream!Content(it))
  BY ContentType DEF ItemAt
<1>2. p \in Nat /\ it \in Items /\ e = p + l /\ e < Len(input) /\ Len(input) \in Nat /\ input[e + 1][1] = -1
  BY <1>1 DEF ItemAt, InputOK
<1>3. e + 1 \in 1..Len(input) /\ p <= e
  BY <1>2
<1>4. input[e + 1] \in Byte
  BY <1>3 DEF InputOK
<1>5. input[e + 1] \in Closings /\ input[e + 1] \in Others
  BY <1>2, <1>4 DEF Closings, Others, Stream!Ends, Stream!NoDigit
<1>6. ASSUME NEW i \in (p + 1)..e PROVE input[i] \notin Closings
  <2>1. input[i][1] \in 0..9
    BY TextBytes
  <2> QED
    BY <2>1 DEF Closings, Stream!Ends
<1>7. ClosesAt(p, e)
  BY <1>2, <1>3, <1>5, <1>6 DEF ClosesAt
<1>8. ASSUME it.op = "int" PROVE EndsDigits(p, e) /\ p < e
  <2>1. PICK m \in Nat : m = Len(it.w) /\ m >= 1
    BY <1>2, <1>8, ItemIs
  <2>2. PICK s : s = Stream!Content(it)
    OBVIOUS
  <2>3. s = [j \in 1..m |-> 9]
    BY <1>8, <2>1, <2>2 DEF Stream!Content
  <2>4. Len(s) = m /\ \A j \in 1..m : s[j] = 9
    BY <2>3
  <2>5. p < e
    BY <1>1, <1>2, <2>1, <2>2, <2>4
  <2>6. ASSUME NEW i \in (p + 1)..e PROVE input[i] \notin Others
    <3>1. input[i][1] = 9
      BY <2>2, <2>4, TextBytes
    <3> QED
      BY <3>1 DEF Others, Stream!NoDigit
  <2> QED
    BY <1>2, <1>3, <1>5, <2>5, <2>6 DEF EndsDigits
<1> QED
  BY <1>7, <1>8
(* Every character of a string that is cut ends in the next chunk: so it   *)
(* is when every chunk but the last has three bytes or more, for a         *)
(* character has four at most.  A character in three chunks is a panic of  *)
(* readStringAsBytes.                                                      *)
CharactersFit ==
  \A it \in Items : it.op \in {"string", "unsafeString", "char"} => \A i \in 1..Len(it.w) : it.w[i] <= MinChunk + 1

(* What an operation cuts out of the buffer for an item (Read).            *)
Reading(d, it) ==
  IF it.op \in {"bytes", "unsafeBytes"} THEN Stream!next(d, Len(Stream!Content(it)))
  ELSE IF it.op = "until" THEN Stream!until(d)
  ELSE IF it.op = "int" THEN Stream!readUint64(d)
  ELSE Stream!readStringAsBytes(d, Stream!Utf16Units(it))

(* Every operation cuts out the text of the item; until and readUint64 go  *)
(* over the byte that closes it.                                           *)
LEMMA ReadingCuts ==
  ASSUME InputOK, CharactersFit, NEW p, NEW it, ItemAt(p, it), NEW e, e = p + Len(Stream!Content(it)),
         NEW d, Holds(d, p), NEW r, r = Reading(d, it)
  PROVE  IF it.op \in {"until", "int"} THEN Cut(r, p, e, e + 1) ELSE Cut(r, p, e, e)
<1>1. PICK l \in Nat : l = Len(Stream!Content(it))
  BY ContentType DEF ItemAt
<1>2. p \in Nat /\ it \in Items /\ e = p + l /\ e < Len(input) /\ Len(input) \in Nat
  BY <1>1 DEF ItemAt, InputOK
<1>3. e \in Nat /\ p <= e /\ e - p = l /\ p < Len(input)
  BY <1>2
<1>4. it.op \in {"bytes", "unsafeBytes", "string", "unsafeString", "char", "until", "int"}
  BY <1>2, ItemIs DEF Stream!Operations
<1>5. CASE it.op \in {"bytes", "unsafeBytes"}
  <2>1. r = Stream!next(d, l)
    BY <1>1, <1>5 DEF Reading
  <2>2. Cut(Stream!next(d, l), p, e, e)
    BY <1>2, <1>3, NextCuts
  <2> QED
    BY <1>5, <2>1, <2>2
<1>6. CASE it.op = "until"
  <2>1. ClosesAt(p, e)
    BY <1>6, ClosedBy
  <2>2. Cut(Stream!until(d), p, e, e + 1)
    BY <1>2, <1>3, <2>1, UntilCuts
  <2> QED
    BY <1>6, <2>2 DEF Reading
<1>7. CASE it.op = "int"
  <2>1. EndsDigits(p, e) /\ p < e
    BY <1>7, ClosedBy
  <2>2. Cut(Stream!readUint64(d), p, e, e + 1)
    BY <1>2, <1>3, <2>1, DigitCuts
  <2> QED
    BY <1>7, <2>2 DEF Reading
<1>8. CASE it.op \in {"string", "unsafeString", "char"}
  <2>1. PICK m \in Nat : m = Len(it.w)
    BY <1>2, ItemIs
  <2>2. PICK w : w = it.w
    OBVIOUS
  <2>3. PICK B, U : /\ Measures(w, m, B, U) /\ U[0] = Stream!Utf16Units(it) /\ l = B[m]
                    /\ \A j \in 1..m : Stream!Content(it)[B[j - 1] + 1] = w[j]
    <3>1. it.op # "int"
      BY <1>8
    <3>2. \E B, U : /\ Measures(it.w, m, B, U) /\ U[0] = Stream!Utf16Units(it)
                    /\ Stream!Content(it) \in Seq(0..4) /\ Len(Stream!Content(it)) = B[m]
                    /\ \A j \in 1..m : Stream!Content(it)[B[j - 1] + 1] = it.w[j]
      BY <1>2, <2>1, <3>1, TextOf
    <3> QED
      BY <1>1, <2>2, <3>2
  <2>4. ASSUME NEW j \in 1..m PROVE input[(p + B[j - 1]) + 1][1] = w[j]
    <3>1. j - 1 \in 0..m /\ m \in 0..m /\ j - 1 <= m /\ j - 1 # m
      BY <2>1
    <3>2. B[j - 1] < B[m] /\ B[j - 1] \in Nat
      <4>1. PICK i \in 0..m : i = j - 1
        BY <3>1
      <4>2. Measures(w, m, B, U) /\ B \in [0..m -> Nat]
        BY <2>3 DEF Measures
      <4>3. B[i] < B[m]
        BY <3>1, <4>1, <4>2, BytesGrow
      <4> QED
        BY <4>1, <4>2, <4>3
    <3>3. PICK b \in Nat : b = B[j - 1] /\ b < l
      BY <2>3, <3>2
    <3>4. b + 1 \in 1..l /\ p + (b + 1) = (p + b) + 1
      BY <1>2, <3>3
    <3>5. input[p + (b + 1)][1] = Stream!Content(it)[b + 1]
      BY <1>1, <3>4 DEF ItemAt
    <3> QED
      BY <2>3, <3>3, <3>4, <3>5
  <2>5. StringAt(p, w, m, B, U)
    BY <1>2, <2>3, <2>4 DEF StringAt
  <2>6. Fits(w, m)
    BY <1>2, <1>8, <2>1, <2>2 DEF Fits, CharactersFit
  <2>7. e = p + B[m]
    BY <1>2, <2>3
  <2>8. Cut(Stream!readStringAsBytes(d, U[0]), p, e, e)
    BY <1>3, <2>5, <2>6, <2>7, StringCuts
  <2>9. r = Stream!readStringAsBytes(d, U[0])
    BY <1>8, <2>3 DEF Reading
  <2> QED
    BY <1>8, <2>8, <2>9
<1> QED
  BY <1>4, <1>5, <1>6, <1>7, <1>8

(* Where the next item begins.                                             *)
Following(p, it) == p + Len(Stream!Classes(it))

(* What the decoder has after an item, and what the program then sees: the *)
(* text of the item, unless it is an alias to a chunk that has been read   *)
(* to its end.                                                             *)
LEMMA ItemRead ==
  ASSUME InputOK, CharactersFit, NEW p, NEW it, ItemAt(p, it), NEW e, e = p + Len(Stream!Content(it)),
         NEW d, Holds(d, p), NEW r, r = Reading(d, it),
         NEW after, after = IF it.op \in {"until", "int", "char"} THEN r.d ELSE Stream!Skip(r.d),
         NEW kept, kept = IF it.op \in {"unsafeBytes", "unsafeString"} THEN r.x ELSE <<"copy", Stream!Look(r.d, r.x)>>
  PROVE  /\ Holds(after, Following(p, it))
         /\ \/ Stream!Look(after, kept) = Seg(p, e)
            \/ it.op \in {"unsafeBytes", "unsafeString"} /\ r.x[1] = "alias" /\ r.d.head = r.d.tail
<1>1. PICK l \in Nat : l = Len(Stream!Content(it))
  BY ContentType DEF ItemAt
<1>2. p \in Nat /\ it \in Items /\ e = p + l /\ e < Len(input) /\ Len(input) \in Nat /\ e \in Nat
  BY <1>1 DEF ItemAt, InputOK
<1>3. Following(p, it) = IF it.op = "char" THEN e ELSE e + 1
  <2>1. Len(Stream!Classes(it)) = l + (IF it.op = "char" THEN 0 ELSE 1)
    BY <1>1, <1>2, ContentType
  <2>2. CASE it.op = "char"
    <3>1. Len(Stream!Classes(it)) = l
      BY <2>1, <2>2
    <3> QED
      BY <1>2, <2>2, <3>1 DEF Following
  <2>3. CASE it.op # "char"
    <3>1. Len(Stream!Classes(it)) = l + 1
      BY <2>1, <2>3
    <3> QED
      BY <1>2, <2>3, <3>1 DEF Following
  <2> QED
    BY <2>2, <2>3
<1>4. IF it.op \in {"until", "int"} THEN Cut(r, p, e, e + 1) ELSE Cut(r, p, e, e)
  BY ReadingCuts
<1>5. Stream!Look(r.d, r.x) = Seg(p, e)
  BY <1>4 DEF Cut
<1>6. CASE it.op \in {"until", "int", "char"}
  <2>1. Holds(after, Following(p, it))
    BY <1>3, <1>4, <1>6 DEF Cut
  <2>2. kept = <<"copy", Seg(p, e)>>
    BY <1>5, <1>6
  <2>3. Stream!Look(after, kept) = Seg(p, e)
    BY <2>2 DEF Stream!Look
  <2> QED
    BY <2>1, <2>3
<1>7. CASE it.op \notin {"until", "int", "char"}
  <2>1. after = Stream!Skip(r.d) /\ Holds(r.d, e)
    BY <1>4, <1>7 DEF Cut
  <2>2. Holds(after, Following(p, it)) /\ (r.d.head # r.d.tail => after.buf = r.d.buf)
    BY <1>2, <1>3, <1>7, <2>1, SkipIsOne
  <2>3. CASE it.op \in {"unsafeBytes", "unsafeString"} /\ r.x[1] = "alias"
    <3>1. CASE r.d.head = r.d.tail
      BY <2>2, <2>3, <3>1
    <3>2. CASE r.d.head # r.d.tail
      <4>1. kept = r.x /\ after.buf = r.d.buf
        BY <2>2, <2>3, <3>2
      <4>2. Stream!Look(after, kept) = Stream!Look(r.d, r.x)
        BY <2>3, <4>1 DEF Stream!Look, Stream!Bytes
      <4> QED
        BY <1>5, <2>2, <4>2
    <3> QED
      BY <3>1, <3>2
  <2>4. CASE it.op \in {"unsafeBytes", "unsafeString"} /\ r.x[1] # "alias"
    <3>1. kept = r.x
      BY <2>4
    <3>2. Stream!Look(after, kept) = Stream!Look(r.d, r.x)
      BY <2>4, <3>1 DEF Stream!Look
    <3> QED
      BY <1>5, <2>2, <3>2
  <2>5. CASE it.op \notin {"unsafeBytes", "unsafeString"}
    <3>1. kept = <<"copy", Seg(p, e)>>
      BY <1>5, <2>5
    <3>2. Stream!Look(after, kept) = Seg(p, e)
      BY <3>1 DEF Stream!Look
    <3> QED
      BY <2>2, <3>2
  <2> QED
    BY <2>3, <2>4, <2>5
<1> QED
  BY <1>6, <1>7

-----------------------------------------------------------------------------
(* The items of the input                                                  *)

(* The bytes of each item, and where each begins.                          *)
Laid(its, n, O) ==
  its \in Seq(Items) /\ n \in Nat /\ n = Len(its) /\ Offsets([i \in 1..n |-> Stream!Classes(its[i])], n, O)

(* The bytes of items are those of each, one after the other.              *)
LEMMA BytesOfIs ==
  ASSUME NEW its, NEW n, NEW O, Laid(its, n, O)
  PROVE  /\ Stream!BytesOf(its) \in Seq(Byte) /\ Len(Stream!BytesOf(its)) = O[n]
         /\ \A j \in 1..n : \A i \in 1..Len(Stream!Classes(its[j])) :
              Stream!BytesOf(its)[O[j - 1] + i][1] = Stream!Classes(its[j])[i]
<1>1. its \in Seq(Items) /\ n \in Nat /\ n = Len(its)
  BY DEF Laid
<1>2. PICK ss : ss = [i \in 1..n |-> Stream!Classes(its[i])]
  OBVIOUS
<1>3. ASSUME NEW j \in 1..n PROVE its[j] \in Items /\ ss[j] \in Seq(Int) /\ ss[j] = Stream!Classes(its[j])
  <2>1. its[j] \in Items
    BY <1>1, ElementOfSeq
  <2> QED
    BY <1>2, <2>1, ContentType
<1>4. ss \in [1..n -> Seq(Int)]
  BY <1>2, <1>3
<1>5. Offsets(ss, n, O)
  BY <1>2 DEF Laid
<1>6. PICK all : all = Stream!FlattenSeq(ss)
  OBVIOUS
<1>7. Pieces(Int, ss, n, O, all)
  BY <1>1, <1>4, <1>5, <1>6, FlattenIs
<1>8. all \in Seq(Int) /\ Len(all) = O[n] /\ \A j \in 1..n : \A i \in 1..Len(ss[j]) : all[O[j - 1] + i] = ss[j][i]
  BY <1>7 DEF Pieces
<1>9. PICK l \in Nat : l = Len(all)
  BY <1>8
<1>10. PICK b : b = [i \in 1..l |-> <<all[i], i>>]
  OBVIOUS
<1>11. Stream!BytesOf(its) = b
  BY <1>1, <1>2, <1>6, <1>9, <1>10 DEF Stream!BytesOf
<1>12. ASSUME NEW i \in 1..l PROVE b[i] \in Byte /\ b[i][1] = all[i]
  <2>1. all[i] \in Int
    BY <1>8, <1>9, ElementOfSeq
  <2> QED
    BY <1>10, <2>1 DEF Byte
<1>13. b \in Seq(Byte) /\ Len(b) = l
  <2>1. b \in [1..l -> Byte]
    BY <1>10, <1>12
  <2> QED
    BY <1>10, <2>1
<1>14. ASSUME NEW j \in 1..n, NEW i \in 1..Len(ss[j]) PROVE b[O[j - 1] + i][1] = ss[j][i]
  <2>1. j - 1 \in 0..n /\ j \in 0..n /\ n \in 0..n /\ j <= n
    BY <1>1
  <2>2. O[j] <= O[n]
    BY <1>1, <1>4, <1>5, <2>1, OffsetsGrow
  <2>3. O[j] = O[j - 1] + Len(ss[j]) /\ O[j - 1] \in Nat /\ O[j] \in Nat
    BY <1>5, <2>1 DEF Offsets
  <2>4. PICK o, m \in Nat : o = O[j - 1] /\ m = Len(ss[j])
    BY <1>3, <2>3
  <2>5. o + m <= l /\ i \in 1..m
    BY <1>8, <1>9, <2>2, <2>3, <2>4
  <2>6. o + i \in 1..l
    BY <2>5
  <2>7. b[o + i][1] = all[o + i]
    BY <1>12, <2>6
  <2> QED
    BY <1>8, <2>4, <2>7
<1> QED
  BY <1>3, <1>8, <1>9, <1>11, <1>13, <1>14

(* Items can be laid one after the other.                                  *)
LEMMA LaidExists ==
  ASSUME NEW its \in Seq(Items), NEW n, n = Len(its)
  PROVE  \E O : Laid(its, n, O)
<1>1. n \in Nat
  BY LenProperties
<1>2. PICK ss : ss = [i \in 1..n |-> Stream!Classes(its[i])]
  OBVIOUS
<1>3. ASSUME NEW j \in 1..n PROVE ss[j] \in Seq(Int)
  <2>1. its[j] \in Items
    BY ElementOfSeq
  <2> QED
    BY <1>2, <2>1, ContentType
<1>4. ss \in [1..n -> Seq(Int)]
  BY <1>2, <1>3
<1>5. PICK O : Offsets(ss, n, O)
  BY <1>1, <1>4, OffsetsExist
<1> QED
  BY <1>1, <1>2, <1>5 DEF Laid

(* Starts is where an item begins.                                         *)
LEMMA StartsIs ==
  ASSUME NEW n, NEW O, Laid(items, n, O), NEW k \in 0..n
  PROVE  Stream!Starts(k + 1) = O[k]
<1>1. items \in Seq(Items) /\ n \in Nat /\ n = Len(items) /\ k \in Nat /\ k <= n
  BY DEF Laid
<1>2. PICK pre : pre = SubSeq(items, 1, k)
  OBVIOUS
<1>3. \A i \in 1..k : items[i] \in Items
  BY <1>1, ElementOfSeq
<1>4. pre \in Seq(Items) /\ Len(pre) = k /\ \A i \in 1..k : pre[i] = items[i]
  <2>1. pre \in Seq(Items)
    BY <1>1, <1>2, <1>3, SubSeqProperties
  <2>2. Len(pre) = k
    BY <1>1, <1>2
  <2>3. \A i \in 1..k : pre[i] = items[i]
    BY <1>1, <1>2
  <2> QED
    BY <2>1, <2>2, <2>3
<1>5. PICK P : Laid(pre, k, P)
  BY <1>4, LaidExists
<1>6. PICK ss : ss = [i \in 1..n |-> Stream!Classes(items[i])]
  OBVIOUS
<1>7. PICK tt : tt = [i \in 1..k |-> Stream!Classes(pre[i])]
  OBVIOUS
<1>8. Offsets(ss, n, O) /\ Offsets(tt, k, P)
  BY <1>5, <1>6, <1>7 DEF Laid
<1>9. \A i \in 1..k : tt[i] = ss[i]
  BY <1>1, <1>4, <1>6, <1>7
<1>10. \A i \in 0..k : P[i] = O[i]
  <2>1. PICK c \in Nat : c = k /\ c <= n
    BY <1>1
  <2>2. n \in Nat /\ Offsets(tt, c, P) /\ \A i \in 1..c : tt[i] = ss[i]
    BY <1>1, <1>8, <1>9, <2>1
  <2>3. \A i \in 0..c : P[i] = O[i]
    BY <1>8, <2>1, <2>2, OffsetsAgree
  <2> QED
    BY <2>1, <2>3
<1>11. k \in 0..k
  BY <1>1
<1>12. Len(Stream!BytesOf(pre)) = P[k]
  BY <1>5, BytesOfIs
<1>13. (k + 1) - 1 = k
  BY <1>1
<1>14. Stream!Starts(k + 1) = Len(Stream!BytesOf(pre))
  BY <1>2, <1>13 DEF Stream!Starts
<1> QED
  BY <1>10, <1>11, <1>12, <1>14

(* Each item is in the input at its place.                                 *)
LEMMA ItemPlaced ==
  ASSUME NEW n, NEW O, Laid(items, n, O), input = Stream!BytesOf(items), items[n].op # "char", NEW k \in 1..n
  PROVE  ItemAt(O[k - 1], items[k]) /\ O[k] = Following(O[k - 1], items[k])
<1>1. items \in Seq(Items) /\ n \in Nat /\ n = Len(items)
  BY DEF Laid
<1>2. PICK ss : ss = [i \in 1..n |-> Stream!Classes(items[i])]
  OBVIOUS
<1>3. Offsets(ss, n, O)
  BY <1>2 DEF Laid
<1>4. ASSUME NEW j \in 1..n
      PROVE  /\ items[j] \in Items /\ ss[j] = Stream!Classes(items[j]) /\ ss[j] \in Seq(Int)
             /\ Len(Stream!Content(items[j])) \in Nat
             /\ Len(ss[j]) = Len(Stream!Content(items[j])) + (IF items[j].op = "char" THEN 0 ELSE 1)
  <2>1. items[j] \in Items
    BY <1>1, ElementOfSeq
  <2> QED
    BY <1>2, <2>1, ContentType
<1>5. ss \in [1..n -> Seq(Int)]
  BY <1>2, <1>4
<1>6. PICK it \in Items : it = items[k]
  BY <1>4
<1>7. PICK l \in Nat : l = Len(Stream!Content(it))
  BY <1>4, <1>6
<1>8. k \in 0..n /\ k - 1 \in 0..n /\ n \in 0..n /\ n \in 1..n /\ n - 1 \in 0..n
  BY <1>1
<1>9. O \in [0..n -> Nat] /\ \A j \in 1..n : O[j] = O[j - 1] + Len(ss[j])
  BY <1>3 DEF Offsets
<1>10. PICK p \in Nat : p = O[k - 1]
  BY <1>8, <1>9
<1>11. O[k] = Following(p, it) /\ O[k] = p + (l + (IF it.op = "char" THEN 0 ELSE 1))
  BY <1>4, <1>6, <1>7, <1>9, <1>10 DEF Following
<1>12. Len(input) = O[n]
  BY BytesOfIs
<1>13. p + l < Len(input)
  <2>1. PICK a, b, z \in Nat : a = O[k] /\ b = O[n - 1] /\ z = O[n]
    BY <1>8, <1>9
  <2>2. CASE it.op = "char"
    <3>1. k # n
      BY <1>6, <2>2
    <3>2. k <= n - 1
      BY <1>1, <3>1
    <3>3. a <= b
      BY <1>1, <1>3, <1>5, <1>8, <2>1, <3>2, OffsetsGrow
    <3>4. PICK x \in Nat : Len(ss[n]) = x + 1
      BY <1>4, <1>8
    <3>5. z = b + (x + 1)
      BY <1>8, <1>9, <2>1, <3>4
    <3>6. a = p + l
      BY <1>11, <2>1, <2>2
    <3> QED
      BY <1>12, <2>1, <3>3, <3>5, <3>6
  <2>3. CASE it.op # "char"
    <3>1. a = p + (l + 1)
      BY <1>11, <2>1, <2>3
    <3>2. k <= n
      OBVIOUS
    <3>3. a <= z
      BY <1>1, <1>3, <1>5, <1>8, <2>1, <3>2, OffsetsGrow
    <3> QED
      BY <1>12, <2>1, <3>1, <3>3
  <2> QED
    BY <2>2, <2>3
<1>14. \A i \in 1..Len(ss[k]) : input[p + i][1] = Stream!Classes(it)[i]
  <2>1. \A i \in 1..Len(Stream!Classes(items[k])) :
          Stream!BytesOf(items)[O[k - 1] + i][1] = Stream!Classes(items[k])[i]
    BY BytesOfIs
  <2>2. ss[k] = Stream!Classes(it) /\ items[k] = it
    BY <1>4, <1>6
  <2> QED
    BY <1>10, <2>1, <2>2
<1>15. PICK m \in Nat : m = Len(ss[k]) /\ m = l + (IF it.op = "char" THEN 0 ELSE 1)
  BY <1>4, <1>6, <1>7
<1>16. ASSUME NEW i \in 1..l PROVE input[p + i][1] = Stream!Content(it)[i]
  <2>1. i \in 1..m
    BY <1>15
  <2>2. Stream!Classes(it)[i] = Stream!Content(it)[i]
    BY <1>7, ContentType
  <2> QED
    BY <1>14, <1>15, <2>1, <2>2
<1>17. ASSUME it.op # "char" PROVE input[(p + l) + 1][1] = -1
  <2>1. l + 1 \in 1..m /\ p + (l + 1) = (p + l) + 1
    BY <1>15, <1>17
  <2>2. Stream!Classes(it)[l + 1] = -1
    BY <1>7, <1>17, ContentType
  <2>3. input[p + (l + 1)][1] = Stream!Classes(it)[l + 1]
    BY <1>14, <1>15, <2>1
  <2> QED
    BY <2>1, <2>2, <2>3
<1>18. ItemAt(p, it)
  BY <1>7, <1>13, <1>16, <1>17 DEF ItemAt
<1> QED
  BY <1>6, <1>10, <1>11, <1>18

-----------------------------------------------------------------------------
(* What holds between two reads: the values read so far are those of the   *)
(* first items, and the buffer is at the beginning of the next.            *)
StreamInv ==
  /\ items \in Seq(Items) /\ Len(items) >= 1 /\ items[Len(items)].op # "char"
  /\ input = Stream!BytesOf(items)
  /\ chunks \in [0..(Period - 1) -> MinChunk..BufSize]
  /\ \E V : results \in Seq(V)
  /\ Len(results) <= Len(items)
  /\ Holds(stream, Stream!Starts(Len(results) + 1))
  /\ Stream!ValuesIntact

(* The input of the invariant.                                             *)
LEMMA InputIs ==
  ASSUME StreamInv
  PROVE  InputOK /\ \E O : Laid(items, Len(items), O)
<1>1. items \in Seq(Items)
  BY DEF StreamInv
<1>2. PICK O : Laid(items, Len(items), O)
  BY <1>1, LaidExists
<1>3. input \in Seq(Byte)
  BY <1>2, BytesOfIs DEF StreamInv
<1> QED
  BY <1>2, <1>3 DEF InputOK, StreamInv

(* At first nothing was read (Init).                                       *)
LEMMA StreamInit == Stream!Init => StreamInv
<1> SUFFICES ASSUME Stream!Init PROVE StreamInv
  OBVIOUS
<1>1. PICK n \in 1..MaxItems : items \in [1..n -> Items]
  BY DEF Stream!Init
<1>2. n \in Nat /\ n >= 1
  BY StreamAssumption
<1>3. items \in Seq(Items) /\ Len(items) = n
  BY <1>1, <1>2
<1>4. /\ items[Len(items)].op # "char" /\ input = Stream!BytesOf(items) /\ results = <<>> /\ stream = Stream!Empty
      /\ chunks \in [0..(Period - 1) -> MinChunk..BufSize]
  BY DEF Stream!Init
<1>5. (\E V : results \in Seq(V)) /\ Len(results) = 0
  <2>1. results \in Seq(Nat)
    BY <1>4
  <2> QED
    BY <1>4, <2>1
<1>6. PICK O : Laid(items, n, O)
  BY <1>3, LaidExists
<1>7. Stream!Starts(Len(results) + 1) = 0
  <2>1. 0 \in 0..n /\ O[0] = 0
    BY <1>2, <1>6 DEF Laid, Offsets
  <2>2. Stream!Starts(0 + 1) = O[0]
    BY <1>6, <2>1, StartsIs
  <2> QED
    BY <1>5, <2>1, <2>2
<1>8. input \in Seq(Byte) /\ Len(input) \in Nat
  <2>1. input \in Seq(Byte)
    BY <1>4, <1>6, BytesOfIs
  <2> QED
    BY <2>1
<1>9. Holds(stream, 0)
  <2>1. PICK b : b = [i \in 1..BufSize |-> <<0, 0>>]
    OBVIOUS
  <2>2. b \in [1..BufSize -> Byte]
    BY <2>1 DEF Byte
  <2>3. stream = [buf |-> b, head |-> 0, tail |-> 0, at |-> 0, loads |-> 0, err |-> "nil"]
    BY <1>4, <2>1 DEF Stream!Empty
  <2>4. 0 \in 0..BufSize /\ 0 \in 0..Len(input) /\ 0 \in Nat /\ 0 \in Int
    BY <1>8, StreamAssumption
  <2>5. stream \in Buffers
    BY <2>2, <2>3, <2>4 DEF Buffers
  <2>6. stream.head = 0 /\ stream.tail = 0 /\ stream.at = 0
    BY <2>3
  <2>7. \A i \in 1..stream.tail : FALSE
    BY <2>6
  <2>8. Window(stream)
    BY <2>5, <2>6, <2>7 DEF Window
  <2> QED
    BY <2>6, <2>8 DEF Holds
<1>10. Stream!ValuesIntact
  <2>1. \A i \in DOMAIN results : FALSE
    BY <1>4
  <2> QED
    BY <2>1 DEF Stream!ValuesIntact
<1> QED
  BY <1>2, <1>3, <1>4, <1>5, <1>7, <1>9, <1>10 DEF StreamInv

(* So the place in the input is right, and the values are.                 *)
LEMMA StreamInvImplies == StreamInv => StreamIntact
<1> SUFFICES ASSUME StreamInv PROVE StreamIntact
  OBVIOUS
<1>1. PICK p : p = Stream!Starts(Len(results) + 1)
  OBVIOUS
<1>2. Holds(stream, p) /\ InputOK
  BY <1>1, InputIs DEF StreamInv
<1>3. Window(stream) /\ 0 <= stream.head /\ stream.head <= stream.tail /\ p = (stream.at - stream.tail) + stream.head
  BY <1>2 DEF Holds
<1>4. /\ stream.head \in Int /\ stream.tail \in Nat /\ stream.tail <= BufSize
      /\ stream.at \in Nat /\ stream.at <= Len(input) /\ stream.err = "nil"
  BY <1>2, <1>3, WindowType
<1>5. Stream!TypeOK
  BY <1>3, <1>4 DEF Stream!TypeOK
<1>6. stream.at - (stream.tail - stream.head) = p
  BY <1>3, <1>4
<1>7. Stream!PlaceKept
  BY <1>1, <1>6 DEF Stream!PlaceKept
<1> QED
  BY <1>5, <1>7 DEF StreamIntact, StreamInv

(* The next item is read.                                                  *)
LEMMA StreamNext == ASSUME CharactersFit, StreamInv, Stream!Next PROVE StreamInv'
<1>1. InputOK /\ \E O : Laid(items, Len(items), O)
  BY InputIs
<1>2. PICK n \in Nat : n = Len(items)
  BY LenProperties DEF StreamInv
<1>3. PICK O : Laid(items, n, O)
  BY <1>1, <1>2
<1>4. PICK V : results \in Seq(V)
  BY DEF StreamInv
<1>5. PICK k \in Nat : k = Len(results) /\ k < n
  BY <1>2, <1>4, LenProperties DEF Stream!Next, Stream!ReadItem
<1>6. PICK c \in 1..n : c = k + 1 /\ c - 1 = k
  BY <1>5
<1>7. PICK it : it = items[c]
  OBVIOUS
<1>8. PICK p : p = O[k]
  OBVIOUS
<1>9. input = Stream!BytesOf(items) /\ items[n].op # "char"
  BY <1>2 DEF StreamInv
<1>10. ItemAt(p, it) /\ O[c] = Following(p, it)
  BY <1>3, <1>6, <1>7, <1>8, <1>9, ItemPlaced
<1>11. Stream!Starts(c) = p /\ Stream!Starts(c + 1) = O[c]
  <2>1. k \in 0..n /\ c \in 0..n
    BY <1>5, <1>6
  <2> QED
    BY <1>3, <1>6, <1>8, <2>1, StartsIs
<1>12. Holds(stream, p)
  BY <1>5, <1>6, <1>11 DEF StreamInv
<1>13. PICK r : r = Reading(stream, it)
  OBVIOUS
<1>14. PICK after : after = IF it.op \in {"until", "int", "char"} THEN r.d ELSE Stream!Skip(r.d)
  OBVIOUS
<1>15. PICK kept : kept = IF it.op \in {"unsafeBytes", "unsafeString"} THEN r.x ELSE <<"copy", Stream!Look(r.d, r.x)>>
  OBVIOUS
<1>16. PICK v : v = [data |-> Stream!Look(after, kept), edge |-> r.x[1] = "alias" /\ r.d.head = r.d.tail]
  OBVIOUS
<1>17. /\ stream' = after /\ results' = Append(results, v)
       /\ items' = items /\ input' = input /\ chunks' = chunks
  <2>1. Stream!Read(it)
    BY <1>5, <1>6, <1>7 DEF Stream!Next, Stream!ReadItem
  <2> QED
    BY <1>13, <1>14, <1>15, <1>16, <2>1 DEF Stream!Read, Reading
<1>18. PICK e : e = p + Len(Stream!Content(it))
  OBVIOUS
<1>19. /\ Holds(after, Following(p, it))
       /\ \/ v.data = Seg(p, e)
          \/ it.op \in {"unsafeBytes", "unsafeString"} /\ v.edge
  <2>1. /\ Holds(after, Following(p, it))
        /\ \/ Stream!Look(after, kept) = Seg(p, e)
           \/ it.op \in {"unsafeBytes", "unsafeString"} /\ r.x[1] = "alias" /\ r.d.head = r.d.tail
    BY <1>1, <1>10, <1>12, <1>13, <1>14, <1>15, <1>18, ItemRead
  <2>2. v.data = Stream!Look(after, kept) /\ v.edge = (r.x[1] = "alias" /\ r.d.head = r.d.tail)
    BY <1>16
  <2> QED
    BY <2>1, <2>2
<1>20. /\ results' \in Seq(V \cup {v}) /\ Len(results') = c /\ DOMAIN results' = 1..c
       /\ results'[c] = v /\ \A i \in 1..k : results'[i] = results[i]
  <2>1. results \in Seq(V \cup {v}) /\ v \in V \cup {v}
    <3>1. V \subseteq V \cup {v}
      OBVIOUS
    <3> QED
      BY <1>4, <3>1, SeqMonotonic
  <2>2. PICK W : W = V \cup {v}
    OBVIOUS
  <2>3. results \in Seq(W) /\ v \in W
    BY <2>1, <2>2
  <2>4. /\ Append(results, v) \in Seq(W) /\ Len(Append(results, v)) = Len(results) + 1
        /\ \A i \in 1..Len(results) : Append(results, v)[i] = results[i]
        /\ Append(results, v)[Len(results) + 1] = v
    BY <2>3, AppendProperties
  <2>5. results' \in Seq(W) /\ Len(results') = c
    BY <1>5, <1>6, <1>17, <2>4
  <2>6. DOMAIN results' = 1..c
    BY <2>5, LenProperties
  <2> QED
    BY <1>5, <1>6, <1>17, <2>2, <2>4, <2>5, <2>6
<1>21. Holds(stream, Stream!Starts(Len(results) + 1))'
  <2>1. Stream!Starts(Len(results) + 1)' = Following(p, it)
    <3>1. Stream!Starts(Len(results) + 1)' = Stream!Starts(c + 1)
      BY <1>17, <1>20 DEF Stream!Starts, Stream!BytesOf, Stream!Classes, Stream!Content, Stream!CharOf
    <3> QED
      BY <1>10, <1>11, <3>1
  <2>2. PICK y : y = Following(p, it)
    OBVIOUS
  <2>3. Holds(stream', y)
    BY <1>17, <1>19, <2>2
  <2>4. Holds(stream, y)'
    BY <1>17, <2>3 DEF Holds, Window, Buffers
  <2> QED
    BY <2>1, <2>2, <2>4 DEF Holds
<1>22. ASSUME NEW i \in DOMAIN results'
       PROVE  \/ results'[i].data = Stream!Wanted(i)
              \/ items[i].op \in {"unsafeBytes", "unsafeString"} /\ results'[i].edge
  <2>1. CASE i = c
    <3>1. Stream!Wanted(i) = Seg(p, e)
      BY <1>7, <1>11, <1>18, <2>1 DEF Stream!Wanted, Seg
    <3> QED
      BY <1>7, <1>19, <1>20, <2>1, <3>1
  <2>2. CASE i # c
    <3>1. i \in 1..k
      BY <1>5, <1>6, <1>20, <2>2
    <3>2. i \in DOMAIN results
      BY <1>4, <1>5, <3>1, LenProperties
    <3> QED
      BY <1>20, <3>1, <3>2 DEF StreamInv, Stream!ValuesIntact
  <2> QED
    BY <2>1, <2>2
<1>23. Stream!ValuesIntact'
  <2>1. ASSUME NEW i PROVE Stream!Wanted(i)' = Stream!Wanted(i)
    BY <1>17 DEF Stream!Wanted, Stream!Starts
  <2> QED
    BY <1>17, <1>22, <2>1 DEF Stream!ValuesIntact
<1>24. (\E W : results \in Seq(W))' /\ (Len(results) <= Len(items))'
  BY <1>2, <1>6, <1>17, <1>20
<1>25. /\ (items \in Seq(Items) /\ Len(items) >= 1 /\ items[Len(items)].op # "char")'
       /\ (input = Stream!BytesOf(items))' /\ (chunks \in [0..(Period - 1) -> MinChunk..BufSize])'
  BY <1>17 DEF StreamInv
<1> QED
  BY <1>21, <1>23, <1>24, <1>25 DEF StreamInv

(* However the input is cut into chunks, the decoder keeps its place in    *)
(* the input and its values are the ones that were sent, when the          *)
(* characters fit the chunks (ByteStream: loadMore, next, until,           *)
(* readUint64, readStringAsBytes).                                         *)
THEOREM StreamStaysIntact == CharactersFit => (Stream!Spec => []StreamIntact)
<1> SUFFICES ASSUME CharactersFit PROVE Stream!Spec => []StreamIntact
  OBVIOUS
<1>1. StreamInv /\ [Stream!Next]_(Stream!svars) => StreamInv'
  <2> SUFFICES ASSUME StreamInv, [Stream!Next]_(Stream!svars) PROVE StreamInv'
    OBVIOUS
  <2>1. CASE Stream!Next
    BY <2>1, StreamNext
  <2>2. CASE UNCHANGED Stream!svars
    <3>1. items' = items /\ input' = input /\ chunks' = chunks /\ stream' = stream /\ results' = results
      BY <2>2 DEF Stream!svars
    <3>2. (Holds(stream, Stream!Starts(Len(results) + 1)))'
      BY <3>1 DEF StreamInv, Holds, Window, Buffers, Stream!Starts
    <3>3. Stream!ValuesIntact'
      BY <3>1 DEF StreamInv, Stream!ValuesIntact, Stream!Wanted, Stream!Starts
    <3> QED
      BY <3>1, <3>2, <3>3 DEF StreamInv
  <2> QED
    BY <2>1, <2>2
<1> QED
  BY <1>1, StreamInit, StreamInvImplies, PTL DEF Stream!Spec

(* Chunks of three bytes or more cut no character twice, whatever the      *)
(* strings: then the decoder reads every input (loadMore,                  *)
(* readStringAsBytes).                                                     *)
COROLLARY ChunksOfThree == MinChunk >= 3 => (Stream!Spec => []StreamIntact)
<1> SUFFICES ASSUME MinChunk >= 3 PROVE Stream!Spec => []StreamIntact
  OBVIOUS
<1>1. CharactersFit
  <2> SUFFICES ASSUME NEW it \in Items, NEW i \in 1..Len(it.w) PROVE it.w[i] <= MinChunk + 1
    BY DEF CharactersFit
  <2>1. PICK w : w = it.w
    OBVIOUS
  <2>2. w \in Seq(1..4) /\ i \in 1..Len(w)
    BY <2>1, ItemIs
  <2>3. w[i] \in 1..4
    BY <2>2, ElementOfSeq
  <2>4. PICK c \in 1..4 : c = w[i]
    BY <2>3
  <2>5. c <= MinChunk + 1
    BY StreamAssumption
  <2> QED
    BY <2>1, <2>4, <2>5
<1> QED
  BY <1>1, StreamStaysIntact

-----------------------------------------------------------------------------
(* The text of integers *)

(* uint64 wraps around at a positive number.                               *)
LEMMA ModulusIs == Texts!Modulus \in Nat \ {0} /\ Texts!Modulus = 2 * MaxInt + 2
BY TextAssumption DEF Texts!Modulus

Digits == Seq(0..9)

(* The last three digits come after those of the thousands.                *)
Front(i) == i \div 1000
More(s, i) == s \o Texts!digit3(i % 1000)

(* toBytes is what its definition says, for every number.                  *)
LEMMA ToBytesIs ==
  /\ Texts!toBytes \in [Nat -> Digits]
  /\ Texts!toBytes[0] = <<>>
  /\ \A i \in 1..9 : Texts!toBytes[i] = <<i>>
  /\ \A i \in 10..99 : Texts!toBytes[i] = <<i \div 10, i % 10>>
  /\ \A i \in Nat : i >= 100 =>
       Texts!toBytes[i] = More(Texts!toBytes[Front(i)], i)
<1> DEFINE Small(i) == IF i >= 10 THEN Texts!digit2(i) ELSE IF i > 0 THEN <<i>> ELSE <<>>
           Is(f) == f = [i \in Nat |-> IF i >= 100 THEN More(f[Front(i)], i) ELSE Small(i)]
<1>1. PICK h : h = Texts!toBytes
  OBVIOUS
<1>2. h = CHOOSE F : Is(F)
  BY <1>1 DEF Texts!toBytes, Front, More
<1>3. ASSUME NEW i \in Nat PROVE Front(i) \in Nat /\ (i >= 100 => Front(i) < i)
  BY DEF Front
<1>4. ASSUME NEW i \in Nat PROVE i < 100 => Small(i) \in Digits
  <2>1. CASE i = 0
    BY <2>1 DEF Digits
  <2>2. CASE i \in 1..9
    <3>1. Small(i) = <<i>>
      BY <2>2
    <3>2. <<i>> \in Digits
      BY <2>2 DEF Digits
    <3> QED
      BY <3>1, <3>2
  <2>3. CASE i \in 10..99
    <3>1. Small(i) = <<i \div 10, i % 10>>
      BY <2>3 DEF Texts!digit2
    <3>2. i \div 10 \in 0..9 /\ i % 10 \in 0..9
      BY <2>3
    <3>3. \A j, k \in 0..9 : <<j, k>> \in Digits
      BY DEF Digits
    <3> QED
      BY <3>1, <3>2, <3>3
  <2> QED
    BY <2>1, <2>2, <2>3
<1>5. ASSUME NEW i \in Nat, NEW s \in Digits PROVE More(s, i) \in Digits
  <2>1. Texts!digit3(i % 1000) \in Digits
    BY DEF Texts!digit3, Digits
  <2>2. \A t \in Digits : s \o t \in Digits
    BY DEF Digits
  <2> QED
    BY <2>1, <2>2 DEF More
<1>6. <<>> \in Digits
  BY DEF Digits
<1> HIDE DEF Small
<1>7. PICK stop, m, p, b, g :
        /\ stop = 0..99
        /\ m = [i \in Nat |-> i]
        /\ p = [i \in Nat |-> Front(i)]
        /\ b = [i \in Nat |-> IF i < 100 THEN Small(i) ELSE <<>>]
        /\ g = [q \in Nat \X Digits |-> More(q[2], q[1])]
  OBVIOUS
<1>8. PICK f : Loops(f, Nat, Digits, stop, p, b, g)
  <2>1. m \in [Nat -> Nat] /\ p \in [Nat -> Nat] /\ stop \in SUBSET Nat
    BY <1>3, <1>7
  <2>2. b \in [Nat -> Digits]
    BY <1>4, <1>6, <1>7
  <2>3. g \in [Nat \X Digits -> Digits]
    BY <1>5, <1>7
  <2>4. \A i \in Nat \ stop : m[p[i]] < m[i]
    BY <1>3, <1>7
  <2> QED
    BY <2>1, <2>2, <2>3, <2>4, LoopsEnd
<1>9. Is(f)
  <2>1. ASSUME NEW i \in Nat PROVE f[i] = IF i >= 100 THEN More(f[Front(i)], i) ELSE Small(i)
    <3>1. CASE i >= 100
      <4>1. i \notin stop /\ p[i] = Front(i) /\ Front(i) \in Nat
        BY <1>3, <1>7, <3>1
      <4>2. f[i] = g[<<i, f[Front(i)]>>] /\ f[Front(i)] \in Digits
        BY <1>8, <4>1 DEF Loops
      <4> QED
        BY <1>7, <3>1, <4>2
    <3>2. CASE i < 100
      <4>1. i \in stop /\ b[i] = Small(i)
        BY <1>7, <3>2
      <4>2. f[i] = b[i]
        BY <1>8, <4>1 DEF Loops
      <4> QED
        BY <3>2, <4>1, <4>2
    <3> QED
      BY <3>1, <3>2
  <2>2. f = [i \in Nat |-> f[i]]
    BY <1>8 DEF Loops
  <2> QED
    BY <2>1, <2>2
<1>10. Is(h)
  <2> HIDE DEF Is
  <2> QED
    BY <1>2, <1>9
<1>11. \A i \in Nat : h[i] = IF i >= 100 THEN More(h[Front(i)], i) ELSE Small(i)
  BY <1>10
<1>12. h \in [Nat -> Digits]
  <2>1. PICK Q : Q = {i \in Nat : h[i] \in Digits}
    OBVIOUS
  <2>2. ASSUME NEW i \in Nat, \A j \in Nat : m[j] < m[i] => j \in Q PROVE i \in Q
    <3>1. CASE i >= 100
      BY <1>3, <1>5, <1>7, <1>11, <2>1, <2>2, <3>1
    <3>2. CASE i < 100
      BY <1>4, <1>11, <2>1, <3>2
    <3> QED
      BY <3>1, <3>2
  <2>3. m \in [Nat -> Nat]
    BY <1>7
  <2>4. Nat \subseteq Q
    BY <2>2, <2>3, SmallerFirst
  <2>5. h = [i \in Nat |-> h[i]]
    BY <1>10
  <2> QED
    BY <2>1, <2>4, <2>5
<1>13. ASSUME NEW i \in Nat
       PROVE  /\ i = 0 => h[i] = <<>>
              /\ i \in 1..9 => h[i] = <<i>>
              /\ i \in 10..99 => h[i] = Texts!digit2(i)
  <2>1. i < 100 => h[i] = Small(i)
    BY <1>11
  <2> QED
    BY <2>1 DEF Small
<1>15. \A i \in 10..99 : h[i] = <<i \div 10, i % 10>>
  BY <1>13 DEF Texts!digit2
<1>16. h[0] = <<>> /\ \A i \in 1..9 : h[i] = <<i>>
  BY <1>13
<1>17. \A i \in Nat : i >= 100 => h[i] = More(h[Front(i)], i)
  BY <1>11
<1> QED
  BY <1>1, <1>12, <1>15, <1>16, <1>17

-----------------------------------------------------------------------------
(* Remainders                                                              *)

(* What is left when M is taken away as often as it goes.                  *)
LEMMA Remainder ==
  ASSUME NEW M \in Nat \ {0}, NEW a \in Int
  PROVE  a % M \in 0..(M - 1)
OBVIOUS

(* A number is so many times M, and the remainder.                         *)
LEMMA RemainderOf ==
  ASSUME NEW M \in Nat \ {0}, NEW a \in Int
  PROVE  a = ((a \div M) * M) + (a % M)
OBVIOUS

(* What is below M, besides a multiple of M, is the remainder.             *)
LEMMA RemainderIs ==
  ASSUME NEW M \in Nat \ {0}, NEW q \in Int, NEW r \in 0..(M - 1)
  PROVE  ((q * M) + r) % M = r
OBVIOUS

(* Taking M away any number of times leaves the remainder as it is.        *)
LEMMA SameRemainder ==
  ASSUME NEW M \in Nat \ {0}, NEW a \in Int, NEW b \in Int, NEW q \in Int, b = a + (q * M)
  PROVE  b % M = a % M
<1>1. PICK r \in 0..(M - 1) : r = a % M
  BY Remainder
<1>2. PICK p \in Int : p = a \div M
  OBVIOUS
<1>3. a = p * M + r
  BY <1>1, <1>2, RemainderOf
<1>4. PICK k \in Int : k = p + q
  OBVIOUS
<1>5. k * M = p * M + q * M
  BY <1>4
<1>6. b = (k * M) + r
  BY <1>3, <1>5
<1> QED
  BY <1>1, <1>6, RemainderIs

Congruent(u, v, M) == u % M = v % M

(* A remainder may be taken before a multiplication and an addition.       *)
LEMMA RemainderFirst ==
  ASSUME NEW M \in Nat \ {0}, NEW a \in Int, NEW r, r = a % M, NEW c \in Int, NEW x \in Int,
         NEW u \in Int, u = (r * c) + x, NEW v \in Int, v = (a * c) + x
  PROVE  Congruent(u, v, M)
<1>1. r \in 0..(M - 1)
  BY Remainder
<1>2. PICK p \in Int : p = a \div M
  OBVIOUS
<1>3. a = p * M + r
  BY <1>1, <1>2, RemainderOf
<1>4. PICK q \in Int : q = p * c
  OBVIOUS
<1>5. a * c = q * M + r * c
  BY <1>1, <1>3, <1>4
<1>6. v = u + (q * M)
  BY <1>1, <1>5
<1> QED
  BY <1>6, SameRemainder DEF Congruent

-----------------------------------------------------------------------------
(* Reading digits                                                          *)

(* A digit more, in uint64.                                                *)
Then(x, d) == ((x * 10) + d) % Texts!Modulus

(* A value read so far, with a digit more, is a number.                    *)
LEMMA ThenType == \A x, d \in Int : Then(x, d) \in Nat
<1> SUFFICES ASSUME NEW x \in Int, NEW d \in Int PROVE Then(x, d) \in Nat
  OBVIOUS
<1>1. PICK M \in Nat \ {0} : M = Texts!Modulus
  BY ModulusIs
<1>2. PICK a \in Int : a = (x * 10) + d
  OBVIOUS
<1>3. a % M \in Nat
  BY Remainder
<1> QED
  BY <1>1, <1>2, <1>3 DEF Then

(* The values that readUint64 goes through.                                *)
Reads(v, s) ==
  /\ v \in [0..Len(s) -> Nat] /\ v[0] = 0
  /\ \A k \in 1..Len(s) : v[k] = Then(v[k - 1], s[k])

(* readDigits is the last of the values.                                   *)
LEMMA ReadIs ==
  ASSUME NEW s \in Seq(Int)
  PROVE  \E v : Reads(v, s) /\ Texts!readDigits(s) = v[Len(s)]
<1> DEFINE Is(g) == g = [k \in 0..Len(s) |-> IF k = 0 THEN 0 ELSE Then(g[k - 1], s[k])]
<1>1. PICK h : h = CHOOSE F : Is(F)
  OBVIOUS
<1>2. Texts!readDigits(s) = h[Len(s)]
  BY <1>1 DEF Texts!readDigits, Then
<1>3. PICK n \in Nat : n = Len(s)
  OBVIOUS
<1>4. \A k \in 1..n : s[k] \in Int
  BY <1>3
<1>5. PICK next : next = [q \in (1..n) \X Nat |-> Then(q[2], s[q[1]])]
  OBVIOUS
<1>6. next \in [(1..n) \X Nat -> Nat]
  <2>1. ASSUME NEW q \in (1..n) \X Nat PROVE Then(q[2], s[q[1]]) \in Nat
    <3>1. q[2] \in Int /\ s[q[1]] \in Int
      BY <1>4
    <3> QED
      BY <3>1, ThenType
  <2> QED
    BY <1>5, <2>1
<1>7. PICK f : Steps(f, Nat, n, 0, next)
  BY <1>6, StepsExist
<1>8. ASSUME NEW k \in 1..n PROVE f[k] = Then(f[k - 1], s[k])
  <2>1. k - 1 \in 0..n
    OBVIOUS
  <2>2. f[k - 1] \in Nat /\ f[k] = next[<<k, f[k - 1]>>]
    BY <1>7, <2>1 DEF Steps
  <2> QED
    BY <1>5, <2>2
<1>9. f \in [0..n -> Nat] /\ f[0] = 0
  BY <1>7 DEF Steps
<1>10. Is(f)
  <2>1. \A k \in 0..n : f[k] = IF k = 0 THEN 0 ELSE Then(f[k - 1], s[k])
    BY <1>8, <1>9
  <2>2. f = [k \in 0..n |-> f[k]]
    BY <1>9
  <2> QED
    BY <1>3, <2>1, <2>2
<1>11. Is(h)
  <2> HIDE DEF Is
  <2> QED
    BY <1>1, <1>10
<1>12. h = f
  <2>1. UpTo(h, n) /\ UpTo(f, n)
    BY <1>3, <1>9, <1>11 DEF UpTo
  <2>2. \A k \in 0..n : h[k] = IF k = 0 THEN 0 ELSE Then(h[k - 1], s[k])
    BY <1>3, <1>11
  <2> HIDE DEF Is
  <2>3. h[0] = f[0]
    BY <1>9, <2>2
  <2>4. \A k \in 1..n : h[k] = Then(h[k - 1], s[k])
    BY <2>2
  <2>5. \A k \in 1..n : h[k - 1] = f[k - 1] => h[k] = f[k]
    BY <1>8, <2>4
  <2> QED
    BY <2>1, <2>3, <2>5, SameSteps
<1> QED
  BY <1>2, <1>3, <1>8, <1>9, <1>12 DEF Reads

(* One more digit.                                                         *)
LEMMA ReadAppend ==
  ASSUME NEW s \in Seq(Int), NEW x \in Int
  PROVE  Texts!readDigits(Append(s, x)) = Then(Texts!readDigits(s), x)
<1>1. PICK n : n \in Nat /\ n = Len(s)
  OBVIOUS
<1>2. PICK t : t \in Seq(Int) /\ t = Append(s, x)
  <2>1. Append(s, x) \in Seq(Int)
    OBVIOUS
  <2> QED
    BY <2>1, Zenon
<1>3. Len(t) = n + 1 /\ t[n + 1] = x /\ \A k \in 1..n : t[k] = s[k]
  BY <1>1, <1>2
<1>4. PICK v : Reads(v, s) /\ Texts!readDigits(s) = v[Len(s)]
  BY ReadIs
<1>5. PICK w : Reads(w, t) /\ Texts!readDigits(t) = w[Len(t)]
  BY <1>2, ReadIs
<1>6. PICK u : u = [k \in 0..n |-> w[k]]
  OBVIOUS
<1>7. \A k \in 1..n : v[k] = Then(v[k - 1], s[k])
  BY <1>1, <1>4 DEF Reads
<1>8. \A k \in 1..(n + 1) : w[k] = Then(w[k - 1], t[k])
  BY <1>3, <1>5 DEF Reads
<1>9. v = u
  <2>1. UpTo(v, n) /\ UpTo(u, n)
    BY <1>1, <1>4, <1>6 DEF Reads, UpTo
  <2>2. v[0] = u[0]
    BY <1>1, <1>4, <1>5, <1>6 DEF Reads
  <2>3. \A k \in 1..n : v[k - 1] = u[k - 1] => v[k] = u[k]
    <3> SUFFICES ASSUME NEW k \in 1..n, v[k - 1] = u[k - 1] PROVE v[k] = u[k]
      OBVIOUS
    <3>1. u[k] = w[k] /\ u[k - 1] = w[k - 1]
      BY <1>1, <1>6
    <3>2. w[k] = Then(w[k - 1], s[k])
      BY <1>1, <1>3, <1>8
    <3> QED
      BY <1>7, <3>1, <3>2
  <2> QED
    BY <1>1, <2>1, <2>2, <2>3, SameSteps
<1>10. w[n + 1] = Then(w[n], x)
  <2>1. w[n + 1] = Then(w[(n + 1) - 1], t[n + 1])
    BY <1>1, <1>8
  <2> QED
    BY <1>1, <1>3, <2>1
<1>11. w[n] = v[n]
  BY <1>1, <1>6, <1>9
<1> QED
  BY <1>1, <1>2, <1>3, <1>4, <1>5, <1>10, <1>11

(* What is read is less than the modulus, and nothing is 0.                *)
LEMMA ReadType ==
  ASSUME NEW s \in Seq(Int)
  PROVE  Texts!readDigits(s) \in Nat /\ (s = <<>> => Texts!readDigits(s) = 0)
<1>1. PICK v : Reads(v, s) /\ Texts!readDigits(s) = v[Len(s)]
  BY ReadIs
<1>2. Len(s) \in 0..Len(s) /\ (s = <<>> => Len(s) = 0)
  OBVIOUS
<1> QED
  BY <1>1, <1>2 DEF Reads

(* The remainder of a number that is less than the modulus.                *)
LEMMA LessThanModulus ==
  ASSUME NEW i \in Nat, i < Texts!Modulus
  PROVE  i % Texts!Modulus = i
<1>1. PICK M : M \in Nat \ {0} /\ M = Texts!Modulus
  BY ModulusIs
<1>2. PICK z : z \in Int /\ z = 0
  OBVIOUS
<1>3. i \in 0..(M - 1)
  BY <1>1
<1>4. ((z * M) + i) % M = i
  BY <1>1, <1>2, <1>3, RemainderIs
<1>5. z * M = 0
  BY <1>1, <1>2
<1> QED
  BY <1>1, <1>4, <1>5

(* s are the digits of a, as far as uint64 goes; one more digit makes ten  *)
(* times as much.                                                          *)
Denotes(s, a) == s \in Seq(Int) /\ Texts!readDigits(s) = a % Texts!Modulus

(* The empty text denotes 0.                                               *)
LEMMA DenotesNothing == Denotes(<<>>, 0)
<1>1. 0 < Texts!Modulus
  BY ModulusIs
<1>2. 0 % Texts!Modulus = 0
  BY <1>1, LessThanModulus
<1>3. PICK e : e = <<>>
  OBVIOUS
<1>4. e \in Seq(Int)
  BY <1>3
<1>5. Texts!readDigits(e) = 0
  BY <1>3, <1>4, ReadType
<1> QED
  BY <1>2, <1>3, <1>4, <1>5 DEF Denotes

(* A digit more denotes ten times as much, and the digit.                  *)
LEMMA DenotesMore ==
  ASSUME NEW s, NEW a \in Int, Denotes(s, a), NEW d \in Int, NEW e \in Int, e = (a * 10) + d
  PROVE  Denotes(Append(s, d), e)
<1>1. PICK M : M \in Nat \ {0} /\ M = Texts!Modulus
  BY ModulusIs
<1>2. PICK r : r \in Int /\ r = a % M
  BY <1>1
<1>3. PICK u : u \in Int /\ u = (r * 10) + d
  BY <1>2
<1>4. s \in Seq(Int) /\ Texts!readDigits(s) = r
  BY <1>1, <1>2 DEF Denotes
<1>5. Append(s, d) \in Seq(Int)
  BY <1>4
<1>6. Texts!readDigits(Append(s, d)) = Then(r, d)
  BY <1>4, ReadAppend
<1>7. Then(r, d) = u % M
  BY <1>1, <1>3 DEF Then
<1>8. u % M = e % M
  <2>1. PICK c : c \in Int /\ c = 10
    OBVIOUS
  <2>2. u = (r * c) + d /\ e = (a * c) + d
    BY <1>2, <1>3, <2>1
  <2> QED
    <3>1. Congruent(u, e, M)
      BY <1>1, <1>2, <1>3, <2>1, <2>2, RemainderFirst
    <3> QED
      BY <3>1 DEF Congruent
<1> QED
  BY <1>1, <1>5, <1>6, <1>7, <1>8 DEF Denotes

(* Tuples, appended to one by one.                                         *)
LEMMA Tuples ==
  /\ \A a : <<a>> = Append(<<>>, a)
  /\ \A a, b : <<a, b>> = Append(<<a>>, b)
  /\ \A s \in Seq(Int), a, b, c \in Int : s \o <<a, b, c>> = Append(Append(Append(s, a), b), c)
<1>1. ASSUME NEW a PROVE <<a>> = Append(<<>>, a)
  OBVIOUS
<1>2. ASSUME NEW a, NEW b PROVE <<a, b>> = Append(<<a>>, b)
  <2>1. PICK s : s = <<a>>
    OBVIOUS
  <2>2. s \in Seq({a, b}) /\ Len(s) = 1 /\ s[1] = a
    BY <2>1
  <2>3. PICK t : t = Append(s, b)
    OBVIOUS
  <2>4. t \in Seq({a, b}) /\ Len(t) = 2 /\ t[1] = a /\ t[2] = b
    <3>1. PICK S : S = {a, b}
      OBVIOUS
    <3>2. s \in Seq(S) /\ b \in S
      BY <2>2, <3>1
    <3>3. t \in Seq(S)
      BY <2>3, <3>2
    <3>4. Len(t) = 2 /\ t[1] = a /\ t[2] = b
      <4>1. Len(t) = Len(s) + 1 /\ t[Len(s) + 1] = b
        BY <2>3, <3>2
      <4>2. t[1] = s[1]
        BY <2>2, <2>3, <3>2, AppendProperties
      <4> QED
        BY <2>2, <4>1, <4>2
    <3> QED
      BY <3>1, <3>3, <3>4
  <2>5. t = <<a, b>>
    BY <2>4
  <2> QED
    BY <2>1, <2>3, <2>5
<1>3. ASSUME NEW s \in Seq(Int), NEW a \in Int, NEW b \in Int, NEW c \in Int
      PROVE  s \o <<a, b, c>> = Append(Append(Append(s, a), b), c)
  OBVIOUS
<1> QED
  BY <1>1, <1>2, <1>3, Zenon

(* What toBytes writes is read as the number, as far as uint64 goes.       *)
LEMMA ReadsBack == \A i \in Nat : Denotes(Texts!toBytes[i], i)
<1>1. PICK h : h = Texts!toBytes
  OBVIOUS
<1>2. PICK Q : Q = {i \in Nat : Denotes(h[i], i)}
  OBVIOUS
<1>3. PICK m : m = [i \in Nat |-> i]
  OBVIOUS
<1>4. ASSUME NEW i \in Nat PROVE Denotes(<<i>>, i)
  <2>1. i = (0 * 10) + i
    OBVIOUS
  <2>2. Denotes(Append(<<>>, i), i)
    <3>1. PICK z, e : z \in Int /\ z = 0 /\ e = <<>>
      OBVIOUS
    <3>2. Denotes(e, z)
      BY <3>1, DenotesNothing, Zenon
    <3>3. i = (z * 10) + i
      BY <3>1
    <3>4. Denotes(Append(e, i), i)
      <4>1. z \in Int
        BY <3>1
      <4> QED
        BY <3>2, <3>3, <4>1, DenotesMore
    <3> QED
      BY <3>1, <3>4, Zenon
  <2> QED
    BY <2>2, Tuples, Zenon
<1>5. ASSUME NEW i \in Nat, \A j \in Nat : m[j] < m[i] => j \in Q PROVE i \in Q
  <2>1. CASE i = 0
    <3>1. h[i] = <<>>
      BY <1>1, <2>1, ToBytesIs, Zenon
    <3> QED
      BY <1>2, <2>1, <3>1, DenotesNothing
  <2>2. CASE i \in 1..9
    <3>1. h[i] = <<i>>
      BY <1>1, <2>2, ToBytesIs, Zenon
    <3>2. Denotes(h[i], i)
      BY <1>4, <3>1, Zenon
    <3> QED
      BY <1>2, <3>2
  <2>3. CASE i \in 10..99
    <3>1. PICK a, b \in Nat : a = i \div 10 /\ b = i % 10
      OBVIOUS
    <3>2. i = (a * 10) + b
      BY <3>1
    <3>3. h[i] = <<a, b>>
      BY <1>1, <2>3, <3>1, ToBytesIs, Zenon
    <3>4. PICK s : s = <<a>>
      OBVIOUS
    <3>5. Denotes(s, a)
      BY <1>4, <3>4, Zenon
    <3>6. Denotes(Append(s, b), i)
      BY <3>2, <3>5, DenotesMore
    <3>7. h[i] = Append(s, b)
      BY <3>3, <3>4, Tuples, Zenon
    <3> QED
      BY <1>2, <3>6, <3>7
  <2>4. CASE i >= 100
    <3>1. PICK f : f = Front(i)
      OBVIOUS
    <3>2. f \in Nat /\ f < i
      BY <2>4, <3>1 DEF Front
    <3>3. PICK a, b, c \in Nat : a = (i % 1000) \div 100 /\ b = ((i % 1000) \div 10) % 10 /\ c = (i % 1000) % 10
      OBVIOUS
    <3>4. i = (((((f * 10) + a) * 10) + b) * 10) + c
      BY <3>1, <3>3 DEF Front
    <3>5. PICK s : s = h[f]
      OBVIOUS
    <3>6. Denotes(s, f)
      BY <1>2, <1>3, <1>5, <3>2, <3>5
    <3>7. PICK t1, t2, t3 : t1 = Append(s, a) /\ t2 = Append(t1, b) /\ t3 = Append(t2, c)
      OBVIOUS
    <3>8. PICK j, k \in Int : j = (f * 10) + a /\ k = (j * 10) + b
      BY <3>2
    <3>9. Denotes(t1, j)
      BY <3>2, <3>6, <3>7, <3>8, DenotesMore
    <3>10. Denotes(t2, k)
      BY <3>7, <3>8, <3>9, DenotesMore
    <3>11. Denotes(t3, i)
      <4>1. i = (k * 10) + c
        BY <3>2, <3>4, <3>8
      <4> QED
        BY <3>7, <3>10, <4>1, DenotesMore
    <3>12. h[i] = t3
      <4>1. h[i] = More(s, i)
        BY <1>1, <2>4, <3>1, <3>5, ToBytesIs
      <4>2. PICK d : d = Texts!digit3(i % 1000)
        OBVIOUS
      <4>3. h[i] = s \o <<a, b, c>>
        <5>1. d = <<a, b, c>>
          BY <3>3, <4>2 DEF Texts!digit3
        <5>2. More(s, i) = s \o d
          BY <4>2, Zenon DEF More
        <5> QED
          BY <4>1, <5>1, <5>2, Zenon
      <4>4. s \in Seq(Int) /\ a \in Int /\ b \in Int /\ c \in Int
        BY <3>6 DEF Denotes
      <4> QED
        BY <3>7, <4>3, <4>4, Tuples, Zenon
    <3> QED
      BY <1>2, <3>11, <3>12
  <2> QED
    BY <2>1, <2>2, <2>3, <2>4
<1>6. Nat \subseteq Q
  <2>1. m \in [Nat -> Nat]
    BY <1>3
  <2> QED
    BY <1>5, <2>1, SmallerFirst
<1> QED
  BY <1>1, <1>2, <1>6

(* No number is written with a leading 0, by toBytes.                      *)
Leads(s) == s # <<>> /\ s[1] \in 1..9

(* toBytes writes no leading zero.                                         *)
LEMMA NoLeadingZero == \A i \in Nat \ {0} : Leads(Texts!toBytes[i])
<1>1. PICK h : h = Texts!toBytes
  OBVIOUS
<1>2. PICK Q : Q = {i \in Nat : i # 0 => Leads(h[i])}
  OBVIOUS
<1>3. PICK m : m = [i \in Nat |-> i]
  OBVIOUS
<1>4. ASSUME NEW i \in Nat, \A j \in Nat : m[j] < m[i] => j \in Q PROVE i \in Q
  <2>1. CASE i = 0
    BY <1>2, <2>1
  <2>2. CASE i \in 1..9
    <3>1. h[i] = <<i>>
      BY <1>1, <2>2, ToBytesIs, Zenon
    <3>2. Leads(<<i>>)
      BY <2>2 DEF Leads
    <3>3. Leads(h[i])
      BY <3>1, <3>2, Zenon
    <3> QED
      BY <1>2, <3>3
  <2>3. CASE i \in 10..99
    <3>1. PICK a, b \in Nat : a = i \div 10 /\ b = i % 10
      OBVIOUS
    <3>2. h[i] = <<a, b>>
      BY <1>1, <2>3, <3>1, ToBytesIs, Zenon
    <3>3. a \in 1..9
      BY <2>3, <3>1
    <3>4. Leads(<<a, b>>)
      BY <3>3 DEF Leads
    <3>5. Leads(h[i])
      BY <3>2, <3>4, Zenon
    <3> QED
      BY <1>2, <3>5
  <2>4. CASE i >= 100
    <3>1. PICK a, b, c \in Nat : a = (i % 1000) \div 100 /\ b = ((i % 1000) \div 10) % 10 /\ c = (i % 1000) % 10
      OBVIOUS
    <3>2. PICK f : f \in Nat /\ f = Front(i)
      BY DEF Front
    <3>3. PICK s : s \in Seq(Int) /\ s = h[f]
      <4>1. h[f] \in Digits
        BY <1>1, <3>2, ToBytesIs
      <4>2. h[f] \in Seq(Int)
        BY <4>1 DEF Digits
      <4> QED
        BY <4>2
    <3>4. h[i] = s \o <<a, b, c>>
      <4>1. h[i] = More(s, i)
        BY <1>1, <2>4, <3>2, <3>3, ToBytesIs
      <4>2. PICK d : d = Texts!digit3(i % 1000)
        OBVIOUS
      <4>3. d = <<a, b, c>>
        BY <3>1, <4>2 DEF Texts!digit3
      <4>4. More(s, i) = s \o d
        BY <4>2, Zenon DEF More
      <4> QED
        BY <4>1, <4>3, <4>4, Zenon
    <3>5. PICK t : t = <<a, b, c>>
      OBVIOUS
    <3>6. t \in Seq(Int) /\ t # <<>> /\ t[1] = a
      BY <3>5
    <3>7. PICK u : u = s \o t
      OBVIOUS
    <3>8. h[i] = u
      BY <3>4, <3>5, <3>7
    <3>9. Leads(u)
      <4>1. CASE f = 0
        <5>1. s = <<>>
          BY <1>1, <3>3, <4>1, ToBytesIs
        <5>2. a \in 1..9
          BY <2>4, <3>1, <3>2, <4>1 DEF Front
        <5>3. u = t
          BY <3>6, <3>7, <5>1
        <5> QED
          BY <3>6, <5>2, <5>3 DEF Leads
      <4>2. CASE f # 0
        <5>1. f < i
          BY <2>4, <3>2 DEF Front
        <5>2. Leads(s)
          BY <1>2, <1>3, <1>4, <3>2, <3>3, <4>2, <5>1
        <5>3. s # <<>> /\ s[1] \in 1..9
          BY <5>2 DEF Leads
        <5>4. u # <<>> /\ u[1] = s[1]
          BY <3>3, <3>6, <3>7, <5>3
        <5> QED
          BY <5>3, <5>4 DEF Leads
      <4> QED
        BY <4>1, <4>2
    <3> QED
      BY <1>2, <3>8, <3>9
  <2> QED
    BY <2>1, <2>2, <2>3, <2>4
<1>5. Nat \subseteq Q
  <2>1. m \in [Nat -> Nat]
    BY <1>3
  <2> QED
    BY <1>4, <2>1, SmallerFirst
<1> QED
  BY <1>1, <1>2, <1>5

-----------------------------------------------------------------------------
(* Integers read back                                                      *)

(* The remainder of a number that is less than the modulus is read.        *)
LEMMA DenotesLess ==
  ASSUME NEW s, NEW i \in Nat, i < Texts!Modulus, Denotes(s, i)
  PROVE  Texts!readDigits(s) = i
BY LessThanModulus DEF Denotes

(* A number up to 9 is written as itself, and any other by toBytes.        *)
LEMMA UintText ==
  ASSUME NEW i \in Nat
  PROVE  \E s : /\ s = Texts!AppendUint64(i) /\ Denotes(s, i) /\ s # <<>>
                /\ s[1] \in 0..9 /\ (s[1] = 0 => s = <<0>> /\ i = 0)
<1>1. PICK s : s = Texts!AppendUint64(i)
  OBVIOUS
<1>2. CASE i = 0
  <2>1. s = <<0>>
    BY <1>1, <1>2 DEF Texts!AppendUint64
  <2>2. Append(<<>>, 0) = <<0>>
    BY Tuples, Zenon
  <2>3. Denotes(Append(<<>>, 0), 0)
    <3>1. PICK z, e : z \in Int /\ z = 0 /\ e = <<>>
      OBVIOUS
    <3>2. Denotes(e, z)
      BY <3>1, DenotesNothing, Zenon
    <3>3. z = (z * 10) + z
      BY <3>1
    <3>4. Denotes(Append(e, z), z)
      <4>1. z \in Int
        BY <3>1
      <4> QED
        BY <3>2, <3>3, <4>1, DenotesMore
    <3> QED
      BY <3>1, <3>4, Zenon
  <2>4. Denotes(s, i)
    BY <1>2, <2>1, <2>2, <2>3, Zenon
  <2>5. s # <<>> /\ s[1] = 0
    BY <2>1
  <2> QED
    BY <1>1, <1>2, <2>1, <2>4, <2>5
<1>3. CASE i # 0
  <2>1. s = Texts!toBytes[i]
    <3>1. CASE i <= 9
      <4>1. s = <<i>>
        BY <1>1, <3>1 DEF Texts!AppendUint64
      <4>2. i \in 1..9
        BY <1>3, <3>1
      <4> QED
        BY <4>1, <4>2, ToBytesIs, Zenon
    <3>2. CASE ~(i <= 9)
      BY <1>1, <3>2 DEF Texts!AppendUint64
    <3> QED
      BY <3>1, <3>2
  <2>2. Denotes(s, i)
    BY <2>1, ReadsBack
  <2>3. Leads(s)
    BY <1>3, <2>1, NoLeadingZero
  <2> QED
    BY <1>1, <2>2, <2>3 DEF Leads
<1> QED
  BY <1>2, <1>3

(* A negative number is written as the sign and the digits of its amount,  *)
(* the least one too.                                                      *)
LEMMA IntText ==
  ASSUME NEW i \in Int, i < 0
  PROVE  Texts!AppendInt64(i) = <<-1>> \o Texts!toBytes[-i]
<1>1. PICK j : j = -i
  OBVIOUS
<1>2. ~(i >= 0)
  OBVIOUS
<1>3. CASE i = Texts!MinInt
  <2>1. Texts!AppendInt64(i) = Texts!minInt64Buf
    BY <1>2, <1>3 DEF Texts!AppendInt64
  <2>2. Texts!minInt64Buf = <<-1>> \o Texts!toBytes[j]
    BY <1>1, <1>3 DEF Texts!minInt64Buf, Texts!Minus
  <2> QED
    BY <1>1, <2>1, <2>2
<1>4. CASE i # Texts!MinInt
  BY <1>2, <1>4 DEF Texts!AppendInt64, Texts!Minus
<1> QED
  BY <1>3, <1>4

(* The sign, and what comes after it.                                      *)
LEMMA SignFirst ==
  ASSUME NEW s \in Seq(Int), NEW t, t = <<-1>> \o s
  PROVE  t # <<>> /\ t[1] = -1 /\ Head(t) = -1 /\ Tail(t) = s
<1>1. PICK m : m \in Seq(Int) /\ m = <<-1>>
  <2>1. <<-1>> \in Seq(Int)
    OBVIOUS
  <2> QED
    BY <2>1
<1>2. Len(m) = 1 /\ m[1] = -1
  BY <1>1
<1>3. t = m \o s
  BY <1>1
<1>4. t \in Seq(Int) /\ Len(t) = Len(s) + 1 /\ t[1] = -1 /\ \A k \in 1..Len(s) : t[k + 1] = s[k]
  BY <1>1, <1>2, <1>3
<1>5. Head(t) = -1 /\ t # <<>>
  BY <1>4
<1>6. Tail(t) = s
  <2>1. PICK u : u = Tail(t)
    OBVIOUS
  <2>2. u \in Seq(Int) /\ Len(u) = Len(s) /\ \A k \in 1..Len(s) : u[k] = t[k + 1]
    BY <1>4, <1>5, <2>1
  <2>3. \A k \in 1..Len(s) : u[k] = s[k]
    BY <1>4, <2>2
  <2>4. u = s
    BY <2>2, <2>3, SeqEqual
  <2> QED
    BY <2>1, <2>4
<1> QED
  BY <1>4, <1>5, <1>6

(* Every int64 reads back, and has no leading zeros.                       *)
LEMMA Int64RoundTrips ==
  ASSUME NEW i \in Texts!MinInt..MaxInt, NEW t, t = Texts!AppendInt64(i)
  PROVE  /\ t # <<>>
         /\ Texts!ReadInt64(t) = i
         /\ t[1] = -1 => Tail(t)[1] # 0
         /\ t[1] # -1 => (t[1] = 0 => t = <<0>> /\ i = 0)
<1>1. PICK M : M \in Nat \ {0} /\ M = Texts!Modulus /\ M = 2 * MaxInt + 2
  BY ModulusIs
<1>2. MaxInt \in Nat /\ i \in Int /\ -MaxInt - 1 <= i /\ i <= MaxInt
  BY TextAssumption DEF Texts!MinInt
<1>3. CASE i >= 0
  <2>1. t = Texts!AppendUint64(i)
    BY <1>3 DEF Texts!AppendInt64
  <2>2. i \in Nat /\ i < M
    BY <1>1, <1>2, <1>3
  <2>3. Denotes(t, i) /\ t # <<>> /\ t[1] \in 0..9 /\ (t[1] = 0 => t = <<0>> /\ i = 0)
    BY <2>1, <2>2, UintText
  <2>4. Texts!readDigits(t) = i
    BY <1>1, <2>2, <2>3, DenotesLess
  <2>5. t \in Seq(Int) /\ Head(t) = t[1]
    BY <2>3 DEF Denotes
  <2>6. t[1] # -1
    BY <2>3
  <2>7. Texts!ReadInt64(t) = Texts!Signed(i)
    BY <2>4, <2>5, <2>6 DEF Texts!ReadInt64, Texts!ReadUint64, Texts!Minus
  <2>8. Texts!Signed(i) = i
    BY <1>2 DEF Texts!Signed
  <2> QED
    BY <2>3, <2>6, <2>7, <2>8
<1>4. CASE i < 0
  <2>1. PICK j : j \in Nat \ {0} /\ j = -i
    BY <1>2, <1>4
  <2>2. PICK s : s = Texts!toBytes[j]
    OBVIOUS
  <2>3. t = <<-1>> \o s
    BY <1>2, <1>4, <2>1, <2>2, IntText
  <2>4. Denotes(s, j) /\ Leads(s)
    BY <2>1, <2>2, ReadsBack, NoLeadingZero
  <2>5. t # <<>> /\ t[1] = -1 /\ Head(t) = -1 /\ Tail(t) = s
    <3>1. s \in Seq(Int)
      BY <2>4 DEF Denotes
    <3> QED
      BY <2>3, <3>1, SignFirst
  <2>6. j < M
    BY <1>1, <1>2, <2>1
  <2>7. Texts!readDigits(s) = j
    BY <1>1, <2>1, <2>4, <2>6, DenotesLess
  <2>8. PICK r : r \in Nat /\ r = M - j
    BY <1>1, <2>1, <2>6
  <2>9. r % M = r
    BY <1>1, <2>1, <2>8, LessThanModulus
  <2>10. Texts!ReadInt64(t) = Texts!Signed(r)
    BY <1>1, <2>5, <2>7, <2>8, <2>9 DEF Texts!ReadInt64, Texts!ReadUint64, Texts!Minus
  <2>11. Texts!Signed(r) = i
    <3>1. r > MaxInt
      BY <1>1, <1>2, <2>1, <2>8
    <3> QED
      BY <1>1, <1>2, <2>1, <2>8, <3>1 DEF Texts!Signed
  <2>12. Tail(t)[1] # 0
    BY <2>4, <2>5 DEF Leads
  <2> QED
    BY <2>5, <2>10, <2>11, <2>12
<1>5. i >= 0 \/ i < 0
  BY <1>2
<1> QED
  BY <1>3, <1>4, <1>5, Zenon

(* Every uint64 reads back, and has no leading zeros.                      *)
LEMMA Uint64RoundTrips ==
  ASSUME NEW i \in 0..(Texts!Modulus - 1), NEW t, t = Texts!AppendUint64(i)
  PROVE  /\ t # <<>> /\ t[1] # -1
         /\ Texts!ReadUint64(t) = i
         /\ t[1] = 0 => t = <<0>> /\ i = 0
<1>1. i \in Nat /\ i < Texts!Modulus
  BY ModulusIs
<1>2. Denotes(t, i) /\ t # <<>> /\ t[1] \in 0..9 /\ (t[1] = 0 => t = <<0>> /\ i = 0)
  BY <1>1, UintText
<1>3. Texts!readDigits(t) = i
  BY <1>1, <1>2, DenotesLess
<1> QED
  BY <1>2, <1>3 DEF Texts!ReadUint64

-----------------------------------------------------------------------------
(* The length of strings                                                   *)

(* What utf16Length counts with.                                           *)
Counters == [n : Int, c : -1..3]

(* The writer's count stays a count.                                       *)
LEMMA StepType == \A p \in Counters, a \in Texts!Classes : Texts!utf16Step(p, a) \in Counters
BY DEF Counters, Texts!utf16Step, Texts!Classes

(* The counters that utf16Length goes through.                             *)
Counts(v, s) ==
  /\ v \in [0..Len(s) -> Counters] /\ v[0] = [n |-> Len(s), c |-> 0]
  /\ \A k \in 1..Len(s) : v[k] = Texts!utf16Step(v[k - 1], s[k])

(* utf16Count is the last of them.                                         *)
LEMMA CountIs ==
  ASSUME NEW s \in Seq(Texts!Classes)
  PROVE  \E v : Counts(v, s) /\ Texts!utf16Count(s) = v[Len(s)]
<1> DEFINE Base == [n |-> Len(s), c |-> 0]
           Is(g) == g = [k \in 0..Len(s) |-> IF k = 0 THEN Base ELSE Texts!utf16Step(g[k - 1], s[k])]
<1>1. PICK h : h = CHOOSE F : Is(F)
  OBVIOUS
<1>2. Texts!utf16Count(s) = h[Len(s)]
  BY <1>1 DEF Texts!utf16Count
<1>3. PICK n \in Nat : n = Len(s)
  OBVIOUS
<1>4. PICK base : base = Base /\ base \in Counters
  <2>1. Base \in Counters
    BY DEF Counters
  <2> HIDE DEF Base
  <2> QED
    BY <2>1
<1>5. \A k \in 1..n : s[k] \in Texts!Classes
  BY <1>3
<1> HIDE DEF Base
<1>6. PICK next : next = [q \in (1..n) \X Counters |-> Texts!utf16Step(q[2], s[q[1]])]
  OBVIOUS
<1>7. next \in [(1..n) \X Counters -> Counters]
  <2>1. ASSUME NEW q \in (1..n) \X Counters PROVE Texts!utf16Step(q[2], s[q[1]]) \in Counters
    <3>1. q[2] \in Counters /\ s[q[1]] \in Texts!Classes
      BY <1>5
    <3> QED
      BY <3>1, StepType
  <2> QED
    BY <1>6, <2>1
<1>8. PICK f : Steps(f, Counters, n, base, next)
  BY <1>4, <1>7, StepsExist
<1>9. ASSUME NEW k \in 1..n PROVE f[k] = Texts!utf16Step(f[k - 1], s[k])
  <2>1. k - 1 \in 0..n
    OBVIOUS
  <2>2. f[k - 1] \in Counters /\ f[k] = next[<<k, f[k - 1]>>]
    BY <1>8, <2>1 DEF Steps
  <2> QED
    BY <1>6, <2>2
<1>10. f \in [0..n -> Counters] /\ f[0] = Base
  BY <1>4, <1>8 DEF Steps
<1>11. Is(f)
  <2>1. \A k \in 0..n : f[k] = IF k = 0 THEN Base ELSE Texts!utf16Step(f[k - 1], s[k])
    BY <1>9, <1>10
  <2>2. f = [k \in 0..n |-> f[k]]
    BY <1>10
  <2> QED
    BY <1>3, <2>1, <2>2
<1>12. Is(h)
  <2> HIDE DEF Is
  <2> QED
    BY <1>1, <1>11
<1>13. h = f
  <2>1. UpTo(h, n) /\ UpTo(f, n)
    BY <1>3, <1>10, <1>12 DEF UpTo
  <2>2. \A k \in 0..n : h[k] = IF k = 0 THEN Base ELSE Texts!utf16Step(h[k - 1], s[k])
    BY <1>3, <1>12
  <2> HIDE DEF Is
  <2>3. h[0] = f[0]
    BY <1>10, <2>2
  <2>4. \A k \in 1..n : h[k] = Texts!utf16Step(h[k - 1], s[k])
    BY <2>2
  <2>5. \A k \in 1..n : h[k - 1] = f[k - 1] => h[k] = f[k]
    BY <1>9, <2>4
  <2> QED
    BY <2>1, <2>3, <2>5, SameSteps
<1> QED
  BY <1>2, <1>3, <1>9, <1>10, <1>13 DEF Counts, Base

(* What fastReadStringAsBytes counts with.                                 *)
Skippers == [off : Int, n : Int]

(* The reader's place and count stay so.                                   *)
LEMMA SkipType ==
  \A s \in Seq(Texts!Classes), p \in Skippers : Texts!skipStep(s, p) \in Skippers
<1> SUFFICES ASSUME NEW s \in Seq(Texts!Classes), NEW p \in Skippers PROVE Texts!skipStep(s, p) \in Skippers
  OBVIOUS
<1>1. p.off \in Int /\ p.n \in Int /\ p = [off |-> p.off, n |-> p.n]
  BY DEF Skippers
<1>2. CASE p.n <= 0 \/ p.off < 0
  BY <1>2 DEF Texts!skipStep
<1>3. CASE ~(p.n <= 0 \/ p.off < 0)
  <2>1. CASE p.off >= Len(s) \/ s[p.off + 1] \notin 1..4
    BY <1>1, <1>3, <2>1 DEF Texts!skipStep, Skippers
  <2>2. CASE ~(p.off >= Len(s) \/ s[p.off + 1] \notin 1..4)
    BY <1>1, <1>3, <2>2 DEF Texts!skipStep, Skippers
  <2> QED
    BY <2>1, <2>2
<1> QED
  BY <1>2, <1>3

(* The places it goes through.                                             *)
Skips(v, s, n) ==
  /\ v \in [0..n -> Skippers] /\ v[0] = [off |-> 0, n |-> n]
  /\ \A k \in 1..n : v[k] = Texts!skipStep(s, v[k - 1])

(* skipUnits is the last of them.                                          *)
LEMMA SkipIs ==
  ASSUME NEW s \in Seq(Texts!Classes), NEW n \in Nat
  PROVE  \E v : Skips(v, s, n) /\ Texts!skipUnits(s, n) = v[n].off
<1> DEFINE Base == [off |-> 0, n |-> n]
           Is(g) == g = [k \in 0..n |-> IF k = 0 THEN Base ELSE Texts!skipStep(s, g[k - 1])]
<1>1. PICK h : h = CHOOSE F : Is(F)
  OBVIOUS
<1>2. Texts!skipUnits(s, n) = h[n].off
  BY <1>1 DEF Texts!skipUnits
<1>3. PICK base : base = Base /\ base \in Skippers
  <2>1. Base \in Skippers
    BY DEF Skippers
  <2> HIDE DEF Base
  <2> QED
    BY <2>1
<1> HIDE DEF Base
<1>4. PICK next : next = [q \in (1..n) \X Skippers |-> Texts!skipStep(s, q[2])]
  OBVIOUS
<1>5. next \in [(1..n) \X Skippers -> Skippers]
  <2>1. ASSUME NEW q \in (1..n) \X Skippers PROVE Texts!skipStep(s, q[2]) \in Skippers
    BY SkipType
  <2> QED
    BY <1>4, <2>1
<1>6. PICK f : Steps(f, Skippers, n, base, next)
  BY <1>3, <1>5, StepsExist
<1>7. ASSUME NEW k \in 1..n PROVE f[k] = Texts!skipStep(s, f[k - 1])
  <2>1. k - 1 \in 0..n
    OBVIOUS
  <2>2. f[k - 1] \in Skippers /\ f[k] = next[<<k, f[k - 1]>>]
    BY <1>6, <2>1 DEF Steps
  <2> QED
    BY <1>4, <2>2
<1>8. f \in [0..n -> Skippers] /\ f[0] = Base
  BY <1>3, <1>6 DEF Steps
<1>9. Is(f)
  <2>1. \A k \in 0..n : f[k] = IF k = 0 THEN Base ELSE Texts!skipStep(s, f[k - 1])
    BY <1>7, <1>8
  <2>2. f = [k \in 0..n |-> f[k]]
    BY <1>8
  <2> QED
    BY <2>1, <2>2
<1>10. Is(h)
  <2> HIDE DEF Is
  <2> QED
    BY <1>1, <1>9
<1>11. h = f
  <2>1. UpTo(h, n) /\ UpTo(f, n)
    BY <1>8, <1>10 DEF UpTo
  <2>2. \A k \in 0..n : h[k] = IF k = 0 THEN Base ELSE Texts!skipStep(s, h[k - 1])
    BY <1>10
  <2> HIDE DEF Is
  <2>3. h[0] = f[0]
    BY <1>8, <2>2
  <2>4. \A k \in 1..n : h[k] = Texts!skipStep(s, h[k - 1])
    BY <2>2
  <2>5. \A k \in 1..n : h[k - 1] = f[k - 1] => h[k] = f[k]
    BY <1>7, <2>4
  <2> QED
    BY <2>1, <2>3, <2>5, SameSteps
<1> QED
  BY <1>2, <1>7, <1>8, <1>11 DEF Skips, Base

(* The units of the first k bytes: one for each byte that starts a         *)
(* character, and one more if the character has four bytes.                *)
Heads(s, k) == {i \in 1..k : s[i] /= 0}
Fours(s, k) == {i \in 1..k : s[i] = 4}
Units(s, k) == Cardinality(Heads(s, k)) + Cardinality(Fours(s, k))
UnitsOf(a) == IF a = 0 THEN 0 ELSE IF a = 4 THEN 2 ELSE 1

(* Units are counted byte by byte.                                         *)
LEMMA UnitsAdd ==
  ASSUME NEW s \in Seq(Texts!Classes)
  PROVE  /\ Units(s, 0) = 0
         /\ \A k \in 0..Len(s) : Units(s, k) \in Nat
         /\ \A k \in 1..Len(s) : Units(s, k) = Units(s, k - 1) + UnitsOf(s[k])
<1>1. Heads(s, 0) = {} /\ Fours(s, 0) = {}
  BY DEF Heads, Fours
<1>2. Units(s, 0) = 0
  <2>1. Cardinality({}) = 0
    BY FS_EmptySet
  <2>2. Cardinality(Heads(s, 0)) = 0 /\ Cardinality(Fours(s, 0)) = 0
    BY <1>1, <2>1, Zenon
  <2> QED
    BY <2>2 DEF Units
<1>3. ASSUME NEW k \in 0..Len(s)
      PROVE  /\ IsFiniteSet(Heads(s, k)) /\ Cardinality(Heads(s, k)) \in Nat
             /\ IsFiniteSet(Fours(s, k)) /\ Cardinality(Fours(s, k)) \in Nat
  <2>1. IsFiniteSet(1..k)
    BY FS_Interval
  <2>2. Heads(s, k) \subseteq 1..k /\ Fours(s, k) \subseteq 1..k
    BY DEF Heads, Fours
  <2> QED
    BY <2>1, <2>2, FS_Subset, FS_CardinalityType
<1>4. ASSUME NEW k \in 1..Len(s) PROVE Units(s, k) = Units(s, k - 1) + UnitsOf(s[k])
  <2>1. PICK j : j \in 0..Len(s) /\ j = k - 1 /\ k = j + 1
    OBVIOUS
  <2>2. k \notin Heads(s, j) /\ k \notin Fours(s, j)
    BY <2>1 DEF Heads, Fours
  <2>3. Heads(s, k) = IF s[k] = 0 THEN Heads(s, j) ELSE Heads(s, j) \cup {k}
    BY <2>1 DEF Heads
  <2>4. Fours(s, k) = IF s[k] = 4 THEN Fours(s, j) \cup {k} ELSE Fours(s, j)
    BY <2>1 DEF Fours
  <2>5. PICK H, F : H = Heads(s, j) /\ F = Fours(s, j)
    OBVIOUS
  <2>6. /\ IsFiniteSet(H) /\ Cardinality(H) \in Nat /\ k \notin H
        /\ IsFiniteSet(F) /\ Cardinality(F) \in Nat /\ k \notin F
    BY <1>3, <2>1, <2>2, <2>5
  <2>7. Cardinality(H \cup {k}) = Cardinality(H) + 1 /\ Cardinality(F \cup {k}) = Cardinality(F) + 1
    BY <2>6, FS_AddElement
  <2>8. Cardinality(Heads(s, k)) = Cardinality(H) + (IF s[k] = 0 THEN 0 ELSE 1)
    BY <2>3, <2>5, <2>6, <2>7
  <2>9. Cardinality(Fours(s, k)) = Cardinality(F) + (IF s[k] = 4 THEN 1 ELSE 0)
    BY <2>4, <2>5, <2>6, <2>7
  <2> QED
    BY <2>1, <2>5, <2>6, <2>8, <2>9 DEF Units, UnitsOf
<1>5. \A k \in 0..Len(s) : Units(s, k) \in Nat
  BY <1>3 DEF Units
<1> QED
  BY <1>2, <1>4, <1>5

(* A string that is no UTF-8 at some place stays so.                       *)
LEMMA StaysInvalid ==
  ASSUME NEW s \in Seq(Texts!Classes), NEW v, Counts(v, s), v[Len(s)].c = 0, NEW k \in 0..Len(s)
  PROVE  v[k].c >= 0
<1>1. PICK n \in Nat : n = Len(s)
  OBVIOUS
<1>2. PICK S : S = {j \in Nat : k + j <= n => v[k + j].c < 0}
  OBVIOUS
<1>3. SUFFICES ASSUME v[k].c < 0 PROVE FALSE
  <2>1. v[k] \in Counters
    BY DEF Counts
  <2> QED
    BY <1>3, <2>1 DEF Counters
<1>4. 0 \in S
  BY <1>1, <1>2, <1>3
<1>5. ASSUME NEW j \in Nat, j \in S PROVE j + 1 \in S
  <2> SUFFICES ASSUME k + (j + 1) <= n PROVE v[k + (j + 1)].c < 0
    BY <1>2
  <2>1. PICK i \in 1..n : i = k + (j + 1) /\ i - 1 = k + j
    BY <1>1
  <2>2. v[i - 1] \in Counters /\ v[i - 1].c < 0
    BY <1>1, <1>2, <1>5, <2>1 DEF Counts
  <2>3. v[i] = Texts!utf16Step(v[i - 1], s[i])
    BY <1>1, <2>1 DEF Counts
  <2>4. v[i].c = -1
    BY <2>2, <2>3 DEF Counters, Texts!utf16Step
  <2> QED
    BY <2>1, <2>4
<1>6. Nat \subseteq S
  BY <1>4, <1>5, Induction
<1>7. PICK j \in Nat : k + j = n
  <2>1. n - k \in Nat /\ k + (n - k) = n
    BY <1>1
  <2> QED
    BY <2>1
<1>8. v[n].c < 0
  BY <1>2, <1>6, <1>7
<1> QED
  BY <1>1, <1>8

(* How the counters go on from p to q over a, in a string that is UTF-8 to *)
(* the end.                                                                *)
GoesOn(p, q, a) ==
  /\ p \in Counters /\ q \in Counters
  /\ p.c = 0 => a \in 1..4 /\ q.c = a - 1 /\ q.n = p.n - (IF a = 4 THEN 2 ELSE a - 1)
  /\ p.c > 0 => a = 0 /\ q.c = p.c - 1 /\ q.n = p.n

(* One character more.                                                     *)
LEMMA CountsOn ==
  ASSUME NEW s \in Seq(Texts!Classes), NEW v, Counts(v, s), v[Len(s)].c = 0, NEW k \in 1..Len(s)
  PROVE  GoesOn(v[k - 1], v[k], s[k])
<1>1. k - 1 \in 0..Len(s) /\ k \in 0..Len(s)
  OBVIOUS
<1>2. v[k - 1] \in Counters /\ v[k] \in Counters /\ v[k] = Texts!utf16Step(v[k - 1], s[k])
  BY <1>1 DEF Counts
<1>3. v[k].c >= 0
  BY <1>1, StaysInvalid
<1>4. PICK p, q, a : p = v[k - 1] /\ q = v[k] /\ a = s[k]
  OBVIOUS
<1>5. a \in 0..5
  BY <1>4 DEF Texts!Classes
<1>6. p \in Counters /\ q = Texts!utf16Step(p, a) /\ q.c >= 0
  BY <1>2, <1>3, <1>4
<1>7. p.c = 0 => a \in 1..4 /\ q.c = a - 1 /\ q.n = p.n - (IF a = 4 THEN 2 ELSE a - 1)
  BY <1>5, <1>6 DEF Counters, Texts!utf16Step
<1>8. p.c > 0 => a = 0 /\ q.c = p.c - 1 /\ q.n = p.n
  BY <1>5, <1>6 DEF Counters, Texts!utf16Step
<1> QED
  BY <1>2, <1>4, <1>7, <1>8 DEF GoesOn

(* The count, in closed form: each byte so far that does not start a       *)
(* character was taken off, and each that the current character lacks.     *)
LEMMA CountsUnits ==
  ASSUME NEW s \in Seq(Texts!Classes), NEW v, Counts(v, s), v[Len(s)].c = 0
  PROVE  \A k \in 0..Len(s) : v[k].n = Len(s) - k + Units(s, k) - v[k].c
<1>1. PICK n \in Nat : n = Len(s)
  OBVIOUS
<1>2. PICK S : S = {k \in Nat : k <= n => v[k].n = n - k + Units(s, k) - v[k].c}
  OBVIOUS
<1>3. 0 \in S
  <2>1. v[0].n = n /\ v[0].c = 0
    BY <1>1 DEF Counts
  <2> QED
    BY <1>2, <2>1, UnitsAdd
<1>4. ASSUME NEW j \in Nat, j \in S PROVE j + 1 \in S
  <2> SUFFICES ASSUME j + 1 <= n PROVE v[j + 1].n = n - (j + 1) + Units(s, j + 1) - v[j + 1].c
    BY <1>2
  <2>1. PICK k \in 1..n : k = j + 1 /\ k - 1 = j /\ j \in 0..n
    OBVIOUS
  <2>2. v[j].n = n - j + Units(s, j) - v[j].c
    BY <1>2, <1>4, <2>1
  <2>3. Units(s, j) \in Nat /\ Units(s, k) = Units(s, j) + UnitsOf(s[k])
    BY <1>1, <2>1, UnitsAdd
  <2>4. PICK p, q, a : p = v[j] /\ q = v[k] /\ a = s[k]
    OBVIOUS
  <2>5. GoesOn(p, q, a)
    BY <1>1, <2>1, <2>4, CountsOn
  <2>6. p.c >= 0
    BY <1>1, <2>1, <2>4, StaysInvalid
  <2>7. PICK x, y, w \in Int : x = p.c /\ y = p.n /\ w = Units(s, j)
    BY <2>3, <2>5 DEF GoesOn, Counters
  <2>8. y = n - j + w - x
    BY <2>2, <2>4, <2>7
  <2>9. q.n = n - k + Units(s, k) - q.c
    <3>1. CASE x = 0
      <4>1. a \in 1..4 /\ q.c = a - 1 /\ q.n = y - (IF a = 4 THEN 2 ELSE a - 1)
        BY <2>5, <2>7, <3>1 DEF GoesOn
      <4>2. Units(s, k) = w + (IF a = 4 THEN 2 ELSE 1)
        BY <2>3, <2>4, <2>7, <4>1 DEF UnitsOf
      <4> QED
        BY <2>1, <2>8, <3>1, <4>1, <4>2
    <3>2. CASE x > 0
      <4>1. a = 0 /\ q.c = x - 1 /\ q.n = y
        BY <2>5, <2>7, <3>2 DEF GoesOn
      <4>2. Units(s, k) = w
        BY <2>3, <2>4, <2>7, <4>1 DEF UnitsOf
      <4> QED
        BY <2>1, <2>8, <4>1, <4>2
    <3> QED
      BY <2>6, <2>7, <3>1, <3>2
  <2> QED
    BY <2>1, <2>4, <2>9
<1>5. Nat \subseteq S
  BY <1>3, <1>4, Induction
<1> QED
  BY <1>1, <1>2, <1>5

(* What a character lacks comes before the end of the string, and no       *)
(* character starts in it.                                                 *)
LEMMA CharacterEnds ==
  ASSUME NEW s \in Seq(Texts!Classes), NEW v, Counts(v, s), v[Len(s)].c = 0
  PROVE  \A c \in 0..3 : \A k \in 0..Len(s) :
           v[k].c = c => k + c <= Len(s) /\ v[k + c].c = 0 /\ Units(s, k + c) = Units(s, k)
<1>1. PICK n \in Nat : n = Len(s)
  OBVIOUS
<1>2. PICK S : S = {c \in Nat : \A k \in 0..n :
           v[k].c = c => k + c <= n /\ v[k + c].c = 0 /\ Units(s, k + c) = Units(s, k)}
  OBVIOUS
<1>3. 0 \in S
  BY <1>2
<1>4. ASSUME NEW c \in Nat, c \in S PROVE c + 1 \in S
  <2> SUFFICES ASSUME NEW k \in 0..n, v[k].c = c + 1
               PROVE  k + (c + 1) <= n /\ v[k + (c + 1)].c = 0 /\ Units(s, k + (c + 1)) = Units(s, k)
    BY <1>2
  <2>1. k # n
    BY <1>1
  <2>2. PICK j \in 1..n : j = k + 1 /\ j - 1 = k
    BY <2>1
  <2>3. s[j] = 0 /\ v[j].c = (c + 1) - 1
    <3>1. v[j - 1].c > 0
      BY <2>2
    <3>2. GoesOn(v[j - 1], v[j], s[j])
      BY <1>1, CountsOn
    <3> QED
      BY <2>2, <3>1, <3>2 DEF GoesOn
  <2>4. v[j].c = c /\ j \in 0..n
    BY <2>3
  <2>5. j + c <= n /\ v[j + c].c = 0 /\ Units(s, j + c) = Units(s, j)
    BY <1>2, <1>4, <2>4
  <2>6. Units(s, j) = Units(s, k)
    <3>1. Units(s, k) \in Nat /\ Units(s, j) = Units(s, j - 1) + UnitsOf(s[j])
      BY <1>1, <2>2, UnitsAdd
    <3> QED
      BY <2>2, <2>3, <3>1 DEF UnitsOf
  <2>7. j + c = k + (c + 1)
    BY <2>2
  <2> QED
    BY <2>5, <2>6, <2>7
<1>5. Nat \subseteq S
  BY <1>3, <1>4, Induction
<1> QED
  BY <1>1, <1>2, <1>5

(* Units never become fewer.                                               *)
LEMMA UnitsGrow ==
  ASSUME NEW s \in Seq(Texts!Classes)
  PROVE  \A j, k \in 0..Len(s) : j <= k => Units(s, j) <= Units(s, k)
<1>1. PICK n \in Nat : n = Len(s)
  OBVIOUS
<1>2. SUFFICES ASSUME NEW j \in 0..n PROVE \A k \in 0..n : j <= k => Units(s, j) <= Units(s, k)
  BY <1>1
<1>3. PICK S : S = {i \in Nat : j + i <= n => Units(s, j) <= Units(s, j + i)}
  OBVIOUS
<1>4. 0 \in S
  BY <1>1, <1>3, UnitsAdd
<1>5. ASSUME NEW i \in Nat, i \in S PROVE i + 1 \in S
  <2> SUFFICES ASSUME j + (i + 1) <= n PROVE Units(s, j) <= Units(s, j + (i + 1))
    BY <1>3
  <2>1. PICK k \in 1..n : k = j + (i + 1) /\ k - 1 = j + i /\ j + i \in 0..n
    OBVIOUS
  <2>2. Units(s, j) <= Units(s, k - 1)
    BY <1>3, <1>5, <2>1
  <2>3. Units(s, k) = Units(s, k - 1) + UnitsOf(s[k]) /\ Units(s, k - 1) \in Nat /\ Units(s, j) \in Nat
    BY <1>1, <2>1, UnitsAdd
  <2> QED
    BY <2>1, <2>2, <2>3 DEF UnitsOf
<1>6. Nat \subseteq S
  BY <1>4, <1>5, Induction
<1>7. ASSUME NEW k \in 0..n, j <= k PROVE Units(s, j) <= Units(s, k)
  <2>1. PICK i \in Nat : i = k - j /\ j + i = k
    BY <1>7
  <2> QED
    BY <1>3, <1>6, <2>1
<1> QED
  BY <1>7

(* fastReadStringAsBytes goes from one start of a character to the next,   *)
(* at most n times, and is at the end of the string when no units are      *)
(* left.                                                                   *)
LEMMA SkipsToEnd ==
  ASSUME NEW s \in Seq(Texts!Classes), NEW v, Counts(v, s), v[Len(s)].c = 0, NEW n \in Nat, n = Units(s, Len(s))
  PROVE  Texts!skipUnits(s, n) = Len(s)
<1>1. PICK len \in Nat : len = Len(s)
  OBVIOUS
<1>2. PICK w : Skips(w, s, n) /\ Texts!skipUnits(s, n) = w[n].off
  BY SkipIs
<1> DEFINE Good(p, k) == /\ p.off \in 0..len /\ v[p.off].c = 0
                         /\ p.n = n - Units(s, p.off) /\ p.n <= n - k
<1>3. PICK S : S = {k \in Nat : k <= n => Good(w[k], k)}
  OBVIOUS
<1>4. 0 \in S
  <2>1. w[0].off = 0 /\ w[0].n = n /\ v[0].c = 0
    BY <1>2 DEF Skips, Counts
  <2>2. Good(w[0], 0)
    BY <1>1, <2>1, UnitsAdd
  <2> QED
    BY <1>3, <2>2
<1>5. ASSUME NEW o \in 0..len, v[o].c = 0, o < len
      PROVE  \E a \in 1..4 : /\ s[o + 1] = a /\ o + a <= len /\ v[o + a].c = 0
                             /\ Units(s, o + a) = Units(s, o) + UnitsOf(a)
  <2>1. PICK j \in 1..len : j = o + 1 /\ j - 1 = o
    BY <1>5
  <2>2. GoesOn(v[j - 1], v[j], s[j])
    BY <1>1, CountsOn
  <2>3. PICK a \in 1..4 : s[j] = a /\ v[j].c = a - 1
    BY <1>5, <2>1, <2>2 DEF GoesOn
  <2>4. PICK c \in 0..3 : c = a - 1
    OBVIOUS
  <2>5. j + c <= len /\ v[j + c].c = 0 /\ Units(s, j + c) = Units(s, j)
    <3>1. j \in 0..Len(s) /\ v[j].c = c
      BY <1>1, <2>3, <2>4
    <3>2. j + c <= Len(s) /\ v[j + c].c = 0 /\ Units(s, j + c) = Units(s, j)
      BY <3>1, CharacterEnds, Zenon
    <3> QED
      BY <1>1, <3>2
  <2>6. j + c = o + a
    BY <2>1, <2>4
  <2>7. Units(s, j) = Units(s, o) + UnitsOf(a)
    BY <1>1, <2>1, <2>3, UnitsAdd
  <2> QED
    BY <2>1, <2>3, <2>5, <2>6, <2>7
<1>6. ASSUME NEW k \in Nat, k \in S PROVE k + 1 \in S
  <2> SUFFICES ASSUME k + 1 <= n PROVE Good(w[k + 1], k + 1)
    BY <1>3
  <2>1. PICK i \in 1..n : i = k + 1 /\ i - 1 = k
    OBVIOUS
  <2>2. Good(w[k], k)
    BY <1>3, <1>6
  <2>3. PICK p, q : p = w[k] /\ q = w[k + 1]
    OBVIOUS
  <2>4. q = Texts!skipStep(s, p)
    BY <1>2, <2>1, <2>3 DEF Skips
  <2>5. p \in Skippers
    BY <1>2, <2>1, <2>3 DEF Skips
  <2>6. PICK o \in 0..len : o = p.off /\ v[o].c = 0
    BY <2>2, <2>3
  <2>7. p.n \in Int /\ p.n = n - Units(s, o) /\ p.n <= n - k
    BY <2>2, <2>3, <2>5, <2>6 DEF Skippers
  <2>8. CASE p.n <= 0
    <3>1. q = p
      BY <2>4, <2>8 DEF Texts!skipStep
    <3> QED
      BY <2>3, <2>6, <2>7, <2>8, <3>1
  <2>9. CASE p.n > 0
    <3>1. o < len
      BY <1>1, <2>6, <2>7, <2>9
    <3>2. PICK a \in 1..4 : /\ s[o + 1] = a /\ o + a <= len /\ v[o + a].c = 0
                            /\ Units(s, o + a) = Units(s, o) + UnitsOf(a)
      BY <1>5, <2>6, <3>1
    <3>3. q = [off |-> o + a, n |-> p.n - (IF a = 4 THEN 2 ELSE 1)]
      <4>1. ~(p.n <= 0 \/ p.off < 0)
        BY <2>6, <2>7, <2>9
      <4>2. ~(p.off >= Len(s) \/ s[p.off + 1] \notin 1..4)
        BY <1>1, <2>6, <3>1, <3>2
      <4> QED
        BY <2>4, <2>6, <3>2, <4>1, <4>2 DEF Texts!skipStep
    <3>4. q.off = o + a /\ q.n = p.n - UnitsOf(a) /\ UnitsOf(a) \in 1..2
      BY <3>3 DEF UnitsOf
    <3>5. q.off \in 0..len /\ v[q.off].c = 0
      BY <3>2, <3>4
    <3>6. PICK u, d \in Int : u = Units(s, o) /\ d = UnitsOf(a)
      BY <1>1, <3>4, UnitsAdd
    <3>7. q.n = n - Units(s, q.off)
      BY <2>7, <3>2, <3>4, <3>6
    <3>8. q.n <= n - (k + 1)
      <4>1. PICK m \in Int : m = p.n
        BY <2>7
      <4>2. m <= n - k
        BY <2>7, <4>1
      <4>3. q.n = m - d /\ d >= 1
        BY <3>4, <3>6, <4>1
      <4> QED
        BY <4>2, <4>3
    <3> QED
      BY <2>3, <3>5, <3>7, <3>8
  <2> QED
    BY <2>7, <2>8, <2>9
<1>7. Nat \subseteq S
  <2> HIDE DEF Good
  <2> QED
    BY <1>4, <1>6, Induction
<1>8. Good(w[n], n)
  BY <1>3, <1>7
<1>9. PICK o \in 0..len : o = w[n].off /\ v[o].c = 0 /\ n - Units(s, o) <= 0
  BY <1>8
<1>10. o = len
  <2> SUFFICES ASSUME o < len PROVE FALSE
    OBVIOUS
  <2>1. PICK a \in 1..4 : o + a <= len /\ Units(s, o + a) = Units(s, o) + UnitsOf(a)
    BY <1>5, <1>9
  <2>2. Units(s, o + a) <= n /\ Units(s, o) \in Nat
    <3>1. o + a \in 0..len
      BY <2>1
    <3> QED
      BY <1>1, <3>1, UnitsAdd, UnitsGrow
  <2>3. UnitsOf(a) >= 1
    BY DEF UnitsOf
  <2>4. UnitsOf(a) \in Int
    BY DEF UnitsOf
  <2> QED
    BY <1>9, <2>1, <2>2, <2>3, <2>4
<1> QED
  BY <1>1, <1>2, <1>9, <1>10

(* A string that utf16Length accepts is UTF-8 to the reader, who finds its *)
(* end after as many units.                                                *)
LEMMA StringMeasured ==
  ASSUME NEW s \in Seq(Texts!Classes), Texts!utf16Length(s) >= 0
  PROVE  /\ Texts!utf16Length(s) = Cardinality({i \in DOMAIN s : s[i] /= 0}) + Cardinality({i \in DOMAIN s : s[i] = 4})
         /\ Texts!skipUnits(s, Texts!utf16Length(s)) = Len(s)
<1>1. PICK v : Counts(v, s) /\ Texts!utf16Count(s) = v[Len(s)]
  BY CountIs
<1>2. PICK n : n = Texts!utf16Length(s)
  OBVIOUS
<1>3. v[Len(s)].c = 0 /\ n = v[Len(s)].n
  BY <1>1, <1>2 DEF Texts!utf16Length
<1>4. Len(s) \in 0..Len(s) /\ Units(s, Len(s)) \in Nat
  BY UnitsAdd
<1>5. v[Len(s)].n = Len(s) - Len(s) + Units(s, Len(s)) - v[Len(s)].c
  BY <1>1, <1>3, <1>4, CountsUnits
<1>6. n = Units(s, Len(s))
  BY <1>3, <1>4, <1>5
<1>7. Texts!skipUnits(s, n) = Len(s)
  BY <1>1, <1>3, <1>4, <1>6, SkipsToEnd
<1>8. DOMAIN s = 1..Len(s)
  OBVIOUS
<1>9. Units(s, Len(s)) = Cardinality({i \in DOMAIN s : s[i] /= 0}) + Cardinality({i \in DOMAIN s : s[i] = 4})
  BY <1>8 DEF Units, Heads, Fours
<1> QED
  BY <1>2, <1>6, <1>7, <1>9

-----------------------------------------------------------------------------
(* The states of TextForms: something of the given kind, and its text if   *)
(* it was written.                                                         *)
TextInv ==
  /\ \/ kind = "int64" /\ what \in Texts!MinInt..MaxInt
     \/ kind = "uint64" /\ what \in 0..(Texts!Modulus - 1)
     \/ kind = "string" /\ what \in Seq(Texts!Classes)
  /\ text /= <<>> =>
       /\ kind = "int64" => text = Texts!AppendInt64(what)
       /\ kind = "uint64" => text = Texts!AppendUint64(what)
       /\ kind = "string" => text = <<Texts!utf16Length(what)>>

(* At first (Init).                                                        *)
LEMMA TextInit == Texts!Init => TextInv
<1> SUFFICES ASSUME Texts!Init PROVE TextInv
  OBVIOUS
<1>1. kind = "string" /\ what \in UNION {[1..n -> Texts!Classes] : n \in 0..MaxLength} => what \in Seq(Texts!Classes)
  <2> SUFFICES ASSUME NEW n \in 0..MaxLength, what \in [1..n -> Texts!Classes] PROVE what \in Seq(Texts!Classes)
    OBVIOUS
  <2>1. n \in Nat
    BY TextAssumption
  <2> QED
    BY <2>1
<1> QED
  BY <1>1 DEF TextInv, Texts!Init

(* The cases do not change.                                                *)
LEMMA TextNext == TextInv /\ [Texts!Next]_textVars => TextInv'
<1> SUFFICES ASSUME TextInv, [Texts!Next]_textVars PROVE TextInv'
  OBVIOUS
<1>1. CASE Texts!Next
  BY <1>1 DEF TextInv, Texts!Next, Texts!Write
<1>2. CASE UNCHANGED textVars
  BY <1>2 DEF TextInv, textVars
<1> QED
  BY <1>1, <1>2

(* In each of them the two sides agree.                                    *)
LEMMA TextInvImplies == TextInv => TextsAgree
<1> SUFFICES ASSUME TextInv, text /= <<>> PROVE TextsAgree
  BY DEF TextsAgree, Texts!IntegersRoundTrip, Texts!UnitsAgree
<1>1. CASE kind = "int64"
  <2>1. what \in Texts!MinInt..MaxInt /\ text = Texts!AppendInt64(what)
    BY <1>1 DEF TextInv
  <2>2. /\ Texts!ReadInt64(text) = what
        /\ text[1] = -1 => Tail(text)[1] # 0
        /\ text[1] # -1 => (text[1] = 0 => text = <<0>> /\ what = 0)
    BY <2>1, Int64RoundTrips
  <2> QED
    BY <1>1, <2>2 DEF TextsAgree, Texts!IntegersRoundTrip, Texts!UnitsAgree, Texts!Minus
<1>2. CASE kind = "uint64"
  <2>1. what \in 0..(Texts!Modulus - 1) /\ text = Texts!AppendUint64(what)
    BY <1>2 DEF TextInv
  <2>2. text[1] # -1 /\ Texts!ReadUint64(text) = what /\ (text[1] = 0 => text = <<0>> /\ what = 0)
    BY <2>1, Uint64RoundTrips
  <2> QED
    BY <1>2, <2>2 DEF TextsAgree, Texts!IntegersRoundTrip, Texts!UnitsAgree, Texts!Minus
<1>3. CASE kind = "string"
  <2>1. what \in Seq(Texts!Classes) /\ text = <<Texts!utf16Length(what)>>
    BY <1>3 DEF TextInv
  <2>2. text[1] = Texts!utf16Length(what)
    BY <2>1
  <2>3. text[1] >= 0 =>
          /\ text[1] = Cardinality({i \in DOMAIN what : what[i] /= 0}) + Cardinality({i \in DOMAIN what : what[i] = 4})
          /\ Texts!skipUnits(what, text[1]) = Len(what)
    BY <2>1, <2>2, StringMeasured
  <2>4. \A S : Texts!Cardinality(S) = Cardinality(S)
    BY Zenon DEF Texts!Cardinality, Cardinality
  <2>5. Texts!UnitsAgree
    BY <2>3, <2>4 DEF Texts!UnitsAgree
  <2> QED
    BY <1>3, <2>5 DEF TextsAgree, Texts!IntegersRoundTrip
<1> QED
  BY <1>1, <1>2, <1>3 DEF TextInv

(* Whatever the width of integers and the length of strings: every integer *)
(* that AppendInt64 or AppendUint64 writes is read back by ReadInt64 or    *)
(* ReadUint64 as it was, and the length that utf16Length writes before a   *)
(* string makes the reader end exactly at the string's end.                *)
THEOREM TextsAlwaysAgree == Texts!Spec => []TextsAgree
<1>1. TextInv /\ [Texts!Next]_(Texts!fvars) => TextInv'
  BY TextNext DEF Texts!fvars, textVars
<1> QED
  BY <1>1, TextInit, TextInvImplies, PTL DEF Texts!Spec
=============================================================================

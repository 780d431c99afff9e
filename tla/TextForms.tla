------------------------------ MODULE TextForms ------------------------------
(***************************************************************************)
(* The text of integers and the length of strings: AppendInt64 and         *)
(* AppendUint64 against ReadInt64 and ReadUint64, and utf16Length against  *)
(* the reader that counts UTF-16 units.                                    *)
(***************************************************************************)
EXTENDS Integers, Sequences, FiniteSets

CONSTANTS MaxInt,     \* the greatest int64, 2^63 - 1
          MaxLength   \* of a string, in bytes

VARIABLES kind, what, text
fvars == <<kind, what, text>>

MinInt == -MaxInt - 1
Modulus == 2 * (MaxInt + 1)     \* uint64 wraps around here
Minus  == -1      \* the sign, among digits 0..9

-----------------------------------------------------------------------------
(* toBytes: three digits at a time from the right, two when fewer are left *)
(* (the tables digit3, digit2 and digits).                                 *)

(* mutant: the tens keep the hundreds.                                     *)
Digit3Unmasked(p) == <<p \div 100, p \div 10, p % 10>>

digit3(p) == <<p \div 100, (p \div 10) % 10, p % 10>>
digit2(p) == <<p \div 10, p % 10>>

toBytes[i \in Nat] ==
  IF i >= 100 THEN toBytes[i \div 1000] \o digit3(i % 1000)
  ELSE IF i >= 10 THEN digit2(i)
  ELSE IF i > 0 THEN <<i>>
  ELSE <<>>

AppendUint64(i) == IF i <= 9 THEN <<i>> ELSE toBytes[i]

(* Negating the least integer overflows: its text is a constant.           *)
minInt64Buf == <<Minus>> \o toBytes[-MinInt]
AppendInt64(i) ==
  IF i >= 0 THEN AppendUint64(i)
  ELSE IF i = MinInt THEN minInt64Buf
  ELSE <<Minus>> \o toBytes[-i]

(* readUint64: multiplication and addition wrap around.                    *)
readDigits(s) ==
  LET value[k \in 0..Len(s)] == IF k = 0 THEN 0 ELSE (value[k - 1] * 10 + s[k]) % Modulus
  IN  value[Len(s)]

Signed(n) == IF n > MaxInt THEN n - Modulus ELSE n
ReadUint64(s) == readDigits(s)
ReadInt64(s) == IF Head(s) = Minus THEN Signed((Modulus - ReadUint64(Tail(s))) % Modulus)
                ELSE Signed(ReadUint64(s))

-----------------------------------------------------------------------------
(* Bytes by their leading bits: 1..4 start a character of so many bytes, 0 *)
(* continues one, 5 (11111xxx) starts none.                                *)
Classes == 0..5

(* utf16Length: n counts down from the number of bytes, c is what the      *)
(* current character still lacks, or -1 when the string is no UTF-8.       *)
utf16Step(p, a) ==
  IF p.c = 0 /\ a \in 1..4 THEN [n |-> p.n - (IF a = 4 THEN 2 ELSE a - 1), c |-> a - 1]
  ELSE IF p.c > 0 /\ a = 0 THEN [p EXCEPT !.c = @ - 1]
  ELSE [p EXCEPT !.c = -1]

utf16Count(s) ==
  LET count[i \in 0..Len(s)] == IF i = 0 THEN [n |-> Len(s), c |-> 0] ELSE utf16Step(count[i - 1], s[i])
  IN  count[Len(s)]

(* mutant: every character counts as one unit.                             *)
CountsCharacters(s) == IF utf16Count(s).c /= 0 THEN -1 ELSE Cardinality({i \in DOMAIN s : s[i] /= 0})

utf16Length(s) == IF utf16Count(s).c /= 0 THEN -1 ELSE utf16Count(s).n

(* fastReadStringAsBytes: how many bytes n units are; -1 if invalid.  Each *)
(* round goes over a character, so n rounds are enough.                    *)
skipStep(s, p) ==
  IF p.n <= 0 \/ p.off < 0 THEN p
  ELSE IF p.off >= Len(s) \/ s[p.off + 1] \notin 1..4 THEN [p EXCEPT !.off = -1]
  ELSE [off |-> p.off + s[p.off + 1], n |-> p.n - (IF s[p.off + 1] = 4 THEN 2 ELSE 1)]

skipUnits(s, n) ==
  LET at[k \in 0..n] == IF k = 0 THEN [off |-> 0, n |-> n] ELSE skipStep(s, at[k - 1])
  IN  at[n].off

-----------------------------------------------------------------------------
Init == /\ text = <<>>
        /\ \/ kind = "int64" /\ what \in MinInt..MaxInt
           \/ kind = "uint64" /\ what \in 0..(Modulus - 1)
           \/ kind = "string" /\ what \in UNION {[1..n -> Classes] : n \in 0..MaxLength}

Write == /\ text = <<>>
         /\ \/ kind = "int64" /\ text' = AppendInt64(what)
            \/ kind = "uint64" /\ text' = AppendUint64(what)
            \/ kind = "string" /\ text' = <<utf16Length(what)>>
         /\ UNCHANGED <<kind, what>>

Next == Write
Spec == Init /\ [][Next]_fvars

-----------------------------------------------------------------------------
(* Properties *)

(* Every integer reads back, the least one too, and is written without     *)
(* leading zeros, in as many digits as it has.                             *)
IntegersRoundTrip ==
  text /= <<>> /\ kind /= "string" =>
    /\ IF kind = "int64" THEN ReadInt64(text) = what ELSE ReadUint64(text) = what
    /\ LET ds == IF text[1] = Minus THEN Tail(text) ELSE text
       IN  ds[1] = 0 => ds = <<0>> /\ what = 0

(* A string that is counted is UTF-8 to the reader, who finds its end      *)
(* exactly after so many units; characters of four bytes are two units.    *)
UnitsAgree ==
  text /= <<>> /\ kind = "string" /\ text[1] >= 0 =>
    /\ skipUnits(what, text[1]) = Len(what)
    /\ text[1] = Cardinality({i \in DOMAIN what : what[i] /= 0}) + Cardinality({i \in DOMAIN what : what[i] = 4})
=============================================================================

------------------------------- MODULE Decoder -------------------------------
(***************************************************************************)
(* How a Decoder of the io package reads the tokens of module Encoder, as  *)
(* an interface{} and as a value of a given Go type.  A decoder is a       *)
(* record                                                                  *)
(*   in      the tokens not read yet                                       *)
(*   simple  no references are kept                                        *)
(*   refs    what reference i (counted from 0) stands for: its Go type ty  *)
(*           and its value v                                               *)
(*   cls     the classes read: name, names of the fields, the local type   *)
(*           ("" when there is none)                                       *)
(*   nodes   the memory allocated: <<"list", s>>, an array or what a slice *)
(*           lies in, <<"map", entries>>, <<"obj", fields, struct>> and    *)
(*           <<"cell", v>>, a place for one slice, map, time or uuid v     *)
(*   err     "" until the first error; nothing is read after an error      *)
(*           ("panic" where the code panics)                               *)
(* A value read is a tuple <<"num", n>>, <<"str", s>>, ...; <<"slice", i,  *)
(* n>>, the first n elements of list i; or <<"at", i>>, the node i: what a *)
(* pointer points to, or what a struct, an array or a cell is.             *)
(*                                                                         *)
(* A decoder writes into memory m of its type: new memory for a value of   *)
(* its own, but the slots of a map take every entry in turn, so that a     *)
(* pointer or a slice is read over the one that was read before.           *)
(***************************************************************************)
EXTENDS Encoder

CONSTANTS FieldType,    \* struct type |-> its fields' Go types, in order
          Registered,   \* the struct types registered at the reading side
          Bits,         \* integer kind |-> its width
          Numeral,      \* string that is a number |-> that number
          ArrayLength   \* N of every [N]T

ASSUME DecoderAssumption ==
  /\ \A s \in DOMAIN StructOf : Len(FieldType[s]) = Len(StructOf[s].names)
  /\ \A k \in DOMAIN Bits : Bits[k] \in Nat \ {0}

R(d, v) == [d |-> d, v |-> v]

NewDecoder(simple, in) ==
  [in |-> in, simple |-> simple, refs |-> <<>>, cls |-> <<>>, nodes |-> <<>>, err |-> ""]

(* Decoder.Reset *)
ResetDecoder(d) == [d EXCEPT !.refs = IF d.simple THEN @ ELSE <<>>, !.cls = <<>>]

Rest(d) == IF d.err = "" THEN [d EXCEPT !.in = Tail(@)] ELSE d
WithError(d, why) == IF d.err = "" THEN [d EXCEPT !.err = why] ELSE d

AddReference(d, ty, v) ==
  IF d.simple THEN d ELSE [d EXCEPT !.refs = Append(@, [ty |-> ty, v |-> v])]

(* n values read one after another.                                        *)
Joined(vs, r) == R(r.d, Append(vs, r.v))
ReadN(d, n, Read(_, _)) ==
  FoldLeft(LAMBDA a, i : Joined(a.v, Read(a.d, i)), R(d, <<>>), [i \in 1..n |-> i])

-----------------------------------------------------------------------------
(* Memory *)
(* A slice, a map, a time or a uuid lies in a cell; these, structs and     *)
(* arrays are memory to point to.  Other values are what they are: their   *)
(* pointers are allocated anew each time, as the decoders of *int, *string *)
(* and the like do; that the one of *[]byte does not is left out.          *)
Boxed(t) ==
  \/ Kind(t) \in {"slice", "map"} /\ t /= <<"slice", "uint8">>
  \/ t \in {<<"uuid">>, <<"struct", "time.Time">>, <<"array", "uint8">>}
InParts(t) ==
  \/ Kind(t) = "array" /\ t /= <<"array", "uint8">>
  \/ Kind(t) = "struct" /\ t[2] \in DOMAIN StructOf
Placed(t)  == Boxed(t) \/ InParts(t)

PartTypes(t) == IF Kind(t) = "array" THEN [i \in 1..ArrayLength |-> Elem(t)] ELSE FieldType[t[2]]
PartsNode(t, s) == IF Kind(t) = "array" THEN <<"list", s>> ELSE <<"obj", s, t[2]>>

NextNode(d)     == <<"at", Len(d.nodes) + 1>>
Allocate(d, x)  == R([d EXCEPT !.nodes = Append(@, x)], NextNode(d))
Store(d, m, v)  == [d EXCEPT !.nodes[m[2]] = <<"cell", v>>]

(* What a cell holds.                                                      *)
Held(d, v) == IF v[1] = "at" /\ d.nodes[v[2]][1] = "cell" THEN d.nodes[v[2]][2] ELSE v

(* The elements of a slice or an array.                                    *)
Elements(d, v) ==
  LET h == Held(d, v) IN
  CASE h[1] = "slice" /\ h[3] > 0 -> SubSeq(d.nodes[h[2]][2], 1, h[3])
    [] h[1] = "at"                 -> d.nodes[h[2]][2]
    [] OTHER                       -> <<>>

(* New memory of type t, and a copy of the memory at v.                    *)
RECURSIVE New(_, _), Copied(_, _, _)

Whole(t, r, m) == R([r.d EXCEPT !.nodes[m[2]] = PartsNode(t, r.v)], m)

New(d, t) ==
  IF ~Placed(t) THEN R(d, <<"zero">>)
  ELSE IF Boxed(t) THEN Allocate(d, <<"cell", <<"zero">>>>)
  ELSE Whole(t, ReadN(Allocate(d, <<>>).d, Len(PartTypes(t)), LAMBDA x, i : New(x, PartTypes(t)[i])), NextNode(d))

Copied(d, t, v) ==
  IF ~Placed(t) \/ v[1] /= "at" THEN R(d, v)
  ELSE IF Boxed(t) THEN Allocate(d, d.nodes[v[2]])
  ELSE Whole(t, ReadN(Allocate(d, <<>>).d, Len(PartTypes(t)),
                      LAMBDA x, i : Copied(x, PartTypes(t)[i], d.nodes[v[2]][2][i])), NextNode(d))

(* The memory m becomes a copy of v, or zero.                              *)
Moved(r, m)         == R([r.d EXCEPT !.nodes[m[2]] = r.d.nodes[r.v[2]]], m)
CopyInto(d, t, v, m) ==
  CASE Boxed(t)   -> R(Store(d, m, Held(d, v)), m)
    [] InParts(t) -> Moved(Copied(d, t, v), m)
    [] OTHER      -> R(d, v)
Cleared(d, t, m) == Moved(New(d, t), m)

(* A container whose node is Node of the n values it holds; it is numbered *)
(* before they are read, as ref of the Go type ty.                         *)
Closed(r, at, Node(_)) == R(Rest([r.d EXCEPT !.nodes[at[2]] = Node(r.v)]), at)
Container(d, ty, ref, n, Read(_, _), Node(_)) ==
  Closed(ReadN(AddReference(Allocate(d, <<>>).d, ty, ref), n, Read), NextNode(d), Node)

ListNode(s) == <<"list", s>>
MapNode(s)  == <<"map", ToSet(s)>>

-----------------------------------------------------------------------------
(* Numbers *)
(* A Go conversion to an integer of kind k keeps the low bits.             *)
WrapSigned(k, n)   == LET m == 2 ^ Bits[k] IN ((n + m \div 2) % m) - m \div 2
WrapUnsigned(k, n) == n % (2 ^ Bits[k])
Wrap(k, n) == IF k \in SignedKinds THEN WrapSigned(k, n) ELSE WrapUnsigned(k, n)

InRange(k, n) == Wrap(k, n) = n

(* strconv.Parse...: an error leaves zero (or the nearest number).         *)
parse(d, s, k) ==
  IF s \notin DOMAIN Numeral THEN R(WithError(d, "parse"), <<"num", 0>>)
  ELSE IF k \in DOMAIN Bits /\ ~InRange(k, Numeral[s]) THEN R(WithError(d, "range"), <<"num", 0>>)
  ELSE R(d, <<"num", Numeral[s]>>)

(* A string takes a reference even where its text is parsed as a number.   *)
readString(d, s) == AddReference(d, <<"string">>, <<"str", s>>)

(* mutant: a string read as a number takes no reference.                   *)
ParsesOnly(d, tok, k) == parse(d, tok[2], k)

parseToken(d, tok, k) ==
  parse(IF tok[1] = "s" THEN readString(d, tok[2]) ELSE d, tok[2], k)

(* A text read as a bool.                                                  *)
BoolOf(r) ==
  IF r.d.err = "" /\ r.v[2] \notin {0, 1} THEN R(WithError(r.d, "parse"), <<"bool", FALSE>>)
  ELSE R(r.d, <<"bool", r.v[2] = 1>>)

parseBool(d, tok) == BoolOf(parseToken(d, tok, "bool"))

-----------------------------------------------------------------------------
(* References *)
(* The registered converters of a string, and those of its kind.           *)
ConvertString(d, s, t) ==
  CASE Kind(t) = "bool"                                 -> parseBool(d, <<"u", s>>)
    [] Kind(t) \in NumberKinds                          -> parse(d, s, Kind(t))
    [] t = <<"slice", "uint8">>                         -> R(d, <<"bytes", s>>)
    [] t \in {<<"uuid">>, <<"struct", "time.Time">>}    -> R(WithError(d, "parse"), <<"nil">>)
    [] t \in BigTypes \union {<<"ptr">> \o u : u \in BigTypes} -> parse(d, s, "big")

StringConverts(t) ==
  \/ Kind(t) \in ScalarKinds
  \/ t \in {<<"slice", "uint8">>, <<"uuid">>, <<"struct", "time.Time">>}
           \union BigTypes \union {<<"ptr">> \o u : u \in BigTypes}

(* The converter for a value of type src read as dest into m: GetConverter.*)
(* A struct is copied as it is at that moment, with the fields read so     *)
(* far.  A map held by value is an address already: mapCopy and ptrCopy    *)
(* take the first word behind it for the map.                              *)
RECURSIVE Convert(_, _, _, _)

Converted(p, r)       == IF p.d.err = "" /\ r.d.err = "cast" THEN p ELSE r
ptrConverter(p, o, t) == Converted(p, Convert(p.d, o, Elem(t), p.v))

Convert(d, o, t, m) ==
  CASE o.ty = <<"string">> /\ StringConverts(t) -> ConvertString(d, o.v[2], t)
    [] t = <<"interface">>                      -> R(d, o.v)
    [] Kind(t) = "string" -> R(d, CASE o.ty = <<"string">>         -> o.v
                                    [] o.ty = <<"slice", "uint8">> -> <<"str", o.v[2]>>
                                    [] OTHER                       -> <<"text", <<"formatted">>>>)
    [] Kind(t) = "ptr" ->
         IF (o.ty = t /\ Elem(t)[1] = "struct") \/ (o.ty = Elem(t) /\ Kind(o.ty) /= "ptr")
           THEN R(d, IF Kind(o.ty) = "map" THEN <<"wild map">> ELSE o.v)
           ELSE ptrConverter(IF m[1] = "at" THEN R(d, m) ELSE New(d, Elem(t)), o, t)
    [] Kind(t) = "map" /\ o.ty = t              -> R(Store(d, m, <<"wild map">>), m)
    [] o.ty \in {t, <<"ptr">> \o t}             -> CopyInto(d, t, o.v, m)
    [] OTHER -> R(WithError(d, "cast"), <<"nil">>)

ReadReference(d, i, t, m) ==
  IF i >= Len(d.refs) THEN R(WithError(d, "panic"), <<"nil">>) ELSE Convert(d, d.refs[i + 1], t, m)

-----------------------------------------------------------------------------
(* DecodeInto reads the next value into the memory m of type t, Decode     *)
(* into new memory.                                                        *)
RECURSIVE DecodeInto(_, _, _)

DecodeAt(m, t) == DecodeInto(m.d, t, m.v)
Decode(d, t)   == DecodeAt(New(d, t), t)

decodeAny(d) == DecodeInto(d, <<"interface">>, <<"zero">>)

(* ReadStruct: the names of the fields are strings that take references.   *)
(* A class that is not registered is read as the type asked for, when that *)
(* is a struct.                                                            *)
ReadStruct(d, tok, t) ==
  LET named == FoldLeft(LAMBDA a, s : readString(a, s), d, tok[3])
      asked == IF Kind(t) = "ptr" THEN Elem(t) ELSE t
      local == IF tok[2] \in Registered THEN tok[2]
               ELSE IF asked[1] = "struct" /\ asked[2] \in DOMAIN StructOf THEN asked[2] ELSE ""
  IN  [named EXCEPT !.cls = Append(@, [name |-> tok[2], names |-> tok[3], local |-> local])]

(* defaultDecode: what a decoder does with a tag it has no case for.  None *)
(* has one for a reference, a class or an error (DecodeValue); the tags    *)
(* left over are errors, and decodeError reads the value.                  *)
Failed(r, why)    == R(WithError(r.d, why), <<"nil">>)
decodeError(d, tok) == Failed(decodeAny([d EXCEPT !.in = <<tok>> \o @]), "cast")

defaultDecode(d, tok, t, m) ==
  CASE tok[1] = "r" -> ReadReference(d, tok[2], t, m)
    [] tok[1] = "c" -> DecodeInto(ReadStruct(d, tok, t), t, m)
    [] tok[1] = "E" -> Failed(Decode(d, <<"string">>), "server")
    [] OTHER        -> decodeError(d, tok)

(* The signed and the unsigned integer types differ in the wrap only.      *)
decodeNumber(d, tok, k, Of(_)) ==
  CASE tok[1] \in {"digit", "i", "l", "d"} -> R(d, <<"num", Of(tok[2])>>)
    [] tok[1] \in {"n", "e", "f"}          -> R(d, <<"num", 0>>)
    [] tok[1] = "t"                        -> R(d, <<"num", 1>>)
    [] tok[1] \in {"u", "s"}               -> parseToken(d, tok, k)
    [] OTHER                               -> decodeError(d, tok)

decodeSigned(d, tok, k)   == decodeNumber(d, tok, k, LAMBDA n : WrapSigned(k, n))
decodeUnsigned(d, tok, k) == decodeNumber(d, tok, k, LAMBDA n : WrapUnsigned(k, n))

decodeFloat(d, tok, k) ==
  CASE tok[1] = "N"  -> R(d, <<"NaN">>)
    [] tok[1] = "I"  -> R(d, <<"Inf", tok[2]>>)
    [] OTHER         -> decodeNumber(d, tok, k, LAMBDA n : n)

(* Only complex64 reads a null; neither reads the list that the encoder    *)
(* writes for a number with an imaginary part.                             *)
decodeComplex(d, tok, k) ==
  IF tok[1] = "n" /\ k = "complex128" THEN decodeError(d, tok)
  ELSE decodeFloat(d, tok, k)

decodeBool(d, tok) ==
  CASE tok[1] \in {"digit", "i", "l", "d"} -> R(d, <<"bool", tok[2] /= 0>>)
    [] tok[1] \in {"n", "e", "f"}          -> R(d, <<"bool", FALSE>>)
    [] tok[1] \in {"t", "N", "I"}          -> R(d, <<"bool", TRUE>>)
    [] tok[1] \in {"u", "s"}               -> parseBool(d, tok)
    [] OTHER                               -> decodeError(d, tok)

(* *big.Int and *big.Rat; the big value types read a null as zero.         *)
decodeBig(d, tok, t) ==
  CASE tok[1] \in {"digit", "i", "l", "d"} -> R(d, <<"num", tok[2]>>)
    [] tok[1] = "n" -> R(d, IF Kind(t) = "ptr" THEN <<"nil">> ELSE <<"num", 0>>)
    [] tok[1] \in {"e", "f"}               -> R(d, <<"num", 0>>)
    [] tok[1] = "t"                        -> R(d, <<"num", 1>>)
    [] tok[1] \in {"u", "s"} ->
         IF t[Len(t)] = "big.Rat" /\ tok[2] \notin DOMAIN Numeral /\ tok[1] = "s"
           THEN R(readString(d, tok[2]), <<"str", tok[2]>>)  \* a fraction
           ELSE parseToken(d, tok, "big")
    [] OTHER                               -> decodeError(d, tok)

-----------------------------------------------------------------------------
(* Times, uuids, strings and bytes: each takes a reference under its own   *)
(* tag, whatever it is read as.                                            *)
TimeOf(tok) == IF tok[1] = "D" THEN <<"time", tok[2], tok[3], tok[4]>>
               ELSE <<"time", 0, tok[2], tok[3]>>
readTime(d, tok)  == AddReference(d, <<"struct", "time.Time">>, TimeOf(tok))
readUUID(d, tok)  == AddReference(d, <<"uuid">>, <<"uuid", tok[2]>>)
readBytes(d, tok) == AddReference(d, <<"slice", "uint8">>, <<"bytes", tok[2]>>)

decodeTime(d, tok) ==
  CASE tok[1] \in {"D", "T"}               -> R(readTime(d, tok), TimeOf(tok))
    [] tok[1] \in {"digit", "i", "l", "d"} -> R(d, <<"unix", tok[2]>>)
    [] tok[1] \in {"n", "e", "f"}          -> R(d, <<"unix", 0>>)
    [] tok[1] = "t"                        -> R(d, <<"unix", 1>>)
    [] tok[1] = "s" -> R(WithError(readString(d, tok[2]), "parse"), <<"unix", 0>>)
    [] OTHER                               -> decodeError(d, tok)

decodeUUID(d, tok) ==
  CASE tok[1] \in {"n", "e"} -> R(d, <<"uuid", "">>)
    [] tok[1] = "g"          -> R(readUUID(d, tok), <<"uuid", tok[2]>>)
    [] tok[1] = "b"          -> R(WithError(readBytes(d, tok), "parse"), <<"uuid", "">>)
    [] tok[1] = "s"          -> R(WithError(readString(d, tok[2]), "parse"), <<"uuid", "">>)
    [] OTHER                 -> decodeError(d, tok)

(* Numbers, times and uuids are formatted: <<"text", token>>.              *)
decodeString(d, tok) ==
  CASE tok[1] \in {"n", "e"} -> R(d, <<"str", "">>)
    [] tok[1] = "u"          -> R(d, <<"str", tok[2]>>)
    [] tok[1] = "s"          -> R(readString(d, tok[2]), <<"str", tok[2]>>)
    [] tok[1] = "b"          -> R(readBytes(d, tok), <<"str", tok[2]>>)
    [] tok[1] \in {"T", "D"} -> R(readTime(d, tok), <<"text", tok>>)
    [] tok[1] = "g"          -> R(readUUID(d, tok), <<"text", tok>>)
    [] tok[1] \in {"digit", "t", "f", "N", "I", "i", "l", "d"} -> R(d, <<"text", tok>>)
    [] OTHER                 -> decodeError(d, tok)

readUint8Slice(d, tok) ==
  Container(d, <<"slice", "uint8">>, NextNode(d), tok[2], LAMBDA x, i : Decode(x, <<"uint8">>), ListNode)

decodeBytes(d, tok) ==
  CASE tok[1] = "n"          -> R(d, <<"nil">>)
    [] tok[1] = "e"          -> R(d, <<"bytes", "">>)
    [] tok[1] = "b"          -> R(readBytes(d, tok), <<"bytes", tok[2]>>)
    [] tok[1] = "a"          -> readUint8Slice(d, tok)
    [] tok[1] = "u"          -> R(d, <<"bytes", tok[2]>>)
    [] tok[1] = "s"          -> R(readString(d, tok[2]), <<"bytes", tok[2]>>)
    [] tok[1] = "g"          -> R(readUUID(d, tok), <<"bytes", tok[2]>>)
    [] OTHER                 -> decodeError(d, tok)

-----------------------------------------------------------------------------
(* Lists *)
(* The handler of an element, a key, a value or a field reads what its     *)
(* type's decoder reads, except that uint32PtrDecode stores the number     *)
(* where the pointer belongs.                                              *)
DecodeHandler(d, t, m) ==
  IF t /= <<"ptr", "uint32">> THEN DecodeInto(d, t, m)
  ELSE LET r == Decode(d, <<"uint32">>)
       IN  R(r.d, IF r.v = <<"num", 0>> THEN <<"nil">> ELSE <<"wild pointer">>)

(* A pointer that is nil is set to new memory before that is read.         *)
Pointee(t) == SubSeq(t, 1 + Cardinality({i \in DOMAIN t : \A j \in 1..i : t[j] = "ptr"}), Len(t))

Pointed(d, t, m) ==
  IF d.err = "" /\ d.in /= <<>> /\ Kind(t) = "ptr" /\ m[1] /= "at" /\ Head(d.in)[1] /= "n"
    THEN New(d, Pointee(t)) ELSE R(d, m)

(* The next value is read into part i of the struct, array or list n.      *)
SetPart(r, n, i)       == [r.d EXCEPT !.nodes[n][2][i] = r.v]
PartAt(p, n, i, t)     == SetPart(DecodeHandler(SetPart(p, n, i), t, p.v), n, i)
DecodePart(d, n, i, t) == PartAt(Pointed(d, t, d.nodes[n][2][i]), n, i, t)

DecodeParts(d, n, from, to, t) ==
  FoldLeft(LAMBDA x, i : DecodePart(x, n, i, t), d, [i \in 1..(to - from + 1) |-> from + i - 1])

(* UnsafeGrow of reflect2: a slice keeps the array it lies in when that is *)
(* long enough, or else moves to one of twice the size, or more.  An empty *)
(* slice lies in array 0; a nil one that is to hold nothing stays nil,     *)
(* which has no elements either.                                           *)
GrownCap(c, n) == IF c = 0 THEN n ELSE Min({x \in {c * 2 ^ k : k \in 0..n} : x >= n})

ArrayOf(d, h)    == IF h[1] = "slice" /\ h[2] /= 0 THEN d.nodes[h[2]][2] ELSE <<>>
LengthOf(h)      == IF h[1] = "slice" THEN h[3] ELSE 0
MovedTo(a, m, n) == Store(a.d, m, <<"slice", a.v[2], n>>)
NewArray(r)      == Allocate(r.d, ListNode(r.v))

GrowFrom(d, h, array, t, m, n) ==
  IF n <= Len(array) THEN Store(d, m, <<"slice", IF array = <<>> THEN 0 ELSE h[2], n>>)
  ELSE MovedTo(NewArray(ReadN(d, GrownCap(Len(array), n),
                              LAMBDA x, i : IF i <= LengthOf(h) THEN Copied(x, Elem(t), array[i])
                                            ELSE New(x, Elem(t)))), m, n)

UnsafeGrow(d, t, m, n) == GrowFrom(d, Held(d, m), ArrayOf(d, Held(d, m)), t, m, n)

readElements(d, t, m, n) ==
  R(Rest(DecodeParts(AddReference(d, <<"ptr">> \o t, m), Held(d, m)[2], 1, n, Elem(t))), m)

decodeSlice(d, tok, t, m) ==
  CASE tok[1] = "n" -> R(Store(d, m, <<"nil">>), m)
    [] tok[1] = "e" -> R(Store(d, m, <<"slice", 0, 0>>), m)
    [] tok[1] = "a" -> readElements(UnsafeGrow(d, t, m, tok[2]), t, m, tok[2])
    [] OTHER        -> decodeError(d, tok)

(* An array keeps its length: what is missing is zero, what is too much is *)
(* read and dropped, all of it into the same memory.                       *)
ClearPart(d, n, i, t)  == SetPart(New(d, t), n, i)
ClearFrom(d, n, from, t) ==
  FoldLeft(LAMBDA x, i : ClearPart(x, n, from + i, t), d, [i \in 1..(ArrayLength - from) |-> i])
Drop(d, n, t) ==
  FoldLeft(LAMBDA x, i : DecodeHandler(x.d, t, x.v), New(d, t), [i \in 1..n |-> i]).d

readArray(d, t, m, n) ==
  IF n <= ArrayLength THEN ClearFrom(DecodeParts(d, m[2], 1, n, Elem(t)), m[2], n, Elem(t))
  ELSE Drop(DecodeParts(d, m[2], 1, ArrayLength, Elem(t)), n - ArrayLength, Elem(t))

decodeArray(d, tok, t, m) ==
  CASE tok[1] \in {"n", "e"} -> Cleared(d, t, m)
    [] tok[1] = "a" -> R(Rest(readArray(AddReference(d, <<"ptr">> \o t, m), t, m, tok[2])), m)
    [] OTHER        -> decodeError(d, tok)

(* [N]uint8 *)
decodeByteArray(d, tok, t, m) ==
  LET Kept(s) == ListNode([i \in 1..ArrayLength |-> IF i <= tok[2] THEN s[i] ELSE <<"zero">>]) IN
  CASE tok[1] \in {"n", "e"} -> R(d, <<"zero">>)
    [] tok[1] = "a" -> Container(d, <<"ptr">> \o t, m, tok[2], LAMBDA x, i : Decode(x, <<"uint8">>), Kept)
    [] tok[1] = "b" -> R(AddReference(d, <<"ptr">> \o t, m), <<"bytes", tok[2]>>)
    [] tok[1] = "s" -> R(readString(d, tok[2]), <<"bytes", tok[2]>>)
    [] tok[1] = "u" -> R(d, <<"bytes", tok[2]>>)
    [] OTHER -> decodeError(d, tok)

decodeList(d, tok) ==
  LET t == <<"ptr", "struct", "list.List">> IN
  CASE tok[1] = "n" -> R(d, <<"nil">>)
    [] tok[1] = "e" -> R(d, <<"list", <<>>>>)
    [] tok[1] = "a" -> Container(d, t, NextNode(d), tok[2], LAMBDA x, i : decodeAny(x), ListNode)
    [] OTHER -> decodeError(d, tok)

-----------------------------------------------------------------------------
(* Maps and structs *)
(* A list, a map or bytes cannot be the key of a map[interface{}]...       *)
Hashable(d, t, k) ==
  \/ KeyOf(t) /= <<"interface">>
  \/ k[1] \notin {"at", "bytes"}
  \/ k[1] = "at" /\ d.nodes[k[2]][1] \notin {"cell", "list", "map"}

(* All keys of a map are read into one slot and all its values into        *)
(* another; each time a copy of both is what the map gets.                 *)
Entered(a, key, val, k, v) ==
  [d |-> v.d, key |-> key, val |-> val,
   es |-> {e \in a.es : Held(v.d, e[1]) /= Held(v.d, key)} \union {<<k, v.v>>}]


CopyValue(a, t, key, val, k) == Entered(a, key, val, k.v, Copied(k.d, ValOf(t), val))
UnsafeSetIndex(a, d, t, key, val) == CopyValue(a, t, key, val, Copied(d, KeyOf(t), key))

SetEntry(a, t, key, v) ==
  UnsafeSetIndex(a, IF v.d.err = "" /\ ~Hashable(v.d, t, key) THEN WithError(v.d, "panic") ELSE v.d, t, key, v.v)
decodeEntry(a, t, k) == SetEntry(a, t, k.v, DecodeHandler(k.d, ValOf(t), a.val))

Slots(k, v)           == [d |-> v.d, key |-> k.v, val |-> v.v, es |-> {}]
NewSlots(k, t)        == Slots(k, New(k.d, ValOf(t)))
MapRead(r, m, node)   == R(Rest([r.d EXCEPT !.nodes[node[2]] = <<"map", r.es>>]), m)

decodeEntries(d, n, t, m, Key(_, _)) ==
  MapRead(FoldLeft(LAMBDA a, i : decodeEntry(a, t, Key(a, i)),
                   NewSlots(New(AddReference(Store(Allocate(d, MapNode(<<>>)).d, m, NextNode(d)),
                                             <<"ptr">> \o t, m), KeyOf(t)), t),
                   [i \in 1..n |-> i]), m, NextNode(d))

decodeMapBody(d, tok, t, m) ==
  decodeEntries(d, tok[2], t, m, LAMBDA a, i : DecodeHandler(a.d, KeyOf(t), a.key))

decodeListAsMap(d, tok, t, m) ==
  LET key(i) == IF KeyOf(t) = <<"string">> THEN <<"text", <<"i", i - 1>>>> ELSE <<"num", i - 1>>
  IN  decodeEntries(d, tok[2], t, m, LAMBDA a, i : R(a.d, key(i)))

(* The keys a list can have: its indexes.                                  *)
CanDecodeListAsMap(t) == KeyOf(t)[1] \in NumberKinds \union {"string", "interface"}

FieldOf(s, name) == SelectInSeq(StructOf[s].names, LAMBDA x : x = name)

(* One field of an object or a map: into the field of struct n with its    *)
(* name, or read and dropped.                                              *)
decodeField(d, n, s, name) ==
  LET i == FieldOf(s, name)
  IN  IF i = 0 THEN decodeAny(d).d ELSE DecodePart(d, n, i, FieldType[s][i])

decodeObject(d, tok, s, m) ==
  R(Rest(FoldLeft(LAMBDA x, name : decodeField(x, m[2], s, name),
                  AddReference(d, <<"ptr", "struct", s>>, m), d.cls[tok[2] + 1].names)), m)

decodeMapAsObject(d, tok, s, m) ==
  LET Field(k) == decodeField(k.d, m[2], s, IF k.v[1] = "str" THEN k.v[2] ELSE "")
  IN  R(Rest(FoldLeft(LAMBDA x, i : Field(Decode(x, <<"string">>)),
                      AddReference(d, <<"ptr", "struct", s>>, m), [i \in 1..tok[2] |-> i])), m)

decodeStruct(d, tok, t, m) ==
  CASE tok[1] = "o" -> decodeObject(d, tok, t[2], m)
    [] tok[1] = "m" -> decodeMapAsObject(d, tok, t[2], m)
    [] tok[1] = "e" -> Cleared(d, t, m)
    [] OTHER        -> decodeError(d, tok)

(* An object whose class is known here becomes that struct, another one a  *)
(* map[string]interface{}.                                                 *)
Keyed(k, r) == R(r.d, <<k, r.v>>)

readObjectAsMap(d, c) ==
  LET entry(x, i) == Keyed(<<"str", c.names[i]>>, decodeAny(x))
  IN  Container(d, <<"map", "string", "interface">>, NextNode(d), Len(c.names), entry, MapNode)

ReadObject(d) ==
  LET c == d.cls[Head(d.in)[2] + 1]
  IN  IF c.local = "" THEN readObjectAsMap(Rest(d), c) ELSE Decode(d, <<"struct", c.local>>)

(* An object read as a map: its fields as the local type declares them,    *)
(* when there is one, each into memory of its own.  The code panics when   *)
(* that type lacks a field of the class, and when the keys are interfaces, *)
(* for a string is stored where the map expects an interface.              *)
CanDecodeObjectAsMap(t) ==
  KeyOf(t) \in {<<"string">>, <<"interface">>} /\ ValOf(t) = <<"interface">>

FreshAt(p, t) == DecodeHandler(p.d, t, p.v)
Fresh(d, t)   == FreshAt(New(d, t), t)

decodeObjectAsMap(d, tok, t, m) ==
  LET c == d.cls[tok[2] + 1]
      field(x, i) ==
        Keyed(<<"str", c.names[i]>>,
              Fresh(x, IF c.local = "" THEN <<"interface">> ELSE FieldType[c.local][FieldOf(c.local, c.names[i])]))
  IN  IF \/ KeyOf(t) = <<"interface">>
         \/ c.local /= "" /\ \E i \in DOMAIN c.names : FieldOf(c.local, c.names[i]) = 0
        THEN R(WithError(d, "panic"), <<"nil">>)
        ELSE R(Container(Store(d, m, NextNode(d)), <<"ptr">> \o t, m, Len(c.names), field, MapNode).d, m)

decodeMap(d, tok, t, m) ==
  CASE tok[1] = "n" -> R(Store(d, m, <<"nil">>), m)
    [] tok[1] = "e" -> R(Store(d, m, <<"map", {}>>), m)
    [] tok[1] = "m" -> decodeMapBody(d, tok, t, m)
    [] tok[1] = "a" /\ CanDecodeListAsMap(t) -> decodeListAsMap(d, tok, t, m)
    [] tok[1] = "o" /\ CanDecodeObjectAsMap(t) -> decodeObjectAsMap(d, tok, t, m)
    [] OTHER        -> decodeError(d, tok)

-----------------------------------------------------------------------------
(* A pointer is nil or what it points to; what it points to already is     *)
(* read over.                                                              *)
decodePtr(d, tok, t, m) ==
  IF tok[1] = "n" THEN R(d, <<"nil">>)
  ELSE LET x == [d EXCEPT !.in = <<tok>> \o @]
       IN  DecodeAt(IF m[1] = "at" THEN R(x, m) ELSE New(x, Elem(t)), Elem(t))

(* A time, a uuid or a [N]uint8 as its decoder has read it, in its cell.   *)
InCell(r, m) == R(Store(r.d, m, Held(r.d, r.v)), m)

decodeInterface(d) ==
  IF d.err /= "" THEN R(d, <<"nil">>)
  ELSE IF d.in = <<>> THEN R(WithError(d, "EOF"), <<"nil">>)
  ELSE LET tok == Head(d.in)
           x   == Rest(d) IN
       CASE tok[1] \in {"digit", "i", "d"} -> R(x, <<"num", tok[2]>>)
         [] tok[1] = "l"          -> R(x, <<"num", Wrap("int", tok[2])>>)
         [] tok[1] = "n"          -> R(x, <<"nil">>)
         [] tok[1] = "e"          -> R(x, <<"str", "">>)
         [] tok[1] \in {"t", "f"} -> R(x, <<"bool", tok[1] = "t">>)
         [] tok[1] = "N"          -> R(x, <<"NaN">>)
         [] tok[1] = "I"          -> R(x, <<"Inf", tok[2]>>)
         [] tok[1] \in {"T", "D"} -> R(readTime(x, tok), TimeOf(tok))
         [] tok[1] = "g"          -> R(readUUID(x, tok), <<"uuid", tok[2]>>)
         [] tok[1] = "u"          -> R(x, <<"str", tok[2]>>)
         [] tok[1] = "s"          -> R(readString(x, tok[2]), <<"str", tok[2]>>)
         [] tok[1] = "b"          -> R(readBytes(x, tok), <<"bytes", tok[2]>>)
         [] tok[1] = "a"          -> Decode(d, <<"slice", "interface">>)
         [] tok[1] = "m"          -> Decode(d, <<"map", "interface", "interface">>)
         [] tok[1] = "o"          -> ReadObject(d)
         [] tok[1] \in {"r", "c", "E"} -> defaultDecode(x, tok, <<"interface">>, <<"zero">>)
         [] OTHER                 -> R(WithError(x, "tag"), <<"nil">>)

(* The decoder that the type t selects.                                    *)
DecodeValue(d, tok, t, m) ==
  LET k == Kind(t) IN
  CASE tok[1] \in {"r", "c", "E"}           -> defaultDecode(d, tok, t, m)
    [] k \in SignedKinds                    -> decodeSigned(d, tok, k)
    [] k \in UnsignedKinds                  -> decodeUnsigned(d, tok, k)
    [] k \in FloatKinds                     -> decodeFloat(d, tok, k)
    [] k \in ComplexKinds                   -> decodeComplex(d, tok, k)
    [] k = "bool"                           -> decodeBool(d, tok)
    [] k = "string"                         -> decodeString(d, tok)
    [] t = <<"uuid">>                       -> InCell(decodeUUID(d, tok), m)
    [] t = <<"struct", "time.Time">>        -> InCell(decodeTime(d, tok), m)
    [] t[Len(t)] \in {"big.Int", "big.Rat"} /\ Len(t) <= 3 -> decodeBig(d, tok, t)
    [] t = <<"ptr", "struct", "list.List">> -> decodeList(d, tok)
    [] t = <<"slice", "uint8">>             -> decodeBytes(d, tok)
    [] k = "slice"                          -> decodeSlice(d, tok, t, m)
    [] t = <<"array", "uint8">>             -> InCell(decodeByteArray(d, tok, t, m), m)
    [] k = "array"                          -> decodeArray(d, tok, t, m)
    [] k = "map"                            -> decodeMap(d, tok, t, m)
    [] k = "struct"                         -> decodeStruct(d, tok, t, m)
    [] k = "ptr"                            -> decodePtr(d, tok, t, m)

DecodeInto(d, t, m) ==
  IF d.err /= "" THEN R(d, <<"nil">>)
  ELSE IF d.in = <<>> THEN R(WithError(d, "EOF"), <<"nil">>)
  ELSE IF t = <<"interface">> THEN decodeInterface(d)
  ELSE DecodeValue(Rest(d), Head(d.in), t, m)
=============================================================================

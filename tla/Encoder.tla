------------------------------- MODULE Encoder -------------------------------
(***************************************************************************)
(* What an Encoder of the io package writes.  A stream is a sequence of    *)
(* tokens <<tag, payload...>>; the digits and quotes of one value are one  *)
(* token.  An encoder is a record                                          *)
(*   buf     the tokens written                                            *)
(*   simple  no references are written or counted                          *)
(*   ref     address |-> reference number, of what pointers wrote          *)
(*   sref    string |-> reference number                                   *)
(*   last    the number the next referenceable value gets                  *)
(*   cls     the struct types whose class was written, in order            *)
(* and every operation maps an encoder to the encoder after it.            *)
(*                                                                         *)
(* A Go type is written in prefix form: <<"int">>, <<"slice", "int">>,     *)
(* <<"map", "string", "interface">>, <<"ptr", "struct", "Node">>; a type   *)
(* declared with a name of its own is <<"named", "slice", "int">>.  A      *)
(* value is a record with its type in t; a pointer holds an address of     *)
(* Heap, so that values may be shared and cyclic.                          *)
(***************************************************************************)
EXTENDS Integers, Sequences, SequencesExt, TLC

CONSTANTS Heap,         \* address |-> the value stored there; 0 is nil
          StructOf,     \* struct type |-> [names: its fields' aliases, anonymous]
          Utf16Length,  \* string |-> its length in UTF-16 units, -1 if invalid
          MaxInt32      \* the largest int32: where integers become longs

ASSUME EncoderAssumption ==
  /\ 0 \notin DOMAIN Heap
  /\ MaxInt32 \in Nat /\ MaxInt32 > 9

-----------------------------------------------------------------------------
(* Types *)
Kind(t)  == IF t[1] = "named" THEN t[2] ELSE t[1]
Plain(t) == IF t[1] = "named" THEN Tail(t) ELSE t
Elem(t)  == Tail(Plain(t))                     \* of a slice, array or pointer
KeyOf(t) == <<Plain(t)[2]>>                    \* of a map
ValOf(t) == SubSeq(Plain(t), 3, Len(Plain(t)))

SignedKinds   == {"int", "int8", "int16", "int32", "int64"}
UnsignedKinds == {"uint", "uint8", "uint16", "uint32", "uint64", "uintptr"}
FloatKinds    == {"float32", "float64"}
ComplexKinds  == {"complex64", "complex128"}
NumberKinds   == SignedKinds \union UnsignedKinds \union FloatKinds \union ComplexKinds
ScalarKinds   == NumberKinds \union {"bool"}
BigTypes      == {<<"struct", "big.Int">>, <<"struct", "big.Rat">>}
Nil           == [t |-> <<"nil">>]

(* The values of a nullable kind that are nil.                             *)
isNil(v) == CASE v.t = <<"nil">>                -> TRUE
              [] Kind(v.t) = "ptr"              -> v.a = 0
              [] Kind(v.t) \in {"slice", "map"} -> v.isnil
              [] OTHER                          -> FALSE

-----------------------------------------------------------------------------
(* The reference table and the buffer *)
NewEncoder(simple) ==
  [buf |-> <<>>, simple |-> simple, ref |-> <<>>, sref |-> <<>>, last |-> 0, cls |-> <<>>]

Put(e, tok) == [e EXCEPT !.buf = Append(@, tok)]

(* mutant: counted in simple mode too.                                     *)
CountsAlways(e, n) == [e EXCEPT !.last = @ + n]

AddReferenceCount(e, n) == IF e.simple THEN e ELSE [e EXCEPT !.last = @ + n]

(* mutant: maps take a number and are not remembered.                      *)
ForgetsMaps(e, a) ==
  IF e.simple THEN e
  ELSE IF Kind(Heap[a].t) = "map" THEN [e EXCEPT !.last = @ + 1]
  ELSE [e EXCEPT !.ref = (a :> e.last) @@ @, !.last = @ + 1]

(* encoderRefer.Set: the pointer p gets the next number (again, when it is *)
(* written as a value a second time).                                      *)
setReference(e, a) ==
  IF e.simple THEN e ELSE [e EXCEPT !.ref = (a :> e.last) @@ @, !.last = @ + 1]

SetStringReference(e, s) ==
  IF e.simple THEN e ELSE [e EXCEPT !.sref = (s :> e.last) @@ @, !.last = @ + 1]

(* Encoder.SetReference: only a pointer can be referred to later; any      *)
(* other value just takes a number.                                        *)
SetReference(e, a) == IF a = 0 THEN AddReferenceCount(e, 1) ELSE setReference(e, a)

WritesReference(e, a)       == ~e.simple /\ a \in DOMAIN e.ref
WritesStringReference(e, s) == ~e.simple /\ s \in DOMAIN e.sref

(* Reset forgets the references and the struct types; in simple mode there *)
(* are no references to forget.                                            *)
Reset(e) ==
  [e EXCEPT !.ref  = IF e.simple THEN @ ELSE <<>>,
            !.sref = IF e.simple THEN @ ELSE <<>>,
            !.last = IF e.simple THEN @ ELSE 0,
            !.cls  = <<>>]

WriteNil(e)         == Put(e, <<"n">>)
WriteListHead(e, n) == Put(e, <<"a", n>>)
WriteMapHead(e, n)  == Put(e, <<"m", n>>)
WriteFoot(e)        == Put(e, <<"}">>)

-----------------------------------------------------------------------------
(* Scalars *)
WriteBool(e, b)   == Put(e, IF b THEN <<"t">> ELSE <<"f">>)
WriteInt64(e, i)  == Put(e, <<"l", i>>)
WriteInt32(e, i)  == Put(e, IF i \in 0..9 THEN <<"digit", i>> ELSE <<"i", i>>)
WriteUint16(e, i) == Put(e, IF i <= 9 THEN <<"digit", i>> ELSE <<"i", i>>)
WriteUint32(e, i) == IF i > MaxInt32 THEN WriteInt64(e, i) ELSE WriteInt32(e, i)
WriteInt(e, i)    == IF i > MaxInt32 \/ i < -MaxInt32 - 1
                       THEN WriteInt64(e, i) ELSE WriteInt32(e, i)

(* A float is a finite number n, or NaN or an infinity.                    *)
writeFloat(e, f) ==
  Put(e, CASE f.is = "NaN" -> <<"N">>
           [] f.is \in {"+", "-"} -> <<"I", f.is>>
           [] OTHER -> <<"d", f.n>>)

(* mutant: the list of a complex number takes no number.                   *)
UncountedComplex(e, c) ==
  IF c.im = 0 THEN writeFloat(e, [is |-> "finite", n |-> c.n])
  ELSE LET part(x, n) == writeFloat(x, [is |-> "finite", n |-> n])
       IN  WriteFoot(part(part(WriteListHead(e, 2), c.n), c.im))

(* A complex number with an imaginary part is a list of two floats.        *)
writeComplex(e, c) ==
  IF c.im = 0 THEN writeFloat(e, [is |-> "finite", n |-> c.n])
  ELSE LET part(x, n) == writeFloat(x, [is |-> "finite", n |-> n])
       IN  WriteFoot(part(part(WriteListHead(AddReferenceCount(e, 1), 2), c.n), c.im))

(* The writer every type switch picks for a value of a scalar kind.        *)
WriteScalar(e, k, v) ==
  CASE k = "bool"                                 -> WriteBool(e, v.b)
    [] k \in {"int", "uint"}                      -> WriteInt(e, v.n)
    [] k \in {"int8", "int16", "int32"}           -> WriteInt32(e, v.n)
    [] k \in {"int64", "uint64", "uintptr"}       -> WriteInt64(e, v.n)
    [] k \in {"uint8", "uint16"}                  -> WriteUint16(e, v.n)
    [] k = "uint32"                               -> WriteUint32(e, v.n)
    [] k \in FloatKinds                           -> writeFloat(e, v)
    [] k \in ComplexKinds                         -> writeComplex(e, v)

(* Strings: none, one or more UTF-16 units; a string that is no UTF-8 is   *)
(* written as bytes.                                                       *)
appendString(e, s) == Put(e, IF Utf16Length[s] < 0 THEN <<"b", s>> ELSE <<"s", s>>)

WriteString(e, s) == appendString(SetStringReference(e, s), s)

EncodeString(e, s) ==
  CASE Utf16Length[s] = 0 -> Put(e, <<"e">>)
    [] Utf16Length[s] = 1 -> Put(e, <<"u", s>>)
    [] OTHER -> IF WritesStringReference(e, s) THEN Put(e, <<"r", e.sref[s]>>)
                ELSE WriteString(e, s)

appendBytes(e, v) == IF v.isnil THEN WriteNil(e) ELSE Put(e, <<"b", v.s>>)

WriteError(e, s) == appendString(Put(AddReferenceCount(e, 1), <<"E">>), s)

(* A rational that is an integer is a long, another one is a string that   *)
(* takes a number but is never referred to.                                *)
WriteBig(e, v) ==
  IF v.t = <<"struct", "big.Rat">> /\ v.s /= "" THEN appendString(AddReferenceCount(e, 1), v.s)
  ELSE WriteInt64(e, v.n)

(* Midnight is left out, and so is the first of January 1970 (day 0).      *)
writeTime(e, v) ==
  Put(e, IF v.clock = 0 THEN <<"D", v.day, 0, v.utc>>
         ELSE IF v.day = 0 THEN <<"T", v.clock, v.utc>>
         ELSE <<"D", v.day, v.clock, v.utc>>)

writeUUID(e, v) == Put(e, <<"g", v.s>>)

-----------------------------------------------------------------------------
(* Values *)
RECURSIVE writeValue(_, _, _)

encode(e, v) == writeValue(e, v, TRUE)
encodeAll(e, s) == FoldLeft(encode, e, s)

-----------------------------------------------------------------------------
(* Slices *)
FastElems == {<<k>> : k \in (ScalarKinds \ {"uint8", "uintptr"}) \union {"string", "interface"}}

(* One of the sixteen loops over elements of one type.                     *)
elements(e, et, s) ==
  IF et = <<"string">> THEN FoldLeft(LAMBDA d, x : EncodeString(d, x.s), e, s)
  ELSE IF et = <<"interface">> THEN encodeAll(e, s)
  ELSE FoldLeft(LAMBDA d, x : WriteScalar(d, et[1], x), e, s)

(* The loops over slices of slices: numbers are counted for all the inner  *)
(* slices at once, those of strings and interfaces one at a time.          *)
slices(e, et, s) ==
  LET inner(d, x) == WriteFoot(elements(WriteListHead(d, Len(x.e)), et, x.e))
  IN  IF et \in {<<"string">>, <<"interface">>}
        THEN FoldLeft(LAMBDA d, x : inner(AddReferenceCount(d, 1), x), e, s)
        ELSE FoldLeft(inner, AddReferenceCount(e, Len(s)), s)

writeBytesSliceBody(e, s) == FoldLeft(appendBytes, AddReferenceCount(e, Len(s)), s)

writeOtherSliceBody(e, s) == encodeAll(e, s)

(* The type switches: the loop for exactly this type, or the generic one.  *)
write2dSliceBody(e, v) ==
  LET et == Elem(v.t) IN
  CASE et = <<"slice", "uint8">>                   -> writeBytesSliceBody(e, v.e)
    [] et[1] = "slice" /\ Elem(et) \in FastElems   -> slices(e, Elem(et), v.e)
    [] OTHER                                       -> writeOtherSliceBody(e, v.e)

writeSliceBody(e, v) ==
  IF v.t[1] = "named" THEN writeOtherSliceBody(e, v.e)
  ELSE IF Elem(v.t) \in FastElems THEN elements(e, Elem(v.t), v.e)
  ELSE write2dSliceBody(e, v)

writeSlice(e, v) ==
  IF v.t = <<"slice", "uint8">> THEN appendBytes(e, v)
  ELSE IF v.e = <<>> THEN WriteFoot(WriteListHead(e, 0))
  ELSE WriteFoot(writeSliceBody(WriteListHead(e, Len(v.e)), v))

(* toSlice: an array is written as the slice of its elements.              *)
writeArray(e, v) == writeSlice(e, [v EXCEPT !.t = <<"slice">> \o Elem(v.t)])

-----------------------------------------------------------------------------
(* Structs *)
(* The first object of a struct type carries its class: the names of its   *)
(* fields take one number each.                                            *)
WriteStructType(e, s) ==
  IF \E i \in DOMAIN e.cls : e.cls[i] = s THEN e
  ELSE [Put(AddReferenceCount(e, Len(StructOf[s].names)), <<"c", s, StructOf[s].names>>)
          EXCEPT !.cls = Append(@, s)]

(* What the handler of a field's type writes: nil for a nil pointer, slice *)
(* or map, otherwise what Encode writes.                                   *)
EncodePtrField(e, v) == IF isNil(v) THEN WriteNil(e) ELSE encode(e, v)

EncodeField(e, v) ==
  CASE Kind(v.t) = "ptr"         -> EncodePtrField(e, v)
    [] isNil(v)                  -> WriteNil(e)
    [] Kind(v.t) \in ScalarKinds -> WriteScalar(e, Kind(v.t), v)
    [] Kind(v.t) = "string"      -> EncodeString(e, v.s)
    [] OTHER                     -> encode(e, v)

(* mutant: the object takes its number before its class does.              *)
NumberedFirst(e, v, a) ==
  LET s == v.t[2]
      c == WriteStructType(SetReference(e, a), s)
      o == Put(c, <<"o", SelectInSeq(c.cls, LAMBDA x : x = s) - 1>>) IN
  IF s \in {"time.Time", "big.Int", "big.Rat", "list.List", "Anon"} THEN Put(e, <<"n">>)
  ELSE WriteFoot(FoldLeft(EncodeField, o, v.f))

StructWrite(e, v, a) ==
  LET s == v.t[2] IN
  CASE s = "time.Time" -> writeTime(SetReference(e, a), v)
    [] s = "list.List" ->
         WriteFoot(encodeAll(WriteListHead(SetReference(e, a), Len(v.f)), v.f))
    [] <<"struct", s>> \in BigTypes -> WriteBig(e, v)
    [] StructOf[s].anonymous ->
         LET field(d, i) == EncodeField(EncodeString(d, StructOf[s].names[i]), v.f[i])
         IN  WriteFoot(FoldLeftDomain(field, WriteMapHead(SetReference(e, a), Len(v.f)), v.f))
    [] OTHER ->
         LET c == WriteStructType(e, s)
             o == Put(SetReference(c, a), <<"o", SelectInSeq(c.cls, LAMBDA x : x = s) - 1>>)
         IN  WriteFoot(FoldLeft(EncodeField, o, v.f))

-----------------------------------------------------------------------------
(* Maps.  A map is the sequence of its entries <<key, value>> in the order *)
(* one iteration visits them.                                              *)
FastValues == (SignedKinds \union UnsignedKinds \union FloatKinds
                 \union {"interface", "string", "bool"}) \ {"uintptr"}

WriteValueOf(e, vt, v) ==
  CASE vt = "interface" -> encode(e, v)
    [] vt = "string"    -> EncodeString(e, v.s)
    [] OTHER            -> WriteScalar(e, vt, v)

(* The fifteen loops of one key type differ in the writer of the values.   *)
Entries(e, v, WriteKey(_, _)) ==
  FoldLeft(LAMBDA d, kv : WriteValueOf(WriteKey(d, kv[1]), ValOf(v.t)[1], kv[2]), e, v.e)

HasFastValue(v) == v.t[1] = "map" /\ Len(ValOf(v.t)) = 1 /\ ValOf(v.t)[1] \in FastValues

writeOtherMapBody(e, v) ==
  FoldLeft(LAMBDA d, kv : encode(encode(d, kv[1]), kv[2]), e, v.e)

(* mutant: keys are written without looking them up.                       *)
WritesKeysAgain(e, v) == Entries(e, v, LAMBDA d, k : WriteString(d, k.s))

writeStringEntries(e, v) == Entries(e, v, LAMBDA d, k : EncodeString(d, k.s))
writeInterfaceEntries(e, v) == Entries(e, v, LAMBDA d, k : encode(d, k))
writeIntEntries(e, v) == Entries(e, v, LAMBDA d, k : WriteScalar(d, "int", k))
writeInt8Entries(e, v) == Entries(e, v, LAMBDA d, k : WriteScalar(d, "int8", k))
writeInt16Entries(e, v) == Entries(e, v, LAMBDA d, k : WriteScalar(d, "int16", k))
writeInt32Entries(e, v) == Entries(e, v, LAMBDA d, k : WriteScalar(d, "int32", k))
writeInt64Entries(e, v) == Entries(e, v, LAMBDA d, k : WriteScalar(d, "int64", k))
writeUintEntries(e, v) == Entries(e, v, LAMBDA d, k : WriteScalar(d, "uint", k))
writeUint8Entries(e, v) == Entries(e, v, LAMBDA d, k : WriteScalar(d, "uint8", k))
writeUint16Entries(e, v) == Entries(e, v, LAMBDA d, k : WriteScalar(d, "uint16", k))
writeUint32Entries(e, v) == Entries(e, v, LAMBDA d, k : WriteScalar(d, "uint32", k))
writeUint64Entries(e, v) == Entries(e, v, LAMBDA d, k : WriteScalar(d, "uint64", k))
writeFloat32Entries(e, v) == Entries(e, v, LAMBDA d, k : WriteScalar(d, "float32", k))
writeFloat64Entries(e, v) == Entries(e, v, LAMBDA d, k : WriteScalar(d, "float64", k))

(* The type switch of each key type: one of its fifteen loops when the map *)
(* has exactly that type, the generic loop otherwise.                      *)
writeStringMapBody(e, v) ==
  IF HasFastValue(v) THEN writeStringEntries(e, v) ELSE writeOtherMapBody(e, v)
writeInterfaceMapBody(e, v) ==
  IF HasFastValue(v) THEN writeInterfaceEntries(e, v) ELSE writeOtherMapBody(e, v)
writeIntMapBody(e, v) ==
  IF HasFastValue(v) THEN writeIntEntries(e, v) ELSE writeOtherMapBody(e, v)
writeInt8MapBody(e, v) ==
  IF HasFastValue(v) THEN writeInt8Entries(e, v) ELSE writeOtherMapBody(e, v)
writeInt16MapBody(e, v) ==
  IF HasFastValue(v) THEN writeInt16Entries(e, v) ELSE writeOtherMapBody(e, v)
writeInt32MapBody(e, v) ==
  IF HasFastValue(v) THEN writeInt32Entries(e, v) ELSE writeOtherMapBody(e, v)
writeInt64MapBody(e, v) ==
  IF HasFastValue(v) THEN writeInt64Entries(e, v) ELSE writeOtherMapBody(e, v)
writeUintMapBody(e, v) ==
  IF HasFastValue(v) THEN writeUintEntries(e, v) ELSE writeOtherMapBody(e, v)
writeUint8MapBody(e, v) ==
  IF HasFastValue(v) THEN writeUint8Entries(e, v) ELSE writeOtherMapBody(e, v)
writeUint16MapBody(e, v) ==
  IF HasFastValue(v) THEN writeUint16Entries(e, v) ELSE writeOtherMapBody(e, v)
writeUint32MapBody(e, v) ==
  IF HasFastValue(v) THEN writeUint32Entries(e, v) ELSE writeOtherMapBody(e, v)
writeUint64MapBody(e, v) ==
  IF HasFastValue(v) THEN writeUint64Entries(e, v) ELSE writeOtherMapBody(e, v)
writeFloat32MapBody(e, v) ==
  IF HasFastValue(v) THEN writeFloat32Entries(e, v) ELSE writeOtherMapBody(e, v)
writeFloat64MapBody(e, v) ==
  IF HasFastValue(v) THEN writeFloat64Entries(e, v) ELSE writeOtherMapBody(e, v)

fastWriteMapBody(e, v) ==
  LET k == KeyOf(v.t)[1] IN
  CASE k = "string"    -> writeStringMapBody(e, v)
    [] k = "interface" -> writeInterfaceMapBody(e, v)
    [] k = "int"       -> writeIntMapBody(e, v)
    [] k = "int8"      -> writeInt8MapBody(e, v)
    [] k = "int16"     -> writeInt16MapBody(e, v)
    [] k = "int32"     -> writeInt32MapBody(e, v)
    [] k = "int64"     -> writeInt64MapBody(e, v)
    [] k = "uint"      -> writeUintMapBody(e, v)
    [] k = "uint8"     -> writeUint8MapBody(e, v)
    [] k = "uint16"    -> writeUint16MapBody(e, v)
    [] k = "uint32"    -> writeUint32MapBody(e, v)
    [] k = "uint64"    -> writeUint64MapBody(e, v)
    [] k = "float32"   -> writeFloat32MapBody(e, v)
    [] k = "float64"   -> writeFloat64MapBody(e, v)
    [] OTHER           -> writeOtherMapBody(e, v)

writeMap(e, v) ==
  IF v.e = <<>> THEN WriteFoot(WriteMapHead(e, 0))
  ELSE WriteFoot(fastWriteMapBody(WriteMapHead(e, Len(v.e)), v))

-----------------------------------------------------------------------------
(* Any value, and what a pointer points to *)
fastWritesValue(v) == \/ v.t = <<"nil">> \/ v.t = <<"error">>
                      \/ Len(v.t) = 1 /\ v.t[1] \in ScalarKinds
                      \/ v.t \in BigTypes

fastWriteValue(e, v) ==
  CASE v.t = <<"nil">>   -> WriteNil(e)
    [] v.t = <<"error">> -> WriteError(e, v.s)
    [] v.t \in BigTypes  -> WriteBig(e, v)
    [] OTHER             -> WriteScalar(e, v.t[1], v)

(* EncodeReference: is the reference written instead of the value.         *)
Referable(e, a, by) == by /\ WritesReference(e, a)

writePtr(e, v, by) ==
  LET x == Heap[v.a]
      k == Kind(x.t)
      d == setReference(e, v.a) IN
  IF fastWritesValue(x) THEN fastWriteValue(e, x)
  ELSE IF isNil(x) THEN WriteNil(e)
  ELSE CASE k \in ScalarKinds   -> WriteScalar(e, k, x)
         [] k = "string"        -> IF by THEN EncodeString(e, x.s) ELSE WriteString(e, x.s)
         [] k = "ptr"           -> writeValue(e, x, by)
         [] Referable(e, v.a, by) -> Put(e, <<"r", e.ref[v.a]>>)
         [] x.t = <<"uuid">>    -> writeUUID(d, x)
         [] k = "array"         -> writeArray(d, x)
         [] k = "slice"         -> writeSlice(d, x)
         [] k = "map"           -> writeMap(d, x)
         [] k = "struct"        -> StructWrite(e, x, v.a)

(* writeValue: by is TRUE for Encode, which writes what was written before *)
(* as a reference, and FALSE for Write.                                    *)
writeValue(e, v, by) ==
  LET k == Kind(v.t) IN
  IF fastWritesValue(v) THEN fastWriteValue(e, v)
  ELSE IF isNil(v) THEN WriteNil(e)
  ELSE CASE v.t = <<"uuid">>  -> writeUUID(AddReferenceCount(e, 1), v)
         [] k \in ScalarKinds -> WriteScalar(e, k, v)
         [] k = "string"      -> IF by THEN EncodeString(e, v.s) ELSE WriteString(e, v.s)
         [] k = "array"       -> writeArray(AddReferenceCount(e, 1), v)
         [] k = "slice"       -> writeSlice(AddReferenceCount(e, 1), v)
         [] k = "map"         -> writeMap(AddReferenceCount(e, 1), v)
         [] k = "struct"      -> StructWrite(e, v, 0)
         [] k = "ptr"         -> writePtr(e, v, by)
=============================================================================

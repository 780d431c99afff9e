-------------------------------- MODULE Codec --------------------------------
(***************************************************************************)
(* An Encoder and a Decoder at the two ends of one stream (Formatter, the  *)
(* rpc codecs and the tests use them so): the one encodes or writes any of *)
(* Samples, the other reads the values in order, each as an interface{} or *)
(* as a Go type, and both are reset between two messages.                  *)
(***************************************************************************)
EXTENDS Values

CONSTANTS Samples,     \* the values that are encoded
          Cyclic,      \* those that reach themselves: without references the
                       \* encoder would never end, so they are not given to it
          Together,    \* those that are also sent with others in a message
          Targets,     \* the types a value sent alone is read as, besides its own
          MaxValues    \* values in one message

ASSUME CodecAssumption == MaxValues \in Nat /\ Cyclic \subseteq Samples

VARIABLES enc, dec,
          sent,        \* what was encoded since the last reset: [v, by]
          got          \* what was read since: [t, v, err]

codecVars == <<enc, dec, sent, got>>

CodecInit ==
  \E simple \in BOOLEAN :
    /\ enc = NewEncoder(simple)
    /\ dec = NewDecoder(simple, <<>>)
    /\ sent = <<>>
    /\ got = <<>>

-----------------------------------------------------------------------------
(* Encode and Write, and the bytes on their way to the reader, who starts  *)
(* when the message is complete.                                           *)
Send(v, by) ==
  /\ Len(sent) < MaxValues
  /\ got = <<>>
  /\ \E e \in {writeValue(enc, v, by)} :
       /\ enc' = [e EXCEPT !.buf = <<>>]
       /\ dec' = [dec EXCEPT !.in = @ \o e.buf]
  /\ sent' = Append(sent, [v |-> v, by |-> by])
  /\ UNCHANGED got

Given == (IF sent = <<>> THEN Samples
          ELSE IF sent[1].v \in Together THEN Together ELSE {})
         \ (IF enc.simple THEN Cyclic ELSE {})

Encode(v) == Send(v, TRUE)
Write(v)  == Send(v, FALSE)

Read(t) ==
  /\ dec.in /= <<>>
  /\ dec.err = ""
  /\ \E r \in {Decode(dec, t)} :
       /\ dec' = r.d
       /\ got' = Append(got, [t |-> t, v |-> r.v, err |-> r.d.err])
  /\ UNCHANGED <<enc, sent>>

OwnType(v) == IF v.t[1] \in {"nil", "error"} THEN <<"interface">> ELSE v.t

(* A value alone is read as its own type, as an interface{} or as any      *)
(* other; several are all read as interface{} or all as their own types.   *)
ReadAs(i) == LET own == OwnType(sent[i].v) IN
             IF Len(sent) = 1 THEN Targets \union {own}
             ELSE IF i = 1 THEN {own, <<"interface">>}
             ELSE IF got[1].t = <<"interface">> THEN {<<"interface">>} ELSE {own}

ReadNext == Len(got) < Len(sent) /\ \E t \in ReadAs(Len(got) + 1) : Read(t)

(* What was read is the reader's own now: the nodes start again.           *)
ResetBoth ==
  /\ sent /= <<>> /\ dec.in = <<>> /\ dec.err = ""
  /\ enc' = Reset(enc)
  /\ dec' = [ResetDecoder(dec) EXCEPT !.nodes = <<>>]
  /\ sent' = <<>> /\ got' = <<>>

CodecNext ==
  \/ \E v \in Given : Encode(v) \/ Write(v)
  \/ ReadNext
  \/ ResetBoth

CodecSpec == CodecInit /\ [][CodecNext]_codecVars

-----------------------------------------------------------------------------
(* Properties *)

(* Numbers of references are counted, tables hold what was numbered, and   *)
(* nothing is read after an error.                                         *)
TablesTyped ==
  /\ enc.last \in Nat /\ enc.buf = <<>>
  /\ DOMAIN enc.ref \subseteq DOMAIN Heap
  /\ \A a \in DOMAIN enc.ref : enc.ref[a] < enc.last
  /\ \A s \in DOMAIN enc.sref : enc.sref[s] < enc.last
  /\ enc.simple = dec.simple /\ (enc.simple => enc.last = 0 /\ dec.refs = <<>>)
  /\ Len(got) <= Len(sent)
  /\ \A i \in DOMAIN got : (got[i].err /= "") => i = Len(got)

(* The types that keep memory from one value to the next: what was read    *)
(* into it before is read over.                                            *)
RECURSIVE KeepsMemory(_)
KeepsMemory(t) ==
  CASE Kind(t) = "ptr"   -> Placed(Pointee(t))
    [] Kind(t) = "slice" -> t /= <<"slice", "uint8">>
    [] InParts(t)        -> \E i \in DOMAIN PartTypes(t) : KeepsMemory(PartTypes(t)[i])
    [] OTHER             -> FALSE

(* Somewhere in v, read as ty, is a map of several entries that are read   *)
(* over one another.                                                       *)
RECURSIVE ReadsOver(_, _, _)
ReadsOver(v, ty, k) ==
  LET kind == Kind(v.t) IN
  CASE k = 0 \/ ty = <<"interface">> \/ isNil(v) -> FALSE
    [] kind = "ptr" -> ReadsOver(Heap[v.a], Elem(ty), k)
    [] kind = "map" ->
         \/ Len(v.e) > 1 /\ (KeepsMemory(KeyOf(ty)) \/ KeepsMemory(ValOf(ty)))
         \/ \E i \in DOMAIN v.e : ReadsOver(v.e[i][2], ValOf(ty), k - 1)
    [] kind \in {"slice", "array"} /\ "e" \in DOMAIN v ->
         \E i \in DOMAIN v.e : ReadsOver(v.e[i], Elem(ty), k - 1)
    [] InParts(v.t) -> \E i \in DOMAIN v.f : ReadsOver(v.f[i], FieldType[v.t[2]][i], k - 1)
    [] OTHER -> FALSE

(* What does not read back: an error, and as its own type a complex number *)
(* with an imaginary part, a list.List that is not behind a pointer, or a  *)
(* value that is read over.                                                *)
Legible(v, t) ==
  ~ \/ v.t = <<"error">>
    \/ t = v.t /\ Kind(v.t) \in ComplexKinds /\ v.im /= 0
    \/ t = v.t /\ v.t = <<"struct", "list.List">>

Readable(v, t) == Legible(v, t) /\ ~(t = v.t /\ ReadsOver(v, t, Depth))

(* Whatever both sides counted while they wrote and read, they counted     *)
(* alike: when everything sent has been read, whatever type it was read    *)
(* as, reference numbers and classes agree (addCount and SetReference in   *)
(* the encoders, AddReference in the decoders).                            *)
TablesAligned ==
  dec.in = <<>> /\ dec.err = "" =>
    /\ Len(dec.refs) = enc.last
    /\ [i \in DOMAIN dec.cls |-> dec.cls[i].name] = enc.cls

(* A value read as an interface{} or as its own type is, as deep as Depth, *)
(* the value that was encoded or written, whatever was referred to.        *)
Proper(i) == got[i].t \in {<<"interface">>, OwnType(sent[i].v)}

Arrived(i) ==
  /\ got[i].err = ""
  /\ Unfold(dec, got[i].v, Depth) = Meaning(dec, sent[i].v, got[i].t, Depth)

RoundTrip ==
  \A i \in DOMAIN got : Proper(i) /\ Readable(sent[i].v, got[i].t) => Arrived(i)

(* The entries of every map arrive as they were written, too: a poll of    *)
(* Prosumer is read as a map[string][]Message, the messages of each topic  *)
(* for the callback of that topic (README_EN.md: "broadcast to topic").    *)
EntriesArrive ==
  \A i \in DOMAIN got : Proper(i) /\ Legible(sent[i].v, got[i].t) => Arrived(i)

(* Links: which container of the reader stands for which address, as far   *)
(* as pointers are read as interface{}.                                    *)
RECURSIVE Links(_, _, _)
Links(v, r, k) ==
  LET kind == Kind(v.t) IN
  CASE k = 0 \/ isNil(v) \/ r[1] /= "at" -> {}
    [] kind = "ptr" -> Links(Heap[v.a], r, k)
                         \union (IF Kind(Heap[v.a].t) = "ptr" THEN {} ELSE {<<v.a, r[2]>>})
    [] kind \in {"slice", "array"} ->
         UNION {Links(v.e[i], Elements(dec, r)[i], k - 1) : i \in DOMAIN v.e}
    [] OTHER -> {}

AllLinks ==
  UNION {Links(sent[i].v, got[i].v, Depth) :
           i \in {j \in DOMAIN got : got[j].t = <<"interface">> /\ got[j].err = ""}}

(* Pointers that were equal are read as one container, pointers that were  *)
(* not as two: Encode writes a pointer again as a reference (encoder.go:   *)
(* "If v is already written to stream, it will writes it as reference").   *)
IdentityKept ==
  ~enc.simple /\ (\A i \in DOMAIN sent : sent[i].by) =>
    \A x, y \in AllLinks : x[1] = y[1] <=> x[2] = y[2]

(* Every type that reads the next value without an error takes the same    *)
(* tokens and the same reference numbers as an interface{} does: a reader  *)
(* may choose its types freely and never loses its place.                  *)
SamePlace ==
  dec.in /= <<>> /\ got = <<>> /\ Len(sent) = 1 =>
    \A any \in {decodeAny(dec).d} : \A t \in Targets : \A d \in {Decode(dec, t).d} :
      d.err = "" /\ any.err = "" => d.in = any.in /\ Len(d.refs) = Len(any.refs)

(* The loops for one element or key and value type write what the generic  *)
(* loop over the same container writes, in every state of the tables.      *)
FastPathsAgree ==
  sent /= <<>> =>
    LET v == sent[Len(sent)].v IN
    Kind(v.t) \in {"slice", "map"} /\ v.t[1] /= "named" /\ v.t /= <<"slice", "uint8">> =>
      encode(enc, v) = encode(enc, [v EXCEPT !.t = <<"named">> \o @])
=============================================================================

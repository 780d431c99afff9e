-------------------------------- MODULE MCIO ---------------------------------
(* The values and types of the codec runs: at least one value of every     *)
(* branch of the encoders, integers scaled so that int8, ..., int64 have   *)
(* 5, 6, 7, 9 and 9 bits.                                                  *)
EXTENDS Codec, TextIO

T1(k) == <<k>>
Num(k, n)   == [t |-> <<k>>, n |-> n]
Float(k, n) == [t |-> <<k>>, is |-> "finite", n |-> n]
Odd(k, x)   == [t |-> <<k>>, is |-> x, n |-> 0]
Cplx(k, n, im) == [t |-> <<k>>, is |-> "finite", n |-> n, im |-> im]
Bool(b)     == [t |-> <<"bool">>, b |-> b]
Str(s)      == [t |-> <<"string">>, s |-> s]
Bytes(s)    == [t |-> <<"slice", "uint8">>, isnil |-> FALSE, s |-> s]
Ptr(t, a)   == [t |-> <<"ptr">> \o t, a |-> a]
List(t, e)  == [t |-> t, isnil |-> FALSE, e |-> e]
NilOf(t)    == [t |-> t, isnil |-> TRUE, e |-> <<>>]
Struct(s, f) == [t |-> <<"struct", s>>, f |-> f]
Uuid        == [t |-> <<"uuid">>, s |-> "U"]
Time(d, c)  == [t |-> <<"struct", "time.Time">>, day |-> d, clock |-> c, utc |-> TRUE]
BigInt(n)   == [t |-> <<"struct", "big.Int">>, n |-> n]
BigRat(n, s) == [t |-> <<"struct", "big.Rat">>, n |-> n, s |-> s]

Node == <<"struct", "Node">>
Iface  == <<"interface">>

MCHeap == 1 :> Struct("Node", <<Num("int", 1), Ptr(Node, 2)>>)
       @@ 2 :> Struct("Node", <<Num("int", 2), Ptr(Node, 1)>>)
       @@ 3 :> List(<<"slice", "interface">>, <<Ptr(<<"slice", "interface">>, 3), Str("ab"), Ptr(<<"string">>, 4)>>)
       @@ 4 :> Str("ab")
       @@ 5 :> Num("int", 7)
       @@ 6 :> List(<<"map", "string", "interface">>, <<<<Str("ab"), Ptr(<<"string">>, 4)>>>>)
       @@ 7 :> Uuid
       @@ 8 :> Ptr(Node, 1)
       @@ 9 :> NilOf(<<"slice", "int">>)
       @@ 10 :> List(<<"array", "int">>, <<Num("int", 1), Num("int", 12)>>)
       @@ 11 :> Time(3, 1)
       @@ 12 :> BigInt(4)
       @@ 13 :> Bool(TRUE)
       @@ 14 :> Struct("Plain", <<Str("ab"), Num("int8", -1)>>)
       @@ 16 :> Struct("Alien", <<Str("ab"), Num("int8", -1)>>)
       @@ 15 :> Struct("list.List", <<Str("ab"), Num("int", 1)>>)
       @@ 17 :> Struct("Plain", <<Str("a"), Num("int8", 2)>>)
       @@ 18 :> Time(4, 5)

MCStructOf == [Node  |-> [names |-> <<"v", "next">>, anonymous |-> FALSE],
               Plain |-> [names |-> <<"ab", "n">>, anonymous |-> FALSE],
               Alien |-> [names |-> <<"ab", "n">>, anonymous |-> FALSE],
               Anon  |-> [names |-> <<"ab", "x">>, anonymous |-> TRUE],
               Message |-> [names |-> <<"data", "from">>, anonymous |-> FALSE],
               Mixed |-> [names |-> <<"s", "l", "m", "i", "p", "b", "t", "a">>, anonymous |-> FALSE]]

MCFieldType == [Node  |-> <<<<"int">>, <<"ptr">> \o Node>>,
                Plain |-> <<<<"string">>, <<"int8">>>>,
                Alien |-> <<<<"string">>, <<"int8">>>>,
                Anon  |-> <<<<"string">>, Iface>>,
                Message |-> <<Iface, <<"string">>>>,
                Mixed |-> <<<<"string">>, <<"slice", "int">>, <<"map", "string", "int">>, Iface,
                            <<"ptr", "struct", "Plain">>, <<"bool">>,
                            <<"struct", "time.Time">>, <<"array", "int">>>>]
MCRegistered == {"Node", "Mixed", "Plain"}

MCUtf16Length == [x \in {"", "a", "ab", "12", "wide", "bad", "v", "next", "n", "x", "s", "l", "m", "i", "p", "b", "t", "1/2", "data", "from",
                          "simple", "h", "add", "Add", "sum", "any", "none", "~", "oops", "panic", "parse", "range",
                          "cast", "EOF", "tag", "invalid request", "no such method"} |->
                    CASE x = "" -> 0 [] x = "bad" -> -1 [] x \in {"a", "v", "n", "x", "s", "l", "m", "i", "p", "b", "t", "h", "~"} -> 1 [] OTHER -> 2]
MCBits == [int8 |-> 5, int16 |-> 6, int32 |-> 7, int64 |-> 9, int |-> 9,
           uint8 |-> 5, uint16 |-> 6, uint32 |-> 7, uint64 |-> 9, uint |-> 9, uintptr |-> 9]
MCNumeral == [x \in {"12", "1"} |-> IF x = "12" THEN 12 ELSE 1]

(* The values of one kind that its writers tell apart.                     *)
Some(k) ==
  CASE k = "interface" -> <<Str("ab"), Ptr(<<"map", "string", "interface">>, 6), Nil, Cplx("complex64", 1, 2)>>
    [] k = "string"    -> <<Str("ab"), Str("a"), Str("ab"), Str("")>>
    [] k = "bool"      -> <<Bool(TRUE), Bool(FALSE)>>
    [] k \in {"float32", "float64"} -> <<Float(k, 3), Odd(k, "NaN"), Odd(k, "-")>>
    [] k \in {"complex64", "complex128"} -> <<Cplx(k, 3, 0)>>
    [] k \in {"int8", "uint8"} -> <<Num(k, 0), Num(k, 10), Num(k, 15)>>
    [] k \in {"int16", "uint16"} -> <<Num(k, 9), Num(k, 31)>>
    [] k = "int32"     -> <<Num(k, -1), Num(k, 63)>>
    [] k \in {"uint32"} -> <<Num(k, 64), Num(k, 127), Num(k, 5)>>
    [] k \in {"int", "int64"} -> <<Num(k, -65), Num(k, 64), Num(k, -64), Num(k, 9)>>
    [] OTHER           -> <<Num(k, 64), Num(k, 9)>>

MapKeys == {"string", "interface", "int", "int8", "int16", "int32", "int64", "uint", "uint8",
            "uint16", "uint32", "uint64", "float32", "float64"}

(* A map with the scalar keys of Some(k) and values of kind w.             *)
MapOf(k, w) ==
  LET ks == IF k = "interface" THEN <<Str("ab"), Num("int", 1)>>
            ELSE IF k = "string" THEN <<Str("ab"), Str("a")>> ELSE SubSeq(Some(k), 1, 2)
      ws == Some(w)
  IN  List(<<"map", k, w>>, [i \in DOMAIN ks |-> <<ks[i], ws[1 + (i % Len(ws))]>>])

Scalars == UNION {ToSet(Some(k)) : k \in ScalarKinds}
             \union {Nil, Cplx("complex128", 1, 2), Str(""), Str("a"), Str("ab"), Str("12"), Str("bad"), Bytes("bad"), Bytes(""), Uuid,
                     Time(0, 5), Time(4, 0), Time(4, 5), BigInt(70), BigRat(3, ""), BigRat(0, "1/2"),
                     [t |-> <<"named", "int16">>, n |-> 12], [t |-> <<"named", "string">>, s |-> "ab"]}
Slices == {List(<<"slice", k>>, Some(k)) : k \in (ScalarKinds \ {"uint8"}) \union {"string", "interface"}}
Slices2 == {List(<<"slice", "slice", k>>, <<List(<<"slice", k>>, Some(k)), List(<<"slice", k>>, <<>>)>>) :
              k \in (ScalarKinds \ {"uint8", "uintptr"}) \union {"string", "interface"}}
             \union {List(<<"slice", "slice", "uint8">>, <<Bytes("ab"), Bytes("")>>)}
Maps == {MapOf(k, w) : k \in MapKeys, w \in FastValues}

Containers ==
  {NilOf(<<"slice", "int">>), List(<<"slice", "int">>, <<>>), NilOf(<<"map", "string", "int">>),
   List(<<"array", "int">>, <<Num("int", 1), Num("int", 12)>>),
   List(<<"slice", "ptr", "struct", "Node">>, <<Ptr(Node, 1), Ptr(Node, 2), Ptr(Node, 0)>>),
   List(<<"slice", "interface">>, <<Ptr(Node, 1), Ptr(Node, 1), Ptr(Node, 2)>>),
   List(<<"slice", "struct", "Plain">>, <<Struct("Plain", <<Str("ab"), Num("int8", 2)>>)>>),
   List(<<"map", "string", "ptr", "struct", "Node">>, <<<<Str("ab"), Ptr(Node, 1)>>>>),
   List(<<"map", "bool", "int">>, <<<<Bool(TRUE), Num("int", 3)>>>>),
   Struct("Plain", <<Str("ab"), Num("int8", 2)>>),
   Struct("Alien", <<Str("ab"), Num("int8", 2)>>),
   Struct("Anon", <<Str("ab"), Ptr(<<"string">>, 4)>>),
   Struct("Mixed", <<Str("ab"), List(<<"slice", "int">>, <<Num("int", 3)>>), NilOf(<<"map", "string", "int">>),
                     Ptr(Node, 1), Ptr(<<"struct", "Plain">>, 14), Bool(TRUE), Time(4, 5),
                     List(<<"array", "int">>, <<Num("int", 1), Num("int", 12)>>)>>),
   Struct("list.List", <<Str("ab")>>)}
(* Maps of two entries of every kind of value that has parts or is pointed *)
(* to: arrays that serve for the second entry too and arrays that are too  *)
(* short for it, and the messages of two topics.                           *)
TwoEntries(w, x, y) == List(<<"map", "string">> \o w, <<<<Str("ab"), x>>, <<Str("a"), y>>>>)
Ints(s)       == List(<<"slice", "int">>, [i \in DOMAIN s |-> Num("int", s[i])])
PlainPtrs(s)  == List(<<"slice", "ptr", "struct", "Plain">>, [i \in DOMAIN s |-> Ptr(<<"struct", "Plain">>, s[i])])
Messages(s)   == List(<<"slice", "struct", "Message">>, <<Struct("Message", <<Str(s), Str("h")>>)>>)
TwoTopics     == TwoEntries(<<"slice", "struct", "Message">>, Messages("ab"), Messages("a"))
ByValue ==
  {TwoEntries(<<"struct", "Plain">>, Heap[14], Heap[17]),
   TwoEntries(<<"map", "string", "int">>, MapOf("string", "int"), NilOf(<<"map", "string", "int">>))}
SlotMaps ==
  ByValue \union
  {TwoEntries(<<"array", "int">>, Heap[10], List(<<"array", "int">>, <<Num("int", 3), Num("int", 4)>>)),
   TwoEntries(<<"struct", "time.Time">>, Time(4, 5), Time(0, 5)),
   TwoEntries(<<"ptr", "struct", "time.Time">>, Ptr(<<"struct", "time.Time">>, 11), Ptr(<<"struct", "time.Time">>, 18)),
   TwoEntries(<<"ptr", "string">>, Ptr(<<"string">>, 4), Ptr(<<"string">>, 4)),
   TwoEntries(<<"ptr", "struct", "Plain">>, Ptr(<<"struct", "Plain">>, 14), Ptr(<<"struct", "Plain">>, 17)),
   TwoEntries(<<"slice", "int">>, Ints(<<1, 2>>), Ints(<<3>>)),
   TwoEntries(<<"slice", "int">>, Ints(<<1>>), Ints(<<2, 3, 4>>)),
   TwoEntries(<<"slice", "ptr", "struct", "Plain">>, PlainPtrs(<<14>>), PlainPtrs(<<17, 14>>)),
   TwoTopics}
Pointers == {Ptr(Heap[a].t, a) : a \in DOMAIN Heap} \union {Ptr(Node, 0)}

(* The answer of a poll with the messages of two topics, and nothing else.  *)
TopicSamples == {TwoTopics}

MCSamples == Scalars \union Slices \union Slices2 \union Maps \union Containers \union SlotMaps \union Pointers
(* The addresses on a cycle of MCHeap or before one, and the samples that  *)
(* hold one of them.                                                       *)
Endless(v) == Kind(v.t) = "ptr" /\ v.a \in {1, 2, 3, 8}
MCCyclic ==
  {v \in Pointers : Endless(v)}
    \union {v \in Containers : "f" \in DOMAIN v /\ \E i \in DOMAIN v.f : Endless(v.f[i])}
    \union {v \in Containers : Kind(v.t) = "slice" /\ \E i \in DOMAIN v.e : Endless(v.e[i])}
    \union {v \in Containers : Kind(v.t) = "map" /\ \E i \in DOMAIN v.e : Endless(v.e[i][2])}

MCTogether == Containers \union ByValue \union Pointers \union {Str("ab"), Str("a"), Bytes("bad"), Uuid, Time(4, 5)}

MCTargets == {<<"interface">>, <<"int8">>, <<"uint32">>, <<"float64">>, <<"complex128">>, <<"bool">>, <<"string">>,
              <<"slice", "uint8">>, <<"uuid">>, <<"struct", "time.Time">>, <<"struct", "big.Int">>,
              <<"slice", "interface">>, <<"slice", "string">>, <<"array", "int">>,
              <<"ptr", "struct", "list.List">>,
              <<"map", "string", "interface">>, <<"map", "int", "string">>, <<"map", "interface", "interface">>,
              <<"map", "string", "ptr", "struct", "Plain">>,
              Node, <<"ptr", "struct", "Node">>, <<"struct", "Plain">>, <<"struct", "Alien">>}

-----------------------------------------------------------------------------
(* The four parts of the codec; a behaviour is one of them, the variables *)
(* of the others stay as they are.                                         *)
VARIABLES ioPart,
          published, simple, ctx, stage, said, wire, heard, result, answer, sdec, cdec, calls   \* RpcCall

CONSTANT MaxCalls

(* Items of every operation that cuts the buffer: characters of one to     *)
(* four bytes, values longer than a chunk and values that end with it.     *)
Item(op, w) == [op |-> op, w |-> w]
MCItems == {Item("bytes", <<1, 1, 1, 1, 1, 1>>), Item("unsafeBytes", <<1, 1>>), Item("until", <<1, 1, 1>>),
          Item("int", <<1, 1, 1>>), Item("string", <<3, 2, 4>>), Item("string", <<4, 4>>),
          Item("string", <<1, 3>>), Item("unsafeString", <<3>>), Item("char", <<3>>), Item("char", <<2>>)}

(* Methods with fixed, variadic and any arguments; add returns nothing,    *)
(* one value or several.                                                   *)
Method(p, variadic, missing, r) == [params |-> p, variadic |-> variadic, missing |-> missing, returns |-> r]
PlainPtr == Ptr(<<"struct", "Plain">>, 14)
Methods ==
  [add |-> Method(<<<<"int">>, Iface>>, FALSE, FALSE, {<<>>, <<PlainPtr>>, <<Str("ab"), Str("ab")>>}),
   sum |-> Method(<<<<"string">>, <<"slice", "interface">>>>, TRUE, FALSE, {<<Num("int", 9)>>})]
  @@ ("~" :> Method(<<>>, FALSE, FALSE, {<<List(<<"slice", "string">>, <<Str("ab"), Str("ab")>>)>>}))
  @@ ("*" :> Method(<<>>, FALSE, TRUE, {<<PlainPtr, PlainPtr, Str("ab")>>}))
Lower == [add |-> "add", Add |-> "add", sum |-> "sum", none |-> "none"] @@ ("~" :> "~")
ArgLists ==
  {<<>>, <<Num("int", 3)>>, <<Num("int", 3), Str("ab")>>, <<Num("int", 3), Nil>>, <<Num("int", 3), PlainPtr>>,
   <<Str("ab"), Str("ab"), Ptr(<<"string">>, 4)>>,
   <<Num("int", 3), List(<<"slice", "interface">>, <<PlainPtr, Str("ab"), Str("ab"), PlainPtr>>)>>}
ReturnTypes == {<<>>, <<Iface>>, <<Iface, Iface>>, <<Iface, Iface, <<"string">>>>}
Errors == {"oops"}

rpcVars  == <<published, simple, ctx, stage, said, wire, heard, result, answer, sdec, cdec, calls>>

Rpc == INSTANCE RpcCall WITH call <- said, seen <- heard

CodecOff == enc = NewEncoder(FALSE) /\ dec = NewDecoder(FALSE, <<>>) /\ sent = <<>> /\ got = <<>>
BytesOff == items = <<>> /\ input = <<>> /\ chunks = <<1>> /\ stream = Stream!Empty /\ results = <<>>
TextsOff == kind = "off" /\ what = 0 /\ text = <<>>
RpcOff   == /\ published = {} /\ simple = [client |-> FALSE, service |-> FALSE] /\ ctx = [rq |-> {}, rs |-> {}]
            /\ stage = "idle" /\ said = Rpc!NoCall /\ wire = <<>> /\ heard = Rpc!NotSeen
            /\ result = Rpc!NoResult /\ answer = Rpc!NoResult /\ calls = 0
            /\ sdec = NewDecoder(FALSE, <<>>) /\ cdec = NewDecoder(FALSE, <<>>)

IOInit ==
  \/ ioPart = "codec" /\ CodecInit /\ BytesOff /\ TextsOff /\ RpcOff
  \/ ioPart = "bytes" /\ Stream!Init /\ CodecOff /\ TextsOff /\ RpcOff
  \/ ioPart = "texts" /\ Texts!Init /\ CodecOff /\ BytesOff /\ RpcOff
  \/ ioPart = "rpc" /\ Rpc!Init /\ CodecOff /\ BytesOff /\ TextsOff

IONext ==
  /\ UNCHANGED ioPart
  /\ \/ ioPart = "codec" /\ CodecNext /\ UNCHANGED <<byteVars, textVars, rpcVars>>
     \/ ioPart = "bytes" /\ Stream!Next /\ UNCHANGED <<codecVars, textVars, rpcVars>>
     \/ ioPart = "texts" /\ Texts!Next /\ UNCHANGED <<codecVars, byteVars, rpcVars>>
     \/ ioPart = "rpc" /\ Rpc!Next /\ UNCHANGED <<codecVars, byteVars, textVars>>

IOSpec == IOInit /\ [][IONext]_<<ioPart, codecVars, byteVars, textVars, rpcVars>>

(* The properties of the parts, those that belong together as one.         *)

(* Encoder and decoder number the values of a message alike: the tables    *)
(* are the same, the positions are, and what was shared is shared again.   *)
SidesAgree == TablesTyped /\ TablesAligned /\ SamePlace /\ IdentityKept
(* RpcCall: the service gets the call that was made, and the caller gets   *)
(* the results or the error of the service.                                *)
CallsArrive == Rpc!TypeOK /\ Rpc!ArgumentsArrive /\ Rpc!ResultsArrive
=============================================================================

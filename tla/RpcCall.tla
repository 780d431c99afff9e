------------------------------- MODULE RpcCall -------------------------------
(***************************************************************************)
(* One client calling one service, as the bytes of a request and of its    *)
(* response see it: ClientCodec and ServiceCodec around an Encoder and a   *)
(* Decoder, the dispatch of Service.Process and Execute, and the headers   *)
(* both sides exchange.  A request is                                      *)
(*     [H headers] C name [args] z                                         *)
(* and a response  [H headers] (R result | E message) z; the reference     *)
(* tables start again between the parts, on both sides.  The transport in  *)
(* between is modelled elsewhere and delivers here.                        *)
(***************************************************************************)
EXTENDS Values

CONSTANTS Methods,      \* lower-case name |-> [params, variadic, missing, returns]
          Lower,        \* name a caller may use |-> the name in lower case
          ArgLists,     \* the argument lists a caller may send
          ReturnTypes,  \* the lists of types a caller may expect
          Errors,       \* the messages of the errors a method may return
          MaxCalls      \* calls made with one client context

VARIABLES published, \* the methods in the service's table
          simple,   \* the option WithSimple of [client, service]
          ctx,      \* the headers of the client's context: [rq, rs]
          stage,    \* where the call is
          call,     \* what was called: [name, args, types, headers]
          wire,     \* the request or the response on its way
          seen,     \* what the service read: [name, method, args, headers, err]
          result,   \* what it answers: [err, values]
          answer,      \* what the caller answer: [err, values]
          sdec,     \* the decoder of the service, after the request
          cdec,     \* the decoder of the client, after the response
          calls     \* calls made

rvars == <<published, simple, ctx, stage, call, wire, seen, result, answer, sdec, cdec, calls>>

NoCall   == [name |-> "", args |-> <<>>, types |-> <<>>, headers |-> {}]
NotSeen  == [name |-> "", method |-> "", args |-> <<>>, headers |-> {}, err |-> ""]
NoResult == [err |-> "", values |-> <<>>]

Init ==
  /\ published \in {DOMAIN Methods, DOMAIN Methods \ {"*"}}
  /\ simple \in [client : BOOLEAN, service : BOOLEAN]
  /\ ctx = [rq |-> {}, rs |-> {}]
  /\ stage = "idle" /\ call = NoCall /\ wire = <<>> /\ seen = NotSeen
  /\ result = NoResult /\ answer = NoResult /\ calls = 0
  /\ sdec = NewDecoder(FALSE, <<>>) /\ cdec = NewDecoder(FALSE, <<>>)

-----------------------------------------------------------------------------
(* Headers: a map[string]interface{} of true values ("simple" is one).     *)
AnyList(s)  == [t |-> <<"slice", "interface">>, isnil |-> FALSE, e |-> s]
Text(s)     == [t |-> <<"string">>, s |-> s]
HeaderMap(h) == [t |-> <<"map", "string", "interface">>, isnil |-> FALSE,
                 e |-> [i \in DOMAIN SetToSeq(h) |-> <<Text(SetToSeq(h)[i]), [t |-> <<"bool">>, b |-> TRUE]>>]]

WriteHeaders(e, h) ==
  IF h = {} THEN e ELSE Reset(writeValue(Put(e, <<"H">>), HeaderMap(h), FALSE))

Headers(r) == [d |-> ResetDecoder(r.d), h |-> {kv[1][2] : kv \in Elements(r.d, Held(r.d, r.v))}]

ReadHeaders(d) ==
  IF Head(d.in)[1] /= "H" THEN [d |-> d, h |-> {}]
  ELSE Headers(Decode(Rest(d), <<"map", "string", "interface">>))

Simple(d, on) == IF on THEN ResetDecoder([d EXCEPT !.simple = TRUE]) ELSE d

-----------------------------------------------------------------------------
(* clientCodec.Encode                                                      *)
WriteName(e, name) == writeValue(Put(e, <<"C">>), Text(name), FALSE)
WriteArguments(e, args) ==
  IF args = <<>> THEN e ELSE writeValue(Reset(e), AnyList(args), FALSE)

EncodeRequest(h, name, args) ==
  Put(WriteArguments(WriteName(WriteHeaders(NewEncoder(simple.client), h), name), args), <<"z">>).buf

(* Call: the headers stay in the context for the next call made with it.   *)
Call(name, args, types, user) ==
  LET h == ctx.rq \union user \union (IF simple.client THEN {"simple"} ELSE {}) IN
  /\ stage = "idle"
  /\ calls < MaxCalls
  /\ calls' = calls + 1
  /\ ctx' = [ctx EXCEPT !.rq = h]
  /\ call' = [name |-> name, args |-> args, types |-> types, headers |-> h]
  /\ wire' = EncodeRequest(h, name, args)
  /\ stage' = "request"
  /\ UNCHANGED <<published, simple, seen, result, answer, sdec, cdec>>

(* An empty request asks for the names of the methods.                     *)
Ask(types) ==
  /\ stage = "idle"
  /\ calls < MaxCalls
  /\ calls' = calls + 1
  /\ call' = [NoCall EXCEPT !.name = "~", !.types = types]
  /\ wire' = <<>>
  /\ stage' = "request"
  /\ UNCHANGED <<published, simple, ctx, seen, result, answer, sdec, cdec>>

-----------------------------------------------------------------------------
(* methodManager.Get: names are compared in lower case; a missing method   *)
(* "*" takes the calls of all the others.                                  *)
Get(name) == IF Lower[name] \in published THEN Lower[name]
             ELSE IF "*" \in published THEN "*" ELSE ""

(* The types the arguments are read as: those of the parameters, the       *)
(* element type for the variadic rest, any type beyond them.               *)
ParamType(m, i) ==
  IF m.variadic /\ i >= Len(m.params) THEN Elem(m.params[Len(m.params)])
  ELSE IF i <= Len(m.params) THEN m.params[i] ELSE <<"interface">>

ListOf(r) == [d |-> r.d, args |-> Elements(r.d, r.v)]

ReadList(d) == ListOf(Decode(d, <<"slice", "interface">>))

(* The list of the arguments: it takes a reference itself.                 *)
ReadArguments(d, m) ==
  LET own       == AddReference(Rest(d), <<"ptr", "slice", "interface">>, <<"nil">>)
      Ended(r) == [d |-> Rest(r.d), args |-> r.v] IN
  Ended(ReadN(own, Head(d.in)[2], LAMBDA x, i : Decode(x, ParamType(m, i))))

(* mutant: the references of the name are still counted.                   *)
KeepsReferences(d, m) ==
  IF Head(d.in)[1] /= "a" THEN [d |-> d, args |-> <<>>]
  ELSE IF m.missing THEN ReadList(d)
  ELSE ReadArguments(d, m)

decodeArguments(d, m) ==
  IF Head(d.in)[1] /= "a" THEN [d |-> d, args |-> <<>>]
  ELSE IF m.missing THEN ReadList(ResetDecoder(d))
  ELSE ReadArguments(ResetDecoder(d), m)

(* serviceCodec.Decode: the headers, the name, the arguments.              *)
NoMethod == "no such method"

Request(d, name, method, args, headers, err) ==
  [seen |-> [name |-> name, method |-> method, args |-> args, headers |-> headers, err |-> err], d |-> d]

DecodeMethod(name, headers) ==
  LET n       == name.v[2]
      m       == Get(n)
      Read(a) == Request(a.d, n, m, a.args, headers, a.d.err) IN
  IF m = "" THEN Request(name.d, n, "", <<>>, headers, NoMethod)
  ELSE Read(decodeArguments(name.d, Methods[m]))

(* An empty request, and one that ends at once, ask for the names.         *)
Names(d, headers) == Request(d, "~", Get("~"), <<>>, headers, "")

DecodeCall(h) ==
  CASE Head(h.d.in)[1] = "C" -> DecodeMethod(Decode(Simple(Rest(h.d), "simple" \in h.h), <<"string">>), h.h)
    [] Head(h.d.in)[1] = "z" -> Names(h.d, h.h)
    [] OTHER                 -> Request(h.d, "", "", <<>>, h.h, "invalid request")

DecodeRequest(request) ==
  IF request = <<>> THEN Names(NewDecoder(FALSE, <<>>), {})
  ELSE DecodeCall(ReadHeaders(NewDecoder(FALSE, request)))

Receive ==
  /\ stage = "request"
  /\ \E r \in {DecodeRequest(wire)} :
       /\ seen' = r.seen
       /\ sdec' = r.d
       /\ IF r.seen.err = "" THEN stage' = "execute" /\ UNCHANGED result
          ELSE stage' = "reply" /\ result' = [NoResult EXCEPT !.err = r.seen.err]
  /\ UNCHANGED <<published, simple, ctx, call, wire, answer, cdec, calls>>

(* Execute: reflect's Call panics on too few or too many arguments, and on *)
(* a nil argument for a parameter of interface type, which has no value to *)
(* pass; Process makes every panic an error.                               *)
Panics(m, args) ==
  /\ ~m.missing
  /\ \/ ~m.variadic /\ Len(args) /= Len(m.params)
     \/ m.variadic /\ Len(args) < Len(m.params) - 1
     \/ \E i \in DOMAIN args : args[i] = <<"nil">> /\ ParamType(m, i) = <<"interface">>

Execute ==
  /\ stage = "execute"
  /\ LET m == Methods[seen.method] IN
       IF Panics(m, seen.args) THEN result' = [NoResult EXCEPT !.err = "panic"]
       ELSE \/ \E e \in Errors : result' = [NoResult EXCEPT !.err = e]
            \/ \E r \in m.returns : result' = [NoResult EXCEPT !.values = r]
  /\ stage' = "reply"
  /\ UNCHANGED <<published, simple, ctx, call, wire, seen, answer, sdec, cdec, calls>>

(* serviceCodec.Encode: several results are one list.                      *)
Response(values) ==
  CASE Len(values) = 0 -> Nil [] Len(values) = 1 -> values[1] [] OTHER -> AnyList(values)

WriteResult(e, r) ==
  IF r.err /= "" THEN WriteString(Put(e, <<"E">>), r.err)
  ELSE writeValue(Put(e, <<"R">>), Response(r.values), FALSE)

EncodeResponse(r) ==
  LET h == IF simple.service THEN {"simple"} ELSE {} IN
  Put(WriteResult(WriteHeaders(NewEncoder(simple.service), h), r), <<"z">>).buf

Reply ==
  /\ stage = "reply"
  /\ wire' = EncodeResponse(result)
  /\ stage' = "response"
  /\ UNCHANGED <<published, simple, ctx, call, seen, result, answer, sdec, cdec, calls>>

-----------------------------------------------------------------------------
(* clientCodec.Decode: as many values as types; what is missing is zero.   *)
Filled(r, n) == R(r.d, r.v \o [i \in 1..(n - Len(r.v)) |-> <<"zero">>])
Single(r)    == R(r.d, <<r.v>>)

ReadElements(d, types, size) ==
  ReadN(d, IF Len(types) < size THEN Len(types) ELSE size, LAMBDA x, i : Decode(x, types[i]))

(* mutant: the list of several results takes no reference.                 *)
UncountedResults(d, types) ==
  LET tok == Head(d.in) IN
  IF types = <<>> THEN R(d, <<>>)
  ELSE IF Len(types) > 1 /\ tok[1] = "a" THEN Filled(ReadElements(Rest(d), types, tok[2]), Len(types))
  ELSE Filled(Single(Decode(d, types[1])), Len(types))

ReadResults(d, types) ==
  LET tok == Head(d.in) IN
  IF types = <<>> THEN R(d, <<>>)
  ELSE IF Len(types) > 1 /\ tok[1] = "a"
    THEN Filled(ReadElements(AddReference(Rest(d), <<"nil">>, <<"nil">>), types, tok[2]), Len(types))
  ELSE Filled(Single(Decode(d, types[1])), Len(types))

Answered(d, err, values) == [d |-> d, answer |-> [err |-> err, values |-> values]]

DecodeResponse(d, types, rs) ==
  LET tok       == Head(d.in)
      Result(r) == Answered(r.d, r.d.err, r.v)
      Error(e)  == Answered(e.d, IF e.d.err /= "" THEN e.d.err ELSE e.v[2], <<>>) IN
  CASE tok[1] = "R" -> Result(ReadResults(Simple(Rest(d), "simple" \in rs), types))
    [] tok[1] = "E" -> Error(Decode(Rest(d), <<"string">>))
    [] tok[1] = "z" -> Answered(d, "", <<>>)
    [] OTHER        -> Answered(d, "invalid response", <<>>)

Finish ==
  /\ stage = "response"
  /\ \E h \in {ReadHeaders(NewDecoder(FALSE, wire))} :
     \E r \in {DecodeResponse(h.d, call.types, ctx.rs \union h.h)} :
       /\ ctx' = [ctx EXCEPT !.rs = @ \union h.h]
       /\ answer' = r.answer
       /\ cdec' = r.d
  /\ stage' = "done"
  /\ UNCHANGED <<published, simple, call, wire, seen, result, sdec, calls>>

(* The decoders go back to their pools: Simple(false) resets them.         *)
Return ==
  /\ stage = "done"
  /\ stage' = "idle" /\ wire' = <<>> /\ call' = NoCall
  /\ seen' = NotSeen /\ result' = NoResult /\ answer' = NoResult
  /\ sdec' = NewDecoder(FALSE, <<>>) /\ cdec' = NewDecoder(FALSE, <<>>)
  /\ UNCHANGED <<published, simple, ctx, calls>>

UserHeaders == {{}, {"h"}}

Next ==
  \/ \E name \in DOMAIN Lower, args \in ArgLists, types \in ReturnTypes, user \in UserHeaders :
        Call(name, args, types, user)
  \/ \E types \in ReturnTypes : Ask(types)
  \/ Receive \/ Execute \/ Reply \/ Finish \/ Return

Spec == Init /\ [][Next]_rvars

-----------------------------------------------------------------------------
(* Properties *)

TypeOK ==
  /\ stage \in {"idle", "request", "execute", "reply", "response", "done"}
  /\ calls \in 0..MaxCalls
  /\ ctx.rs \subseteq {"simple"} /\ ctx.rq \subseteq {"simple", "h"}
  /\ result.err /= "" => result.values = <<>>

(* A value that fits a type needs no conversion to be read as it.          *)
Fits(v, t) == t = <<"interface">> \/ v.t = t

TypeFor(m, i) == IF m.missing THEN <<"interface">> ELSE ParamType(m, i)

(* The method the service is about to run gets the name, the headers and   *)
(* the arguments the caller sent, each as the type of its parameter,       *)
(* whatever was referred to and whichever side has chosen to be simple;    *)
(* what fits the parameters is never refused.                              *)
ArgumentsArrive ==
  LET m == Methods[seen.method] IN
  /\ stage = "execute" =>
       /\ seen.name = call.name /\ seen.headers = call.headers
       /\ Len(seen.args) = Len(call.args)
       /\ \A i \in DOMAIN call.args :
            Fits(call.args[i], TypeFor(m, i)) =>
              Unfold(sdec, seen.args[i], Depth) = Meaning(sdec, call.args[i], TypeFor(m, i), Depth)
       /\ sdec.in \in {<<>>, <<<<"z">>>>}
  /\ stage = "reply" /\ seen.err /= "" =>
       \/ seen.err = NoMethod /\ Get(call.name) = ""
       \/ seen.method /= "" /\ \E i \in DOMAIN call.args : ~Fits(call.args[i], TypeFor(m, i))

(* What a caller who expects n values can get: a list is its elements to   *)
(* one who expects several, several results are a list to one who expects  *)
(* one, and no result is nil.                                              *)
Offered(values, n) ==
  CASE values = <<>>                     -> <<Nil>>
    [] n > 1 /\ Len(values) = 1 /\ Kind(values[1].t) = "slice" -> values[1].e
    [] n <= 1 /\ Len(values) > 1         -> <<AnyList(values)>>
    [] OTHER                             -> values

(* An error of the service is the caller's error and nothing else is; the  *)
(* results arrive as the types the caller expects, and what is missing is  *)
(* zero.                                                                   *)
ResultsArrive ==
  stage = "done" =>
    LET n    == Len(call.types)
        all  == Offered(result.values, n)
        fits == \A i \in 1..n : i <= Len(all) => Fits(all[i], call.types[i]) IN
    /\ result.err /= "" => answer.err = result.err
    /\ result.err = "" /\ fits =>
         /\ answer.err = ""
         /\ Len(answer.values) = n
         /\ \A i \in 1..n :
              Unfold(cdec, answer.values[i], Depth) =
                IF i <= Len(all) THEN Meaning(cdec, all[i], call.types[i], Depth) ELSE <<"zero">>
=============================================================================

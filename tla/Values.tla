-------------------------------- MODULE Values -------------------------------
(***************************************************************************)
(* What values mean, whichever way they travelled: the reference that the  *)
(* properties of Codec and RpcCall compare with what a decoder d has read. *)
(* It follows the values themselves, never the tokens.                     *)
(***************************************************************************)
EXTENDS Decoder

CONSTANT Depth      \* how deep two values are compared

ASSUME ValuesAssumption == Depth \in Nat

-----------------------------------------------------------------------------
(* What a value means to the one who reads it as type ty, Depth deep, and  *)
(* what was read, as deep.                                                 *)
RECURSIVE Meaning(_, _, _, _), Unfold(_, _, _)

More == <<"more">>

(* An object is read as the struct type its class was read with: one that  *)
(* is registered, or the one the first reader of the class asked for.      *)
HasLocal(d, s) ==
  s \in Registered \/ \E i \in DOMAIN d.cls : d.cls[i].name = s /\ d.cls[i].local /= ""

Part(ty, T(_)) == IF ty = <<"interface">> THEN ty ELSE T(ty)

StructMeaning(d, v, ty, k) ==
  LET s == v.t[2]
      field(i) == Meaning(d, v.f[i], FieldType[s][i], k - 1)
      free(i)  == Meaning(d, v.f[i], <<"interface">>, k - 1) IN
  CASE s = "time.Time" -> <<"time", v.day, v.clock, v.utc>>
    [] s = "big.Rat" /\ v.s /= "" -> <<"str", v.s>>
    [] v.t \in BigTypes -> <<"num", v.n>>
    [] s = "list.List"  -> <<"list", [i \in DOMAIN v.f |-> free(i)]>>
    [] ty = <<"interface">> /\ (StructOf[s].anonymous \/ ~HasLocal(d, s)) ->
         <<"map", {<<<<"str", StructOf[s].names[i]>>, free(i)>> : i \in DOMAIN v.f}>>
    [] OTHER -> <<"obj", s, [i \in DOMAIN v.f |-> field(i)]>>

Meaning(d, v, ty, k) ==
  LET kind == Kind(v.t) IN
  CASE isNil(v)        -> <<"nil">>
    [] kind = "ptr"    -> Meaning(d, Heap[v.a], Part(ty, Elem), k)
    [] kind = "string" -> IF Utf16Length[v.s] < 0 /\ ty = <<"interface">>
                            THEN <<"bytes", v.s>> ELSE <<"str", v.s>>
    [] kind = "bool"   -> <<"bool", v.b>>
    [] v.t = <<"uuid">> -> <<"uuid", v.s>>
    [] v.t = <<"slice", "uint8">> -> <<"bytes", v.s>>
    [] kind \in FloatKinds /\ v.is = "NaN"      -> <<"NaN">>
    [] kind \in FloatKinds /\ v.is \in {"+", "-"} -> <<"Inf", v.is>>
    [] kind \in ComplexKinds /\ v.im /= 0 -> IF k = 0 THEN More ELSE <<"list", <<<<"num", v.n>>, <<"num", v.im>>>>>>
    [] kind \in NumberKinds             -> <<"num", v.n>>
    [] k = 0 /\ v.t \notin BigTypes \union {<<"struct", "time.Time">>} -> More
    [] kind \in {"slice", "array"} ->
         <<"list", [i \in DOMAIN v.e |-> Meaning(d, v.e[i], Part(ty, Elem), k - 1)]>>
    [] kind = "map" ->
         <<"map", {<<Meaning(d, v.e[i][1], Part(ty, KeyOf), k - 1),
                     Meaning(d, v.e[i][2], Part(ty, ValOf), k - 1)>> : i \in DOMAIN v.e}>>
    [] kind = "struct" -> StructMeaning(d, v, ty, k)

Unfold(d, v, k) ==
  LET r == Held(d, v) IN
  IF r[1] \notin {"at", "slice"} THEN r
  ELSE IF k = 0 THEN More
  ELSE LET n == IF r[1] = "slice" THEN <<"list", Elements(d, r)>> ELSE d.nodes[r[2]] IN
       CASE n[1] = "list" -> <<"list", [i \in DOMAIN n[2] |-> Unfold(d, n[2][i], k - 1)]>>
         [] n[1] = "map"  -> <<"map", {<<Unfold(d, e[1], k - 1), Unfold(d, e[2], k - 1)>> : e \in n[2]}>>
         [] n[1] = "obj"  -> <<"obj", n[3], [i \in DOMAIN n[2] |-> Unfold(d, n[2][i], k - 1)]>>
=============================================================================

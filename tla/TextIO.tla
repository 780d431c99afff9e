-------------------------------- MODULE TextIO -------------------------------
(***************************************************************************)
(* The two parts of the io package below its values: the buffer that a     *)
(* Decoder reads from (Stream) and the text of integers and strings        *)
(* (Texts).  They share nothing.                                           *)
(***************************************************************************)
EXTENDS Integers, Sequences, FiniteSets

CONSTANTS Items, MaxItems, BufSize, MinChunk, Period,   \* of ByteStream
          MaxInt, MaxLength                             \* of TextForms

VARIABLES items, input, chunks, stream, results,
          kind, what, text

byteVars == <<items, input, chunks, stream, results>>
textVars == <<kind, what, text>>

Stream == INSTANCE ByteStream
Texts  == INSTANCE TextForms

ASSUME StreamAssumption ==
  /\ BufSize \in Nat /\ MinChunk \in 1..BufSize /\ Period \in Nat \ {0} /\ MaxItems \in Nat
  /\ Items \subseteq [op : Stream!Operations, w : Seq(1..4)]
  /\ \A it \in Items : it.op = "int" => it.w /= <<>>     \* an integer has a digit

ASSUME TextAssumption == MaxInt \in Nat /\ MaxLength \in Nat

(* ByteStream: the place in the input is kept across chunks (loadMore),    *)
(* and values are what was sent, whatever the chunks.                      *)
StreamIntact == Stream!TypeOK /\ Stream!PlaceKept /\ Stream!ValuesIntact

(* TextForms: integers read back as written (AppendInt64, readUint64), and *)
(* the writer's string length is the reader's (utf16Length).               *)
TextsAgree == Texts!IntegersRoundTrip /\ Texts!UnitsAgree
=============================================================================

----------------------------- MODULE WireFrames -----------------------------
(***************************************************************************)
(* The frames of the wire (encode_frame, decode_frame and                  *)
(* validate_json_shape in crates/bloom-rpc-wire/src/codec.rs).  A frame is *)
(* a length and a JSON text; the receiver hashes and verifies the value    *)
(* again from its canonical text, so a value must have one frame only.     *)
(*                                                                         *)
(* A value is a scalar of so many bytes (one, unless it is a string), a    *)
(* list of values, or an object, whose keys have so many bytes each.  A    *)
(* text is a value and the spaces that its canonical text does not have,   *)
(* or so many bytes that are no JSON.                                      *)
(***************************************************************************)
EXTENDS Integers, Sequences

CONSTANTS
  Values,   \* the JSON values
  FrameMax, MaxDepth, MaxString, MaxList

\* The JSON values, as far as the limits tell them apart.
Scalar(n) == [kind |-> "scalar", size |-> n, keys |-> <<>>, parts |-> <<>>]
List(values) == [kind |-> "list", size |-> 0, keys |-> <<>>, parts |-> values]
Object(keys, values) == [kind |-> "object", size |-> 0, keys |-> keys, parts |-> values]

Parts(v) == {v.parts[i] : i \in DOMAIN v.parts}

\* What the constants must be: what a value holds is a value.
FramesAssumption == MaxDepth \in Nat /\ \A v \in Values : Parts(v) \subseteq Values

\* The length of the canonical text: quotes or brackets, quotes and a colon with each
\* key, and commas.
Sum(numbers) ==
  LET first[i \in 0..Len(numbers)] == IF i = 0 THEN 0 ELSE first[i - 1] + numbers[i]
  IN  first[Len(numbers)]
Length[v \in Values] ==
  v.size + 2 + Sum(v.keys) + 3 * Len(v.keys)
  + Sum([i \in DOMAIN v.parts |-> Length[v.parts[i]]])
  + (IF v.parts = <<>> THEN 0 ELSE Len(v.parts) - 1)

TextLength(text) == text.spaces + IF text.json THEN Length[text.value] ELSE 0

\* serde_jcs::to_vec
Canonical(v) == [json |-> TRUE, value |-> v, spaces |-> 0]

\* No string, key or list is too long; the members of an object are not counted.
Moderate(v) ==
  /\ v.kind = "scalar" => v.size <= MaxString
  /\ v.kind = "list" => Len(v.parts) <= MaxList
  /\ \A i \in DOMAIN v.keys : v.keys[i] <= MaxString

\* validate_json_shape, of a value at a depth.
ShapeOk[depth \in Nat] ==
  [v \in Values |->
     depth <= MaxDepth /\ Moderate(v) /\ \A p \in Parts(v) : ShapeOk[depth + 1][p]]

\* encode_frame: bounds the length and nothing else.
Encodes(v) == TextLength(Canonical(v)) <= FrameMax
EncodeFrame(v) == [declared |-> TextLength(Canonical(v)), text |-> Canonical(v)]

\* decode_frame
Decodes(f) ==
  /\ f.declared <= FrameMax /\ f.declared = TextLength(f.text)
  /\ f.text.json
  /\ ShapeOk[1][f.text.value]
  /\ f.text = Canonical(f.text.value)

\* The values so many levels below a value.
Level[k \in Nat] ==
  [v \in Values |-> IF k = 0 THEN {v} ELSE UNION {Level[k - 1][p] : p \in Parts(v)}]

\* Nothing lies below the greatest depth, and nothing above it is too long.
WithinLimits(v) ==
  Level[MaxDepth][v] = {} /\ \A k \in 0..MaxDepth : \A w \in Level[k][v] : Moderate(w)
=============================================================================

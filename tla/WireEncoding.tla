---------------------------- MODULE WireEncoding ----------------------------
(***************************************************************************)
(* Reading what arrives on the wire: a number as a decimal text            *)
(* (DecimalU64 and DecimalU256), and a value as a frame (decode_frame).    *)
(* The transport, whose read_frame takes exactly as many bytes off the     *)
(* stream as the prefix declares, gives decode_frame no other length.      *)
(***************************************************************************)
EXTENDS WireDecimals, WireFrames

CONSTANT MaxReceived  \* bound on the length of a text

VARIABLES
  text,     \* the text received
  u64,      \* the text DecimalU64 keeps of it, or Malformed
  u256,     \* the text DecimalU256 keeps of it, or Malformed
  frame,    \* the frame to decode: [declared, text]
  result    \* the value read, NotYet or Refused

decimalVars == <<text, u64, u256>>
frameVars == <<frame, result>>
wireVars == <<decimalVars, frameVars>>

\* No text at all, and no valid text.
Unread == <<-2>>
Malformed == <<-3>>
NotYet == [kind |-> "not yet"]
Refused == [kind |-> "refused"]

ASSUME EncodingAssumption ==
  /\ DecimalsAssumption /\ MaxReceived \in Nat
  /\ FramesAssumption /\ {NotYet, Refused} \cap Values = {}

\* What may arrive: any text of digits and other bytes; the text of any value, canonical
\* or not, with a length that is right or off by one; and what is no JSON.
JsonTexts == [json : {TRUE}, value : Values, spaces : 0..1]
Garbage == [json : {FALSE}, value : {Scalar(1)}, spaces : 1..2]
Frame(t, off) == [declared |-> TextLength(t) + off, text |-> t]
Received == {Frame(t, off) : t \in JsonTexts \cup Garbage, off \in {-1, 0, 1}}

AnyText == UNION {[1..n -> Digits \cup {Other}] : n \in 0..MaxReceived}
TextArrives == text \in AnyText /\ u64 = Unread /\ u256 = Unread
FrameArrives == frame \in Received /\ result = NotYet
WireInit == TextArrives /\ FrameArrives

\* DecimalU64::parse keeps the text of the number it found.
ReadDecimal ==
  /\ u64 = Unread
  /\ u64' = IF Fits64(text) THEN Text[Value(text)] ELSE Malformed
  /\ u256' = IF Fits256(text) THEN text ELSE Malformed
  /\ UNCHANGED <<text, frameVars>>

\* decode_frame, of bytes whose length need not be the declared one.
DecodeFrame ==
  /\ result = NotYet
  /\ result' = IF Decodes(frame) THEN frame.text.value ELSE Refused
  /\ UNCHANGED <<frame, decimalVars>>

WireNext == ReadDecimal \/ DecodeFrame

WireSpec == WireInit /\ [][WireNext]_wireVars

(***************************************************************************)
(* Correctness.                                                            *)
(***************************************************************************)
\* Every variable has its type.
WireTypeOK ==
  /\ text \in AnyText
  /\ {u64, u256} \subseteq {Unread, Malformed} \cup Seq(Digits)
  /\ frame.text \in JsonTexts \cup Garbage
  /\ \E off \in {-1, 0, 1} : frame = Frame(frame.text, off)
  /\ result \in {NotYet, Refused, frame.text.value}

\* What is kept of a number is the text received, byte for byte, so what the receiver
\* verifies is what was signed; exactly the texts of the numbers of the width are kept,
\* none twice; and the comparison of digits agrees with that of numbers.
OneTextPerNumber ==
  u64 # Unread =>
    /\ u64 = IF \E n \in 0..Max64 : text = Text[n] THEN text ELSE Malformed
    /\ u256 = IF \E n \in 0..Max256 : text = Text[n] THEN text ELSE Malformed

\* What a receiver reads is a value within the limits from the one frame that
\* encode_frame makes of it, so that it verifies the bytes that were signed; and every
\* such frame is read.  (encode_frame also makes frames that no receiver reads.)
OneFramePerValue ==
  result # NotYet =>
    (result # Refused <=> /\ frame.text.json
                          /\ WithinLimits(frame.text.value) /\ Encodes(frame.text.value)
                          /\ frame = EncodeFrame(frame.text.value))

\* What is read of the wire, numbers and frames, is read of its one encoding, which is
\* the one that was signed.
OneEncoding == OneTextPerNumber /\ OneFramePerValue
=============================================================================

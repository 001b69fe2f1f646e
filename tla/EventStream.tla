---------------------------- MODULE EventStream ----------------------------
(***************************************************************************)
(* The binary framing of a Bedrock ConverseStream body: what reading one      *)
(* frame yields for the bytes at hand, and the name/type/value triples of its *)
(* header block.  Bytes are numbers; checksums are the verdict they give.     *)
(***************************************************************************)
EXTENDS Integers, Sequences

PreludeLen  == 12       \* total length, headers length, prelude CRC
TrailerLen  == 4        \* message CRC
MaxFrameLen == 1048576

WellFormedPrelude(f) ==
  /\ f.preludeOK
  /\ f.total >= PreludeLen + TrailerLen
  /\ f.headers <= f.total
  /\ f.total <= MaxFrameLen

(***************************************************************************)
(* Reading one frame whose first f.avail bytes arrive before the body ends.   *)
(* io.ReadFull reports io.EOF when it read nothing, and the caller looks for  *)
(* io.EOF with errors.Is: a body that ends right after a prelude is an "eof"  *)
(* like one that ends between two frames.  A header length beyond the payload *)
(* passes the checks of the prelude and slices out of bounds.                 *)
(***************************************************************************)
ReadFrame(f) ==
  CASE f.avail = 0                                -> "eof"
    [] f.avail \in 1..(PreludeLen - 1)            -> "broken"
    [] f.avail >= PreludeLen /\ ~WellFormedPrelude(f) -> "broken"
    [] f.avail = PreludeLen /\ WellFormedPrelude(f)   -> "eof"
    [] OTHER ->
         IF f.avail < f.total THEN "broken"
         ELSE IF f.headers > f.total - PreludeLen - TrailerLen THEN "panic"
         ELSE IF f.messageOK THEN "frame" ELSE "broken"

-----------------------------------------------------------------------------
BoolTypes == {0, 1}
StringType == 7
LengthPrefixed == {6, StringType}
Bytes == 0..255

FixedWidth(t) ==
  CASE t \in BoolTypes -> 0
    [] t = 2           -> 1
    [] t = 3           -> 2
    [] t = 4           -> 4
    [] t \in {5, 8}    -> 8
    [] t = 9           -> 16

\* Bytes of the value of type t that starts at position v, length included.
ValueWidth(b, t, v) ==
  IF t \in LengthPrefixed
    THEN 2 + (IF v + 1 <= Len(b) THEN 256 * b[v] + b[v + 1] ELSE 0)
    ELSE FixedWidth(t)

\* The header at position i: where its type is, where its value ends, whether it is all there.
TypeAt(b, i) == i + b[i] + 1
EndAt(b, i) == TypeAt(b, i) + ValueWidth(b, b[TypeAt(b, i)], TypeAt(b, i) + 1)
WholeAt(b, i) == /\ TypeAt(b, i) <= Len(b) /\ b[TypeAt(b, i)] \in 0..9
                 /\ EndAt(b, i) <= Len(b)

\* Only string and boolean headers are kept ("true" and "false" by an initial).
NoHeaders == [name \in {} |-> << >>]
HeaderAt(b, i) ==
  LET tag == TypeAt(b, i)
      entry(value) == [name \in {SubSeq(b, i + 1, tag - 1)} |-> value]
  IN CASE b[tag] = StringType -> entry(SubSeq(b, tag + 3, EndAt(b, i)))
       [] b[tag] \in BoolTypes -> entry(IF b[tag] = 0 THEN <<116>> ELSE <<102>>)
       [] OTHER -> NoHeaders

\* A later header of a name replaces an earlier one: @@, in a form that proofs can unfold.
Overlay(later, earlier) ==
  [name \in DOMAIN later \cup DOMAIN earlier |-> IF name \in DOMAIN later THEN later[name] ELSE earlier[name]]

\* What the headers from position i on say.
HeadersFrom(b) ==
  LET from[i \in 1..(Len(b) + 1)] ==
        IF i = Len(b) + 1 THEN [ok |-> TRUE, headers |-> NoHeaders]
        ELSE IF ~WholeAt(b, i) THEN [ok |-> FALSE, headers |-> NoHeaders]
        ELSE LET rest == from[EndAt(b, i) + 1]
             IN [ok |-> rest.ok, headers |-> Overlay(rest.headers, HeaderAt(b, i))]
  IN from

ParseHeaders(b) == HeadersFrom(b)[1]

\* The provider's side: one header as bytes.
EncodeHeader(name, t, value) ==
  <<Len(name)>> \o name \o <<t>> \o (IF t \in LengthPrefixed THEN <<0, Len(value)>> ELSE << >>) \o value
=============================================================================

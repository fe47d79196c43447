----------------------------- MODULE TypedValues -----------------------------
(***************************************************************************)
(* The numbers of a script: their kinds, the bytes they are kept in, how   *)
(* they convert, and what an instruction makes of two of them              *)
(* (cova/vm.go, cova/types.go).                                            *)
(*                                                                         *)
(* Widths are those of SegmentMemory: a byte has ByteBase values, so that  *)
(* an int8 runs from -8 to 7 and an int32 from -32768 to 32767.  A float32 *)
(* is a number of halves, which is as much fraction as the properties tell *)
(* apart: of a product or a quotient of floats what is less than a half is *)
(* cut off.  The kinds kept are one of each sort that the compiler treats  *)
(* alike.                                                                  *)
(***************************************************************************)
EXTENDS SegmentMemory

Wide == {"Int32", "Float32"}
Narrow == {"Bool", "Int8", "Uint8"}
NumberKind == Wide \cup Narrow

Width(kind) == IF kind \in Wide THEN 4 ELSE 1
Bits(kind) == IF kind \in Wide THEN 16 ELSE 4       \* four to a byte here

(* n in the range of a kind: what is left of it in that many bits. *)
Wrapped(kind, n) ==
  CASE kind \in Wide -> Signed(n % WordBase)
    [] kind = "Int8" -> ((n + ByteBase \div 2) % ByteBase) - (ByteBase \div 2)
    [] OTHER -> n % ByteBase

BytesOf(kind, value) == Encode(Width(kind), value)
ValueOf(kind, bytes) == Wrapped(kind, Decode(bytes))

Truth(value) == IF value = 0 THEN 0 ELSE 1
Magnitude(n) == IF n < 0 THEN - n ELSE n
Towards0(a, b) == IF (a < 0) = (b < 0) THEN Magnitude(a) \div Magnitude(b)
                  ELSE - (Magnitude(a) \div Magnitude(b))

(* A bool is popped as a truth value, whatever its byte holds; a fraction  *)
(* is cut off on the way to an integer, but not on the way to a bool.      *)
Converted(from, to, value) ==
  LET whole == CASE from = "Float32" -> Towards0(value, 2)
                 [] from = "Bool" -> Truth(value)
                 [] OTHER -> value
  IN  CASE to = "Bool" -> Truth(value)
        [] to = "Float32" -> IF from = "Float32" THEN value ELSE 2 * whole
        [] OTHER -> Wrapped(to, whole)

(* Bools are added as bytes.  Shift counts are taken modulo the width.     *)
Integral == {"%", "<<"}
Undefined(op, right) == op \in {"/", "%"} /\ right = 0
Calculated(kind, op, left, right) ==
  Wrapped(kind,
    CASE op = "+" -> left + right
      [] op = "-" -> left - right
      [] op = "*" -> IF kind = "Float32" THEN Towards0(left * right, 2) ELSE left * right
      [] op = "/" -> Towards0(IF kind = "Float32" THEN 2 * left ELSE left, right)
      [] op = "%" -> left - right * Towards0(left, right)
      [] op = "<<" -> left * 2 ^ (right % Bits(kind)))

Compared(op, left, right) ==
  IF (op = "==" /\ left = right) \/ (op = "<" /\ left < right) THEN 1 ELSE 0

(* The kind in which two operands meet. *)
Promoted(left, right) ==
  CASE left = right -> left
    [] "Float32" \in {left, right} -> "Float32"
    [] "Uint8" \in {left, right} -> "Uint8"
    [] OTHER -> "Int32"
=============================================================================

-------------------------- MODULE EndianConversion --------------------------
(***************************************************************************)
(* The byte-order conversions of boost/endian/conversion.hpp (the copy     *)
(* bundled as lslboost) as operators over byte sequences.  A value of an   *)
(* integral type of w bytes is the sequence of its w bytes, least          *)
(* significant first, so that 64-bit values need no 64-bit integers; a     *)
(* buffer is the sequence of bytes at p, p+1, ...  A type is a record      *)
(* [width |-> bytes, signed |-> BOOLEAN].                                  *)
(*                                                                         *)
(* endian_reverse, endian_load and endian_store live in detail headers     *)
(* that the repository does not hold; they are written from their          *)
(* documented effect.                                                      *)
(***************************************************************************)
EXTENDS Integers, SequencesExt

CONSTANT NativeOrder    \* order::native: "little" or "big"

(* integral_by_size<N>::type, the unsigned type of N bytes; there is no    *)
(* type for other sizes.                                                   *)
IntegralBySize(N) ==
    CASE N = 1 -> [width |-> 1, signed |-> FALSE]
      [] N = 2 -> [width |-> 2, signed |-> FALSE]
      [] N = 4 -> [width |-> 4, signed |-> FALSE]
      [] N = 8 -> [width |-> 8, signed |-> FALSE]
      [] N = 16 -> [width |-> 16, signed |-> FALSE]

(* endian_reverse(x): x is cast to integral_by_size<sizeof(T)>::type and   *)
(* its bytes are reversed.                                                 *)
EndianReverse(x) == Reverse(SubSeq(x, 1, IntegralBySize(Len(x)).width))

(* The bytes b, least significant first, widened to T: sign-extended when  *)
(* T is signed, else zero-extended.                                        *)
Widen(b, T) ==
    LET fill == IF T.signed /\ b[Len(b)] >= 128 THEN 255 ELSE 0
    IN  b \o [i \in 1..(T.width - Len(b)) |-> fill]

(* endian_load<T, N, Order>(p): the N bytes at p in Order, as a T.        *)
EndianLoad(T, N, order, p) ==
    Widen(IF order = "little" THEN SubSeq(p, 1, N) ELSE Reverse(SubSeq(p, 1, N)), T)

(* endian_store<T, N, Order>(p, v): the low N bytes of v, in Order.       *)
EndianStore(T, N, order, v) ==
    IF order = "little" THEN SubSeq(v, 1, N) ELSE Reverse(SubSeq(v, 1, N))

(* Mutant: the From == To test inverted.                                  *)
ConditionalReverseInverted(x, from, to) == IF from # to THEN x ELSE EndianReverse(x)

(* conditional_reverse (generic, through conditional_reverse_impl, and     *)
(* the runtime form): x when the orders agree, else endian_reverse(x).     *)
ConditionalReverse(x, from, to) == IF from = to THEN x ELSE EndianReverse(x)

BigToNative(x) == ConditionalReverse(x, "big", NativeOrder)
NativeToBig(x) == ConditionalReverse(x, NativeOrder, "big")
LittleToNative(x) == ConditionalReverse(x, "little", NativeOrder)
NativeToLittle(x) == ConditionalReverse(x, NativeOrder, "little")

(* conditional_reverse_inplace: the value x holds afterwards;              *)
(* endian_reverse_inplace(x) only when the orders differ.                  *)
ConditionalReverseInplace(x, from, to) == IF from # to THEN EndianReverse(x) ELSE x

BigToNativeInplace(x) == ConditionalReverseInplace(x, "big", NativeOrder)
NativeToBigInplace(x) == ConditionalReverseInplace(x, NativeOrder, "big")
LittleToNativeInplace(x) == ConditionalReverseInplace(x, "little", NativeOrder)
NativeToLittleInplace(x) == ConditionalReverseInplace(x, NativeOrder, "little")

(* Mutant: the signed wrappers declared with the unsigned type.           *)
WrapperTypeUnsigned(bits, signed) ==
    [width |-> CASE bits = 16 -> 2
                 [] bits \in {24, 32} -> 4
                 [] bits \in {40, 48, 56, 64} -> 8,
     signed |-> FALSE]

(* The type the load_/store_ wrappers of a bit width work in:              *)
(* [u]int16_t for 16, [u]int32_t for 24 and 32, [u]int64_t for 40 to 64.   *)
WrapperType(bits, signed) ==
    [width |-> CASE bits = 16 -> 2
                 [] bits \in {24, 32} -> 4
                 [] bits \in {40, 48, 56, 64} -> 8,
     signed |-> signed]

(* load_{little,big}_{s,u}<bits>(p)                                        *)
Load(order, signed, bits, p) ==
    EndianLoad(WrapperType(bits, signed), bits \div 8, order, p)

(* Mutant: store_big_?24 passing order::little (a copy-paste slip).       *)
StoreBig24AsLittle(order, signed, bits, v) ==
    EndianStore(WrapperType(bits, signed), bits \div 8, IF bits = 24 THEN "little" ELSE order, v)

(* store_{little,big}_{s,u}<bits>(p, v)                                    *)
Store(order, signed, bits, v) ==
    EndianStore(WrapperType(bits, signed), bits \div 8, order, v)
=============================================================================

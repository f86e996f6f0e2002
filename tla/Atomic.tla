------------------------------- MODULE Atomic --------------------------------
(***************************************************************************)
(* The operations of arch/ia32/atomic.c, as what their instructions do to  *)
(* the word in memory, to register eax (the result) and to the flags.  The *)
(* build does not define CPU, so the code for processors above the 386 is  *)
(* compiled.  LOCK makes each a single step; with an instruction that does *)
(* not write memory (btl, orl and andl into a register) the processor      *)
(* refuses it, and the exception kills the thread.                         *)
(***************************************************************************)
EXTENDS Integers

CONSTANT W   \* bits of a kuint (32)

ASSUME WAssumption == W \in Nat \ {0}

M == 2^W
Words == 0..M - 1
Bits == 0..W - 1

(* True of any W; the provers know no more of ^ than that it is a number.  *)
ASSUME PowerAssumption == \A b \in Bits : 2^b > 0

Bit(n, b) == (n \div 2^b) % 2

(* A word, eax, the zero and carry flags, and whether the instruction is   *)
(* refused.                                                                *)
Cpu(mem, eax) == [mem |-> mem, eax |-> eax, zf |-> FALSE, cf |-> FALSE, refused |-> FALSE]

-----------------------------------------------------------------------------
(* The instructions.                                                       *)
Alu(s, v) == [s EXCEPT !.mem = v % M, !.zf = (v % M = 0)]
sete(s) == [s EXCEPT !.eax = IF s.zf THEN 1 ELSE 0]
setc(s) == [s EXCEPT !.eax = IF s.cf THEN 1 ELSE 0]
xor(s) == [s EXCEPT !.eax = 0, !.zf = TRUE, !.cf = FALSE]
cmpxchgl(s, value) ==
  IF s.mem = s.eax THEN [s EXCEPT !.mem = value, !.zf = TRUE]
  ELSE [s EXCEPT !.eax = s.mem, !.zf = FALSE]
btsl(s, b) == [s EXCEPT !.cf = (Bit(s.mem, b) = 1), !.mem = @ + (1 - Bit(@, b)) * 2^b]
btrl(s, b) == [s EXCEPT !.cf = (Bit(s.mem, b) = 1), !.mem = @ - Bit(@, b) * 2^b]
Refused(s) == [s EXCEPT !.refused = TRUE]

-----------------------------------------------------------------------------
(* The functions; a kuint test = 0 is in eax to begin with.                *)
katomic_get(mem) == Cpu(mem, mem)
katomic_set(mem, value) == Cpu(value, 0)
katomic_inc(mem) == Alu(Cpu(mem, 0), mem + 1)
katomic_dec(mem) == Alu(Cpu(mem, 0), mem - 1)
katomic_add(mem, value) == Alu(Cpu(mem, 0), mem + value)
katomic_sub(mem, value) == Alu(Cpu(mem, 0), mem - value)
katomic_dec_and_test(mem) == sete(Alu(Cpu(mem, 0), mem - 1))

(* Faulty variants of a definition stand before it, for mutation testing.  *)
katomic_inc_and_test_Carry(mem) == setc(Alu(Cpu(mem, 0), mem + 1))
katomic_inc_and_test(mem) == sete(Alu(Cpu(mem, 0), mem + 1))

(* A subtraction, where a comparison would leave the word alone.           *)
katomic_compare(mem, compare) == sete(Alu(Cpu(mem, 0), mem - compare))

(* xor, which clears the result, also sets the zero flag that sete reads.  *)
katomic_compare_and_set_if_equal(mem, compare, value) ==
  sete(xor(cmpxchgl(Cpu(mem, compare), value)))

katomic_mask_set(mem, mask) == Refused(Cpu(mem, 0))
katomic_mask_clear(mem, mask) == Refused(Cpu(mem, 0))
katomic_bit_get(mem, bit) == Refused(Cpu(mem, 0))
katomic_bit_set(mem, bit) == btsl(Cpu(mem, 0), bit)
katomic_bit_reset(mem, bit) == btrl(Cpu(mem, 0), bit)
katomic_bit_test_and_set(mem, bit) == setc(btsl(Cpu(mem, 0), bit))
katomic_bit_test_and_reset(mem, bit) == setc(btrl(Cpu(mem, 0), bit))

-----------------------------------------------------------------------------
(* A word after a step, and the result of a function that has one.         *)
Leaves(s, mem) == ~s.refused /\ s.mem = mem
Returns(s, test) == ~s.refused /\ s.eax = (IF test THEN 1 ELSE 0)

SetBit(n, b, v) == n - Bit(n, b) * 2^b + v * 2^b

(* The operations do what their names say to the word x and in their       *)
(* result, up to the wrap and up to the last bit, but for the five that    *)
(* the instructions get wrong: katomic_compare returns the right answer    *)
(* (and spoils the word), katomic_compare_and_set_if_equal leaves the      *)
(* right word (and returns 1), the masks and katomic_bit_get are refused.  *)
Agrees(x) ==
  \A y \in Words :
    /\ katomic_get(x).eax = x /\ Leaves(katomic_get(x), x)
    /\ Leaves(katomic_set(x, y), y)
    /\ Leaves(katomic_inc(x), IF x = M - 1 THEN 0 ELSE x + 1)
    /\ Leaves(katomic_dec(x), IF x = 0 THEN M - 1 ELSE x - 1)
    /\ Leaves(katomic_add(x, y), (x + y) % M)
    /\ Leaves(katomic_sub(katomic_add(x, y).mem, y), x)
    /\ Leaves(katomic_inc_and_test(x), katomic_inc(x).mem)
    /\ Returns(katomic_inc_and_test(x), katomic_inc(x).mem = 0)
    /\ Leaves(katomic_dec_and_test(x), katomic_dec(x).mem)
    /\ Returns(katomic_dec_and_test(x), katomic_dec(x).mem = 0)
    /\ Returns(katomic_compare(x, y), x = y)
    /\ \A v \in Words : Leaves(katomic_compare_and_set_if_equal(x, y, v), IF x = y THEN v ELSE x)
    /\ \A b \in Bits :
         /\ Leaves(katomic_bit_set(x, b), SetBit(x, b, 1))
         /\ Leaves(katomic_bit_reset(x, b), SetBit(x, b, 0))
         /\ Leaves(katomic_bit_test_and_set(x, b), SetBit(x, b, 1))
         /\ Returns(katomic_bit_test_and_set(x, b), Bit(x, b) = 1)
         /\ Leaves(katomic_bit_test_and_reset(x, b), SetBit(x, b, 0))
         /\ Returns(katomic_bit_test_and_reset(x, b), Bit(x, b) = 1)
=============================================================================

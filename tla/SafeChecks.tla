----------------------------- MODULE SafeChecks -----------------------------
(***************************************************************************)
(* The arithmetic of the safe-mode runtime: where safe_allocate puts the   *)
(* header, the user bytes and the canary inside the block it obtained, and *)
(* what the four checks compute from it.  Addresses and sizes are unsigned *)
(* words of Width bits and wrap as uintptr_t, size_t and uint64_t do; the  *)
(* references the checks are compared with are over the integers.          *)
(* Locking, the registry and the quarantine are modelled in SafeHeap.      *)
(***************************************************************************)
EXTENDS Integers

CONSTANTS
  Width,        \* bits of a word: 64 in the code
  Prefix,       \* sizeof(CgfSafePrefix)
  Header,       \* sizeof(CgfSafeHdr)
  Canary,       \* sizeof(uint64_t)
  MaxAlign      \* _Alignof(max_align_t)

M == 2^Width
Word == 0..(M - 1)
Half == M \div 2

VARIABLES
  block     \* the block under test, as prefix and header describe it;
            \* asked is history: the bytes the caller asked for

NoBlock == [state |-> "none", raw |-> 0, rawSize |-> 0, hdr |-> 0, user |-> 0,
            size |-> 0, align |-> MaxAlign, asked |-> 0]

TypeOK ==
  /\ block.state \in {"none", "live", "freed"}
  /\ \A f \in {"raw", "rawSize", "hdr", "user", "size", "align"} : block[f] \in Word
-----------------------------------------------------------------------------
(* Unsigned arithmetic that reports overflow: a result, or -1.             *)
AddOverflow(a, b) == IF a > (M - 1) - b THEN -1 ELSE a + b

MulOverflow(a, b) == IF a # 0 /\ b > (M - 1) \div a THEN -1 ELSE (a * b) % M

IsPowerOfTwo(n) == \E e \in 0..(Width - 1) : n = 2^e

(* (p + a - 1) & ~(a - 1): the mask clears the low bits of a power of two. *)
AlignUp(p, a) == LET q == (p + a - 1) % M IN q - (q % a)

AddAll(a, b) == IF a = -1 THEN -1 ELSE AddOverflow(a, b)

Total(size, align) ==
  AddAll(AddAll(AddAll(AddOverflow(Prefix, Header), align - 1), size), Canary)

(* header_valid, on a header whose magic word and back pointers are intact. *)
HeaderValid(b) ==
  /\ b.rawSize >= Prefix + Header + Canary
  /\ b.hdr >= b.raw + Prefix
  /\ b.hdr - b.raw <= b.rawSize - Header - Canary
  /\ (b.hdr + Header) % M = b.user
  /\ b.user - b.raw <= b.rawSize
  /\ b.rawSize - (b.user - b.raw) >= Canary
  /\ b.size <= b.rawSize - (b.user - b.raw) - Canary

(* The C library returns a block inside the address space, suitably        *)
(* aligned and never at address zero.                                      *)
RawBlocks(total) ==
  {raw \in 1..(M - 1) : raw % MaxAlign = 0 /\ raw + total <= M}

Allocate(size, align, asked) ==
  /\ block.state = "none"
  /\ IsPowerOfTwo(align) /\ align >= MaxAlign
  /\ Total(size, align) # -1
  /\ \E raw \in RawBlocks(Total(size, align)) :
       LET user == AlignUp((raw + Prefix + Header) % M, align)
       IN  block' = [state |-> "live", raw |-> raw, align |-> align, asked |-> asked,
                     rawSize |-> Total(size, align), size |-> size,
                     user |-> user, hdr |-> (user - Header) % M]

(* __wrap_aligned_alloc and __wrap_posix_memalign raise a small alignment. *)
AllocateAligned(size, align) ==
  /\ IsPowerOfTwo(align)
  /\ Allocate(size, IF align < MaxAlign THEN MaxAlign ELSE align, size)

(* __wrap_calloc: nothing is allocated when the product does not fit.      *)
AllocateArray(count, size) ==
  /\ MulOverflow(count, size) # -1
  /\ Allocate(MulOverflow(count, size), MaxAlign, count * size)

Free ==
  /\ block.state = "live"
  /\ block' = [block EXCEPT !.state = "freed"]

Evict ==
  /\ block.state = "freed"
  /\ block' = NoBlock

Init == block = NoBlock

Next ==
  \/ \E size \in Word, align \in Word : AllocateAligned(size, align)
  \/ \E count \in Word, size \in Word : AllocateArray(count, size)
  \/ Free
  \/ Evict

Spec == Init /\ [][Next]_block
-----------------------------------------------------------------------------
(***************************************************************************)
(* The checks.  Each is given the block find_containing_locked returned;   *)
(* TRUE means that the program goes on.                                    *)
(***************************************************************************)
Contains(b, addr) == b.state # "none" /\ addr >= b.raw /\ addr - b.raw < b.rawSize

CheckPasses(b, addr, n) ==
  \/ n = 0
  \/ /\ b.state = "live"
     /\ addr >= b.user
     /\ addr - b.user <= b.size
     /\ n <= b.size - (addr - b.user)

ValidOrigin(b, origin) == origin >= b.user /\ origin - b.user <= b.size

(* The displacement is signed: offset ranges over -Half..(Half - 1).       *)
DerivePasses(b, origin, offset, derived) ==
  /\ b.state = "live"
  /\ ValidOrigin(b, origin)
  /\ IF offset < 0 THEN -(offset + 1) + 1 <= origin - b.user
                   ELSE offset <= b.size - (origin - b.user)
  /\ derived >= b.user /\ derived - b.user <= b.size
  /\ derived = (origin + offset) % M

RoundTripPasses(b, derived) ==
  b.state = "live" /\ derived >= b.user /\ derived - b.user <= b.size

(* flags & 1: the index is subtracted; flags & 2: the index is signed.     *)
MutIndexPasses(b, origin, index, element, subtract, signed, derived) ==
  LET negative  == signed /\ index >= Half
      magnitude == IF negative THEN (M - index) % M ELSE index
      available == IF subtract THEN origin - b.user
                               ELSE b.size - (origin - b.user)
      scaled    == (index * element) % M
  IN  /\ b.state = "live"
      /\ ValidOrigin(b, origin)
      /\ element # 0
      /\ magnitude <= available \div element
      /\ derived = (origin + IF subtract THEN M - scaled ELSE scaled) % M

IndexPasses(b, origin, index, element, subtract, signed, derived) ==
  LET negative  == signed /\ index >= Half
      magnitude == IF negative THEN (M - index) % M ELSE index
      backward  == subtract # negative
      available == IF backward THEN origin - b.user
                               ELSE b.size - (origin - b.user)
      scaled    == (index * element) % M
  IN  /\ b.state = "live"
      /\ ValidOrigin(b, origin)
      /\ element # 0
      /\ magnitude <= available \div element
      /\ derived = (origin + IF subtract THEN M - scaled ELSE scaled) % M
-----------------------------------------------------------------------------
(* safe_allocate: prefix, header, user bytes and canary lie inside the     *)
(* block in that order without overlap, the user pointer has the alignment *)
(* asked for, nothing wrapped, and header_valid accepts the result.        *)
LayoutFits ==
  block.state # "none" =>
    /\ block.raw + Prefix <= block.hdr
    /\ block.hdr + Header = block.user
    /\ block.user + block.size + Canary <= block.raw + block.rawSize
    /\ block.user % block.align = 0
    /\ HeaderValid(block)

(* An array is allocated whole or not at all: the object has as many bytes *)
(* as count times size is over the integers, never a wrapped product.      *)
ArrayIsWhole == block.size = block.asked

InBlock == {a \in Word : Contains(block, a)}
Within(lo, hi) == block.user <= lo /\ hi <= block.user + block.size

(* cgf_safe_check on an address of the block passes exactly the accesses   *)
(* whose bytes all belong to the live user region, up to the largest size. *)
AccessExact ==
  \A addr \in InBlock, n \in Word :
    CheckPasses(block, addr, n)
      <=> n = 0 \/ (block.state = "live" /\ Within(addr, addr + n))

(* cgf_safe_check_derive passes exactly when the pointer and the sum over  *)
(* the integers stay within the object or one past it, and the pointer it  *)
(* is shown is that sum: a displacement that wraps the address space back  *)
(* into the object is caught.                                              *)
DeriveExact ==
  \A origin \in InBlock, offset \in (-Half)..(Half - 1) :
    LET d == (origin + offset) % M
    IN  /\ DerivePasses(block, origin, offset, d)
             <=> /\ block.state = "live"
                 /\ Within(origin, origin) /\ Within(origin + offset, origin + offset)
        /\ ~DerivePasses(block, origin, offset, (d + 1) % M)

(* cgf_safe_check_round_trip: the integer came back as a pointer into the  *)
(* object or one past it.                                                  *)
RoundTripExact ==
  \A derived \in Word :
    RoundTripPasses(block, derived)
      <=> block.state = "live" /\ Within(derived, derived)

(* cgf_safe_check_index: for every index, element size and combination of  *)
(* signedness and subtraction the check agrees with the displacement over  *)
(* the integers, including products and negations that wrap.               *)
IndexExact ==
  \A origin \in InBlock, index \in Word, element \in Word,
     subtract \in BOOLEAN, signed \in BOOLEAN :
    LET i    == IF signed /\ index >= Half THEN index - M ELSE index
        disp == (IF subtract THEN -i ELSE i) * element
    IN  IndexPasses(block, origin, index, element, subtract, signed,
                    (origin + disp) % M)
          <=> /\ block.state = "live" /\ element # 0
              /\ Within(origin, origin) /\ Within(origin + disp, origin + disp)
=============================================================================

------------------------------ MODULE PageRange ------------------------------
(***************************************************************************)
(* From a range of bytes to a range of pages.  sbma_mtouch and sbma_mevict *)
(* take every page that has a byte of the range, sbma_mclear only the      *)
(* pages that lie inside it.  addr is an offset from ate->base.            *)
(***************************************************************************)
EXTENDS Integers

CONSTANTS PageSize, NumPages,
          SizeT,     \* how many values size_t has
          MinLen     \* the shortest range the application passes

ASSUME RangeAssumption ==
  /\ PageSize \in Nat \ {0} /\ NumPages \in Nat \ {0} /\ SizeT \in Nat
  /\ MinLen \in Nat
  /\ PageSize * NumPages < SizeT

VARIABLES addr, len

Bytes == addr .. addr + len - 1
PageOf(x) == x \div PageSize

RangeInit ==
  /\ addr \in 0 .. PageSize * NumPages - 1
  /\ len \in MinLen .. PageSize * NumPages - addr

Word(x) == x % SizeT

TouchBeg == PageOf(addr)
\* The mutant forgets that the last byte is at addr+len-1.
TouchEndLate == 1 + PageOf(Word(addr + len))
TouchEnd == 1 + PageOf(Word(addr + len - 1))

\* The mutant rounds the first page down.
ClearBegFloor == PageOf(addr)
ClearBeg == IF addr = 0 THEN 0 ELSE 1 + PageOf(addr - 1)
ClearEnd == PageOf(addr + len)

\* A touched or evicted range is exactly the pages that hold one of its bytes.
TouchExact == TouchBeg .. TouchEnd - 1 = {PageOf(x) : x \in Bytes}

\* A cleared range is exactly the pages that hold no byte outside of it: what
\* the application has on the same page next to the range is not lost.
ClearInside ==
  ClearBeg .. ClearEnd - 1 =
    {g \in 0 .. NumPages - 1 : g * PageSize .. (g + 1) * PageSize - 1 \subseteq Bytes}

\* The pages of a touch are pages of the allocation.
TouchWithin == TouchEnd <= NumPages

==============================================================================

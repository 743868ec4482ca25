-------------------------------- MODULE Bitmap --------------------------------
(***************************************************************************)
(* The bitmap of lib/bitmap.c, which says what pages are taken.  A bit is  *)
(* TRUE when its page is taken, and every caller allocates bits that are   *)
(* FALSE and gives back by setting them to FALSE.                          *)
(*                                                                         *)
(* A definition X_How is X with a plausible slip in it; nothing uses it.   *)
(***************************************************************************)
EXTENDS Integers

CONSTANTS
    BitSize,    \* bitmap->bit_size
    RunSizes       \* how many bits callers ask for

ASSUME BitmapAssumption ==
    /\ BitSize \in Nat \ {0}
    /\ RunSizes \subseteq Nat \ {0}

VARIABLES
    bits,       \* bitmap->bits
    last        \* the last call and what it returned

bitVars == <<bits, last>>

Index == 0..BitSize-1

BitsTypeOK ==
    /\ bits \in [Index -> BOOLEAN]
    /\ last \in [call : {"none", "alloc", "set"}, size : Nat, index : Index \cup {-1}]

------------------------------------------------------------------------------
\* bitmap_set_bits; it stops at the end of the map.
SetBits_OneMore(b, index, size, value) ==
    [i \in Index |-> IF i \in index..index+size THEN value ELSE b[i]]
SetBits(b, index, size, value) ==
    [i \in Index |-> IF i \in index..index+size-1 THEN value ELSE b[i]]

\* The inner loop of bitmap_alloc_bits looks at the first bit of the run, which
\* it knows to be free, once more, and never at the last.
LookedAt_OneLess(s, size) == s..s+size-3
LookedAt(s, size) == s..s+size-2

NotFound_WhereItStopped == BitSize
NotFound == -1

\* The outer loop, from bit s on.  A run that the end of the map cuts off is
\* returned all the same, but not marked.
Run(b, size) ==
    LET scan[s \in 0..BitSize] ==
            LET inMap == LookedAt(s, size) \cap Index
                taken == {i \in inMap : b[i]}
            IN  IF s = BitSize THEN [index |-> NotFound, mark |-> FALSE]
                ELSE IF b[s] THEN scan[s + 1]
                ELSE IF taken # {}
                THEN scan[1 + CHOOSE i \in taken : \A j \in taken : i <= j]
                ELSE [index |-> s, mark |-> inMap = LookedAt(s, size)]
    IN  scan[0]

AllocBits(size) ==
    LET run == Run(bits, size)
    IN  /\ bits' = IF run.mark THEN SetBits(bits, run.index, size, TRUE) ELSE bits
        /\ last' = [call |-> "alloc", size |-> size, index |-> run.index]

\* memory32_free_page.
FreeBits(index, size) ==
    /\ bits' = SetBits(bits, index, size, FALSE)
    /\ last' = [call |-> "set", size |-> size, index |-> index]

BitsInit ==
    /\ bits = [i \in Index |-> FALSE]
    /\ last = [call |-> "none", size |-> 0, index |-> -1]

BitsNext ==
    \/ \E size \in RunSizes : AllocBits(size)
    \/ \E index \in Index, size \in RunSizes : FreeBits(index, size)

BitsSpec == BitsInit /\ [][BitsNext]_bitVars

------------------------------------------------------------------------------
Free(b, from, size) == \A i \in from..from+size-1 : i \in Index /\ ~b[i]
Allocates(size) == last'.call = "alloc" /\ last'.size = size

\* A page asked for by itself, as all of fork, execve and the page tables do,
\* is the lowest free one, and nothing else changes; there is none only when
\* all are taken.
OnePageIsFirstFit ==
    [][Allocates(1) =>
          IF \A i \in Index : bits[i]
          THEN last'.index = -1 /\ bits' = bits
          ELSE LET r == last'.index
               IN  /\ ~bits[r] /\ \A i \in 0..r-1 : bits[i]
                   /\ bits' = [bits EXCEPT ![r] = TRUE]]_bitVars

\* Of a longer run, all bits but the last were free unless the map ends first,
\* and a run that is there is never missed.
OnlyTheEndIsUnchecked ==
    [][\A n \in RunSizes : n > 1 /\ Allocates(n) =>
          IF last'.index = -1
          THEN \A i \in Index : ~Free(bits, i, n)
          ELSE \A i \in last'.index..last'.index+n-2 : i \in Index => ~bits[i]]_bitVars

\* bitmap.c:12: "分配连续size个值为value的位", the bits that are allocated all
\* had the value asked for.
RunWasFree ==
    [][\A n \in RunSizes : Allocates(n) /\ last'.index # -1 =>
          Free(bits, last'.index, n)]_bitVars
==============================================================================

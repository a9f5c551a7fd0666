---------------------------- MODULE PageContract ----------------------------
(***************************************************************************)
(* Pages of a list under a byte budget (runtime/api/pagination), and the   *)
(* client's walk over them (app-shell/src/app-client.ts).  An item is its  *)
(* serialized size; an envelope costs a fixed part and its items' sizes.   *)
(***************************************************************************)
EXTENDS Naturals, Sequences, FiniteSetsExt, SequencesExt

CONSTANTS
    Budget,     \* the byte limit of one envelope
    Overhead,   \* the bytes of an envelope without items
    NoSize      \* no requested size: it is left to the budget

ASSUME PageAssumption == Budget \in Nat /\ Overhead \in Nat

\* pageOf: `count` items from `offset` on, less where the list ends.
pageOf(items, offset, count) ==
    SubSeq(items, offset + 1, IF offset + count < Len(items) THEN offset + count ELSE Len(items))

envelopeBytes(items) == FoldLeft(LAMBDA bytes, size : bytes + size, Overhead, items)

fitsBudget(items) == envelopeBytes(items) <= Budget

\* Mutant: the search answers the size it found too large.
largestFittingCountHigh(items, offset, ceiling) ==
    LET search[lo \in 1 .. ceiling, hi \in 1 .. ceiling] ==
            IF hi - lo <= 1 THEN hi
            ELSE LET mid == lo + ((hi - lo) \div 2)
                 IN  IF fitsBudget(pageOf(items, offset, mid))
                     THEN search[mid, hi] ELSE search[lo, mid]
    IN  IF fitsBudget(pageOf(items, offset, ceiling)) THEN ceiling ELSE search[1, ceiling]

\* The bisection: `lo` fits and `hi` does not.
largestFittingCount(items, offset, ceiling) ==
    LET search[lo \in 1 .. ceiling, hi \in 1 .. ceiling] ==
            IF hi - lo <= 1 THEN lo
            ELSE LET mid == lo + ((hi - lo) \div 2)
                 IN  IF fitsBudget(pageOf(items, offset, mid))
                     THEN search[mid, hi] ELSE search[lo, mid]
    IN  IF fitsBudget(pageOf(items, offset, ceiling)) THEN ceiling ELSE search[1, ceiling]

refused(reason) == [kind |-> "refused", reason |-> reason, items |-> <<>>, continuation |-> 0]

\* continuation 0 stands for null: a page of at least one item never continues there.
page(items, offset, count) ==
    [kind |-> "page", reason |-> "none", items |-> pageOf(items, offset, count),
     continuation |-> IF offset + count < Len(items) THEN offset + count ELSE 0]

\* A size below one asks for one item.
Ceiling(requested, available) ==
    IF requested = NoSize THEN available ELSE Min({Max({1, requested}), available})

boundedPage(items, offset, requested) ==
    LET available == Len(items) - offset
    IN  IF ~fitsBudget(<<>>) /\ (offset >= Len(items) \/ ~fitsBudget(pageOf(items, offset, 1)))
        THEN refused("empty-envelope-over-budget")
        ELSE IF offset >= Len(items) THEN page(items, offset, 0)
        ELSE IF ~fitsBudget(pageOf(items, offset, 1)) THEN refused("single-item-over-budget")
        ELSE page(items, offset,
                  IF Ceiling(requested, available) = 1 THEN 1
                  ELSE largestFittingCount(items, offset, Ceiling(requested, available)))

=============================================================================

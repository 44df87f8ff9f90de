---------------------------- MODULE BufferIndex ----------------------------
(***************************************************************************)
(* The index arithmetic of io::util::bipartite_buffer: what each method    *)
(* computes from the read index r, the write index w and the invalidation  *)
(* index i of a buffer of Size elements, apart from the memory it touches. *)
(*                                                                         *)
(* The unread elements are r..w-1 when r <= w; after the writer has gone   *)
(* back to the start of the array they are r..i-1 followed by 0..w-1.      *)
(***************************************************************************)
EXTENDS Integers

CONSTANT Size   \* the template parameter `size`

\* static_assert(size > 2, "Buffer size must be bigger than 2")
ASSUME SizeAssumption == Size \in Nat /\ Size > 2

Index == 0 .. (Size - 1)
Bound == 0 .. Size

\* _calc_free: the elements that can still be written; one is always kept
\* free so that r = w means empty.
CalcFreeAll(w, r) == IF r > w THEN r - w ELSE Size - (w - r)   \* mutant: all usable
CalcFree(w, r) == IF r > w THEN (r - w) - 1 ELSE (Size - (w - r)) - 1

LinearFree(w, r) == LET free == CalcFree(w, r)
                        linear_space == Size - w
                    IN  IF free <= linear_space THEN free ELSE linear_space

\* The three outcomes of write_acquire(n): the space at w, the space at the
\* start of the array (which sets _write_wrapped), or nullptr.
FitsAnywhere(n, w, r) == n <= CalcFree(w, r)   \* mutant: the end is ignored
FitsAtW(n, w, r)     == n <= LinearFree(w, r)
FitsAtStartStrictly(n, w, r) ==   \* mutant: off by one
  ~FitsAtW(n, w, r) /\ n < CalcFree(w, r) - LinearFree(w, r)
FitsAtStart(n, w, r) == ~FitsAtW(n, w, r) /\ n <= CalcFree(w, r) - LinearFree(w, r)
Refused(n, w, r)     == ~FitsAtW(n, w, r) /\ ~FitsAtStart(n, w, r)

\* write_release(n): where the written elements end, the invalidation index
\* and the write index it stores.
WriteEnd(n, w, wrapped) == (IF wrapped THEN 0 ELSE w) + n

NewI(n, w, i, wrapped) == LET base == IF wrapped THEN w ELSE i
                              end  == WriteEnd(n, w, wrapped)
                          IN  IF end > base THEN end ELSE base

NewWUnwrapped(n, w, wrapped) == WriteEnd(n, w, wrapped)   \* mutant: no wrap

NewW(n, w, wrapped) == IF WriteEnd(n, w, wrapped) = Size THEN 0
                                                         ELSE WriteEnd(n, w, wrapped)

\* read_acquire: the linear run it hands out starts at r, or at 0 when the
\* reader has reached the invalidation index (which sets _read_wrapped).
ReadsAtStart(r, w, i) == r > w /\ r = i
ReadLen(r, w, i) == CASE r <= w          -> w - r
                      [] r > w /\ r = i -> w
                      [] r > w /\ r # i -> i - r

\* read_release(n): where the elements read end and the read index it stores.
ReadEnd(n, r, wrapped) == (IF wrapped THEN 0 ELSE r) + n

NewR(n, r, wrapped) == IF ReadEnd(n, r, wrapped) = Size THEN 0
                                                        ELSE ReadEnd(n, r, wrapped)

\* The number of unread elements.
Used(r, w, i) == IF r <= w THEN w - r ELSE (i - r) + w
=============================================================================

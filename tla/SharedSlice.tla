---------------------------- MODULE SharedSlice ----------------------------
(***************************************************************************)
(* A Go slice in a field that goroutines replace and read without a lock.  *)
(* The field is an array and a length, stored one word after the other in  *)
(* an order the compiler chooses.  A reader in between sees the array of   *)
(* one slice with the length of another: a part of it, or memory past it.  *)
(***************************************************************************)
EXTENDS Sequences, Naturals

Words == {"arr", "len"}

Slice(s) == [arr |-> s, len |-> Len(s)]
Nil      == Slice(<<>>)

\* The field v after one word of the slice s is stored in it.
StoreWord(v, w, s) ==
    IF w = "arr" THEN [v EXCEPT !.arr = s] ELSE [v EXCEPT !.len = Len(s)]

OtherWord(w) == IF w = "arr" THEN "len" ELSE "arr"

\* Ranging over v reads past its array.
Torn(v) == v.len > Len(v.arr)

Elems(v) == SubSeq(v.arr, 1, v.len)
=============================================================================

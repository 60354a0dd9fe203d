----------------------------- MODULE ByteSpans -----------------------------
(***************************************************************************)
(* The C idioms on byte buffers that every other module leans on.  A       *)
(* buffer is a sequence, a pointer into it a 0-based offset, as in C.      *)
(***************************************************************************)
EXTENDS Naturals, Sequences

\* The n bytes at &s[from].
Span(s, from, n) == [k \in 1 .. n |-> s[from + k]]

Longer(a, b) == IF a < b THEN b ELSE a

(***************************************************************************)
(* memcpy(&buf[at], bytes, Len(bytes)).  A copy that runs past the end of  *)
(* the buffer is not cut off: the result is longer than what was           *)
(* allocated, so that an invariant on lengths sees the overrun.            *)
(***************************************************************************)
Patch(buf, at, bytes) ==
  [k \in 1 .. Longer(Len(buf), at + Len(bytes)) |->
     IF at < k /\ k <= at + Len(bytes) THEN bytes[k - at] ELSE buf[k]]
=============================================================================

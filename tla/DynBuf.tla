------------------------------- MODULE DynBuf -------------------------------
(***************************************************************************)
(* The growing buffer of dynbuf.c: a block of memory that the decoders     *)
(* append to, and that may move when it grows.  What is in the block moves *)
(* with it, so the model keeps only its address and sizes, in cells: a     *)
(* cell stands for one structure or one element.                           *)
(*                                                                         *)
(* Two kinds of pointers into the block have to follow it: those that the  *)
(* owner recorded, which its callback shifts, and those in the locals of   *)
(* the functions that are decoding, which each refreshes after a call.     *)
(***************************************************************************)
EXTENDS Integers

CONSTANTS
  Bases,   \* the addresses that malloc and realloc may return
  Start,   \* the size of a new buffer
  Slack    \* what realloc asks for beyond the size needed

ASSUME BasesAssumption == Bases \subseteq Nat \ {0}
ASSUME SizesAssumption == Start \in Nat /\ Slack \in Nat

NULL == 0

Buffers == [data : Bases \cup {NULL}, size : Nat, maxsize : Nat]

\* Before dynbuf_create, and after dynbuf_free.
NoBuffer == [data |-> NULL, size |-> 0, maxsize |-> 0]

\* dynbuf_create
Created == {[data |-> b, size |-> 0, maxsize |-> Start] : b \in Bases}

\* Mutant: the space that is left is taken for one more.
Bug_Fits(buf, n) == n <= buf.maxsize - buf.size + 1

\* dynbuf_append of n cells, when realloc does not fail: they are added at the
\* end, in place if they fit, or in a larger block at some address.
Fits(buf, n)     == n <= buf.maxsize - buf.size
Appended(buf, n) ==
  IF Fits(buf, n)
    THEN {[buf EXCEPT !.size = @ + n]}
    ELSE {[data |-> b, size |-> buf.size + n,
           maxsize |-> buf.size + n + Slack] : b \in Bases}

\* ... and the pointer it returns.
End(buf, new) == new.data + buf.size

\* dynbuf_clear: the block is kept.
Cleared(buf) == [buf EXCEPT !.size = 0]

\* adjust_ptr_offset under its test for NULL, in the callbacks.
Shift(p, offset) == IF p = NULL THEN NULL ELSE p + offset

\* dynbuf_adjust_begin remembers where the buffer was when a local pointer was
\* right; dynbuf_adjust_update moves the pointer as far as the buffer has moved.
Begin(p, buf)    == [ptr |-> p, prev |-> buf.data]
Update(ctx, buf) ==
  IF ctx.prev # buf.data /\ ctx.ptr # NULL
    THEN [ptr |-> ctx.ptr + (buf.data - ctx.prev), prev |-> buf.data]
    ELSE ctx

\* n cells from p on are inside the part of the buffer that is in use.
Inside(buf, p, n) == buf.data <= p /\ p + n <= buf.data + buf.size
=============================================================================

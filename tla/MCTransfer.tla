----------------------------- MODULE MCTransfer -----------------------------
(* Transfer with ranges around the sizes where the buffer is full. *)
EXTENDS Transfer

FileRanges == {<<1>>, <<5>>, <<6>>, <<11>>, <<1, 9>>, <<3, 6>>, <<4, 1>>, <<5, 5>>,
               <<6, 1>>}
=============================================================================

----------------------------- MODULE ByteQueue ------------------------------
(***************************************************************************)
(* What a Buffer promises: a queue of bytes.  Bytes are appended at the    *)
(* end and retrieved from the front, a header may be prepended, and what   *)
(* was appended last may be taken back; nothing else touches them.         *)
(***************************************************************************)
EXTENDS Sequences

VARIABLES content, call     \* call: the last operation and the bytes it moved

Init == content = <<>>

Append_   == call'.op = "append"   /\ content' = content \o call'.bytes
Prepend   == call'.op = "prepend"  /\ content' = call'.bytes \o content
Retrieve  == call'.op = "retrieve" /\ content = call'.bytes \o content'
Unwrite   == call'.op = "unwrite"  /\ content = content' \o call'.bytes
Rearrange == call'.op = "rearrange" /\ content' = content

Next == Append_ \/ Prepend \/ Retrieve \/ Unwrite \/ Rearrange

Spec == Init /\ [][Next]_<<content, call>>

=============================================================================

------------------------------ MODULE ByteQueue ------------------------------
(***************************************************************************)
(* What a Buffer promises to its users: a queue of bytes.  Bytes are put   *)
(* in at the back and taken out at the front, and neither lost, repeated,  *)
(* changed nor reordered on the way, whatever the Buffer does with its     *)
(* memory.                                                                 *)
(***************************************************************************)
EXTENDS Naturals, Sequences

CONSTANT Strings     \* the byte strings a call may carry

VARIABLES
  content,  \* the bytes in the queue, oldest first
  carried   \* the bytes the last call carried, in or out

vars == <<content, carried>>

Front(n) == SubSeq(content, 1, n)
Rest(n) == SubSeq(content, n + 1, Len(content))

Init ==
  /\ content = <<>>
  /\ carried = <<>>

\* append(), or what readFd() got from the descriptor.
Put(data) ==
  /\ content' = content \o data
  /\ carried' = data

\* retrieve(): the front is dropped.
Drop(n) ==
  /\ content' = Rest(n)
  /\ carried' = <<>>

\* retrieveAsString(): the front is handed out and dropped.
Take(n) ==
  /\ carried' = Front(n)
  /\ content' = Rest(n)

\* writeFd(): the front is handed to the kernel and stays.
Show(n) ==
  /\ carried' = Front(n)
  /\ UNCHANGED content

Next ==
  \/ \E data \in Strings : Put(data)
  \/ \E n \in 0 .. Len(content) : Drop(n) \/ Take(n) \/ Show(n)

Spec == Init /\ [][Next]_vars
==============================================================================

------------------------------ MODULE ByteQueue ------------------------------
(***************************************************************************)
(* What a Buffer promises: a queue of bytes.  Bytes are put at the back    *)
(* and taken from the front, and what a reader sees is what was put.       *)
(***************************************************************************)
EXTENDS Naturals, Sequences

CONSTANTS
  Strings,   \* the byte strings that may be put
  Lengths    \* the lengths that may be asked for

VARIABLES
  content,   \* the bytes in the queue
  seen       \* the bytes the last read returned

Init == content = <<>> /\ seen = <<>>

Put(data) ==
  /\ content' = content \o data
  /\ UNCHANGED seen

\* Taking more than there is takes everything.
Rest(len) == SubSeq(content, len + 1, Len(content))

Drop(len) ==
  /\ content' = Rest(len)
  /\ UNCHANGED seen

Look(len) ==
  /\ len <= Len(content)
  /\ seen' = SubSeq(content, 1, len)
  /\ UNCHANGED content

Take(len) ==
  /\ len <= Len(content)
  /\ seen' = SubSeq(content, 1, len)
  /\ content' = Rest(len)

Next ==
  \/ \E data \in Strings : Put(data)
  \/ \E len \in Lengths : Drop(len) \/ Look(len) \/ Take(len)
  \/ Take(Len(content))
  \/ Drop(Len(content))

Spec == Init /\ [][Next]_<<content, seen>>
=============================================================================

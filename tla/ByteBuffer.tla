----------------------------- MODULE ByteBuffer -----------------------------
(***************************************************************************)
(* What a ByteArray promises (Helens/bytearray.h): a sequence of bytes and *)
(* a position.  A transfer moves the position over what it has written or  *)
(* read; a position behind the end makes the sequence longer by bytes that *)
(* nobody has written.  ReadNothing is what it should not do, and may.     *)
(***************************************************************************)
EXTENDS Naturals, Sequences

VARIABLES
  bytes,
  position,
  moved,        \* the bytes of the last transfer, in their order
  crashed       \* the program has ended in an operation

Init == bytes = <<>> /\ position = 0 /\ moved = <<>> /\ crashed = FALSE

Longer(n) == Len(bytes') = IF n > Len(bytes) THEN n ELSE Len(bytes)

Write ==
  /\ position' = position + Len(moved')
  /\ Longer(position')
  /\ \A i \in 1..Len(bytes') :
       bytes'[i] = IF i \in (position + 1)..position' THEN moved'[i - position] ELSE bytes[i]

Read ==
  /\ position' = position + Len(moved') /\ position' <= Len(bytes)
  /\ moved' = SubSeq(bytes, position + 1, position')
  /\ bytes' = bytes

SetPosition ==
  /\ moved' = <<>>
  /\ Longer(position')
  /\ SubSeq(bytes', 1, Len(bytes)) = bytes

Clear == bytes' = <<>> /\ position' = 0 /\ moved' = <<>>

\* nothing is left, and nothing is asked for: for more, read() throws
ReadNothing ==
  /\ position = Len(bytes)
  /\ crashed'
  /\ UNCHANGED <<bytes, position, moved>>

Next ==
  /\ ~crashed
  /\ \/ (Write \/ Read \/ SetPosition \/ Clear) /\ ~crashed'
     \/ ReadNothing

Spec == Init /\ [][Next]_<<bytes, position, moved, crashed>>

=============================================================================

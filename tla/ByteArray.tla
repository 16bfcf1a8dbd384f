------------------------------ MODULE ByteArray ------------------------------
(***************************************************************************)
(* ByteArray of Helens/bytearray.cc: a list of nodes of m_baseSize bytes,  *)
(* with m_position in the bytes of all of them and m_cur at the node it is *)
(* in, which is null behind the last one.  Every operation keeps the two   *)
(* in step on its own; the loops over the nodes are given by what they do. *)
(* An operation that looks at a node begins with m_cur->size; following a  *)
(* null m_cur ends the program.                                            *)
(***************************************************************************)
EXTENDS Integers, Sequences

CONSTANTS
  BaseSize,     \* m_baseSize
  Byte,
  MaxNodes,     \* bound on the nodes
  MaxLength     \* bound on the bytes of a transfer

VARIABLES
  m_position, m_size, m_cur,
  nodes,        \* from m_root on
  moved,        \* the bytes of the last transfer
  crashed       \* a null m_cur was followed

vars == <<m_position, m_size, m_cur, nodes, moved, crashed>>

nullptr == 0
Places == 0..(BaseSize - 1)
Data == UNION {[1..n -> Byte] : n \in 0..MaxLength}

Init ==
  /\ m_position = 0 /\ m_size = 0 /\ m_cur = 1
  /\ nodes \in [1..1 -> {[p \in Places |-> b] : b \in Byte}]
  /\ moved = <<>> /\ crashed = FALSE

m_capacity == BaseSize * Len(nodes)
getCapacity == m_capacity - m_position
getReadSize == m_size - m_position
npos == m_position % BaseSize

Max(a, b) == IF a > b THEN a ELSE b

\* the node that n bytes after the beginning of node cur belong to
After(count, cur, n) ==
  LET i == cur + n \div BaseSize IN IF i > count THEN nullptr ELSE i

\* the number of nodes once size bytes fit behind the position
addCapacity(size) ==
  IF getCapacity >= size THEN Len(nodes)
  ELSE Len(nodes) + (size - getCapacity + BaseSize - 1) \div BaseSize

\* ... which are new and hold what was in the memory
Grown(count, b) ==
  [i \in 1..count |-> IF i <= Len(nodes) THEN nodes[i] ELSE [p \in Places |-> b]]

\* the first of them, if m_cur was null
Cur == IF getCapacity = 0 THEN Len(nodes) + 1 ELSE m_cur

\* data from place npos of node cur on
Stored(ns, cur, data) ==
  [i \in DOMAIN ns |-> [p \in Places |->
     LET k == (i - cur) * BaseSize + p - npos + 1
     IN  IF k \in DOMAIN data THEN data[k] ELSE ns[i][p]]]

Fetched(n) ==
  [k \in 1..n |-> nodes[m_cur + (npos + k - 1) \div BaseSize][(npos + k - 1) % BaseSize]]

-----------------------------------------------------------------------------

\* returns at once when there is nothing to write
write(data) ==
  LET count == addCapacity(Len(data))
  IN  /\ count <= MaxNodes
      /\ \E b \in Byte : nodes' = Stored(Grown(count, b), Cur, data)
      /\ m_cur' = After(count, Cur, npos + Len(data))
      /\ m_position' = m_position + Len(data)
      /\ m_size' = Max(m_size, m_position')
      /\ moved' = data
      /\ crashed' = (data # <<>> /\ Cur = nullptr)

\* mutant: m_cur stays at a node that was read to its end
readStays(n) ==
  /\ n <= getReadSize
  /\ \/ /\ m_cur # nullptr \/ n = 0
        /\ moved' = Fetched(n)
        /\ m_cur' = After(Len(nodes), m_cur, npos + Max(n - 1, 0))
        /\ m_position' = m_position + n
        /\ crashed' = FALSE
     \/ /\ m_cur = nullptr
        /\ crashed' = TRUE
        /\ UNCHANGED <<moved, m_cur, m_position>>
  /\ UNCHANGED <<m_size, nodes>>

\* throws when there are fewer bytes; looks at m_cur->size also when n = 0,
\* where the compiler may leave that out, as nothing is done with it
read(n) ==
  /\ n <= getReadSize
  /\ \/ /\ m_cur # nullptr \/ n = 0
        /\ moved' = Fetched(n)
        /\ m_cur' = After(Len(nodes), m_cur, npos + n)
        /\ m_position' = m_position + n
        /\ crashed' = FALSE
     \/ /\ m_cur = nullptr
        /\ crashed' = TRUE
        /\ UNCHANGED <<moved, m_cur, m_position>>
  /\ UNCHANGED <<m_size, nodes>>

\* from the root on; throws behind the capacity
SetPosition(v, count) ==
  /\ m_position' = v
  /\ m_size' = Max(m_size, v)
  /\ m_cur' = After(count, 1, v)

setPosition(v) ==
  /\ v <= m_capacity
  /\ SetPosition(v, Len(nodes))
  /\ moved' = <<>>
  /\ UNCHANGED <<nodes, crashed>>

clear ==
  /\ m_position' = 0 /\ m_size' = 0 /\ m_cur' = 1
  /\ nodes' = <<nodes[1]>>
  /\ moved' = <<>>
  /\ UNCHANGED crashed

-----------------------------------------------------------------------------
(* SocketStream::read and write: the buffers of getWriteBuffers(length) and
   getReadBuffers(length) go to the socket, which may fill or send a part of
   them only, or nothing; the position is moved only if it did something    *)

receive(length, data) ==
  LET count == addCapacity(length)
  IN  /\ count <= MaxNodes /\ Len(data) \in 1..length
      /\ \E b \in Byte : nodes' = Stored(Grown(count, b), Cur, data)
      /\ SetPosition(m_position + Len(data), count)
      /\ moved' = data
      /\ crashed' = (Cur = nullptr)

\* getWriteBuffers(0) returns at once
receiveFails(length) ==
  LET count == addCapacity(length)
  IN  /\ count <= MaxNodes
      /\ \E b \in Byte : nodes' = Grown(count, b)
      /\ m_cur' = (IF length = 0 THEN m_cur ELSE Cur)
      /\ crashed' = (length # 0 /\ Cur = nullptr)
      /\ UNCHANGED <<m_position, m_size, moved>>

\* getReadBuffers returns at once when there is nothing to send
send(n) ==
  /\ n <= getReadSize
  /\ moved' = Fetched(n)
  /\ SetPosition(m_position + n, Len(nodes))
  /\ crashed' = (m_cur = nullptr)
  /\ UNCHANGED nodes

Operation ==
  \/ \E data \in Data : write(data) \/ \E length \in 1..MaxLength : receive(length, data)
  \/ \E n \in 0..MaxLength : read(n) \/ receiveFails(n)
  \/ \E n \in 1..MaxLength : send(n)
  \/ \E v \in 0..m_capacity : setPosition(v)
  \/ clear

Next == ~crashed /\ Operation

Spec == Init /\ [][Next]_vars

-----------------------------------------------------------------------------
(* Properties                                                              *)

Buffer == INSTANCE ByteBuffer WITH
  bytes    <- [i \in 1..m_size |-> nodes[1 + (i - 1) \div BaseSize][(i - 1) % BaseSize]],
  position <- m_position

(* The list of nodes is one sequence of bytes: whatever the order of writes,
   reads, partial transfers of a socket, positions set and clear(), a transfer
   concerns the bytes from the position on, and all the others stay, also at
   the borders of nodes and where the capacity ends.  A null m_cur is
   followed by one operation only, see ReadNothing in ByteBuffer: a read of no
   bytes where none are left.                                              *)
ImplementsBuffer == Buffer!Spec

=============================================================================

------------------------- MODULE AsioBuffersProofs -------------------------
(***************************************************************************)
(* Theorems about AsioBuffers, for any number of channels and every list of *)
(* active ones.                                                             *)
(***************************************************************************)
EXTENDS AsioBuffers, TLAPS

\* The shape of the buffers, which no step changes.
Shape ==
  /\ inMap \in Maps
  /\ outMap \in Maps
  /\ DOMAIN in = DOMAIN inMap
  /\ DOMAIN out = DOMAIN outMap
  /\ \A k \in DOMAIN outMap : DOMAIN out[k] = OutputBlocks
  /\ turn \in {0, 1}

\* Half 0 of the inputs is that of the outputs from one copy of it to the next
\* writing of it: also while the host and the kernel are at half 1.
LoopInv == Shape /\ (turn = 1 => Loops(0))

-----------------------------------------------------------------------------
(* The kernel's table.                                                      *)

\* A list of active channels is a function on a prefix of the channels, and no
\* channel is on it twice.
LEMMA MapFacts ==
  ASSUME NEW map \in Maps
  PROVE  /\ DOMAIN map \subseteq Channels
         /\ \A i \in DOMAIN map : map[i] \in Channels
         /\ \A i, j \in DOMAIN map : map[i] = map[j] => i = j
<1>1. PICK n \in 0 .. MaxChannels :
        /\ map \in [0 .. n - 1 -> Channels]
        /\ \A i, j \in 0 .. n - 1 : i # j => map[i] # map[j]
      BY DEF Maps
<1>2. n - 1 <= MaxChannels - 1
      BY <1>1, BuffersAssumption
<1> QED BY <1>1, <1>2, BuffersAssumption DEF Channels

\* An entry of the table of a channel that is active is that channel's buffer.
LEMMA TableFinds ==
  ASSUME NEW map \in Maps, NEW j \in DOMAIN map, map[j] \in DOMAIN map
  PROVE  /\ Table(map)[map[j]] = j
         /\ Table(map)[map[j]] # Nil
<1>1. \A i \in DOMAIN map : map[i] = map[j] => i = j
      BY MapFacts
<1>2. Table(map)[map[j]] = CHOOSE i \in DOMAIN map : map[i] = map[j]
      BY DEF Table
<1>3. (CHOOSE i \in DOMAIN map : map[i] = map[j]) = j
      BY <1>1
<1>4. j # Nil
      BY MapFacts, NilIsNoBuffer
<1> QED BY <1>2, <1>3, <1>4

\* An entry that is a buffer is the buffer of the channel of that number.
LEMMA TableIsOfItsChannel ==
  ASSUME NEW map \in Maps, NEW i \in DOMAIN map, NEW j \in DOMAIN map, Table(map)[i] = j
  PROVE  map[j] = i
<1>1. j # Nil
      BY MapFacts, NilIsNoBuffer
<1>2. Table(map)[i] = IF \E b \in DOMAIN map : map[b] = i
                      THEN CHOOSE b \in DOMAIN map : map[b] = i
                      ELSE Nil
      BY DEF Table
<1>3. \E b \in DOMAIN map : map[b] = i
      BY <1>1, <1>2
<1> QED BY <1>2, <1>3

-----------------------------------------------------------------------------
LEMMA LoopInit == Init => LoopInv
<1> SUFFICES ASSUME Init PROVE LoopInv
    OBVIOUS
<1>1. Shape
      BY DEF Init, Shape
<1>2. Loops(0)
      BY DEF Init, Loops, HostHalf, InputBlocks, OutputBlocks
<1> QED BY <1>1, <1>2 DEF LoopInv

\* The host writes one half of each output and leaves the other as it is.
LEMMA LoopSwitch ==
  ASSUME LoopInv, BufferSwitch
  PROVE  LoopInv'
<1>1. \A k \in DOMAIN outMap :
        /\ DOMAIN out'[k] = OutputBlocks
        /\ turn = 1 => out'[k][0] = out[k][0]
      BY DEF LoopInv, Shape, BufferSwitch, HostHalf, OutputBlocks
<1>2. UNCHANGED <<inMap, outMap, in, turn>> /\ DOMAIN out' = DOMAIN outMap
      BY DEF BufferSwitch
<1>3. Shape'
      BY <1>1, <1>2 DEF LoopInv, Shape
<1>4. turn = 1 => Loops(0)'
      BY <1>1, <1>2 DEF LoopInv, Loops, Seen, HostHalf
<1> QED BY <1>2, <1>3, <1>4 DEF LoopInv

\* The copy of half 0 gives every channel the kernel sees its own output; that
\* of half 1 is taken for another block, and half 0 is as it was.
LEMMA LoopCopy ==
  ASSUME LoopInv, AsioBufReady
  PROVE  LoopInv'
<1>1. /\ UNCHANGED <<inMap, outMap, out>>
      /\ turn' = 1 - turn
      /\ DOMAIN in' = DOMAIN inMap
      BY DEF AsioBufReady
<1>2. Shape'
      BY <1>1 DEF LoopInv, Shape
<1>3. ASSUME turn = 0 PROVE Loops(0)'
  <2> SUFFICES ASSUME NEW j \in DOMAIN inMap, NEW k \in DOMAIN outMap,
                      inMap[j] = outMap[k], inMap[j] \in Seen
               PROVE  in'[j][0] = out[k][0]
      BY <1>1 DEF Loops, Seen, HostHalf
  <2> DEFINE c == inMap[j]
  <2>1. Table(inMap)[c] = j /\ j # Nil /\ Table(outMap)[c] = k /\ k # Nil
        BY TableFinds DEF LoopInv, Shape, Seen
  <2>2. c \in EntryOf(j)
        BY <2>1 DEF EntryOf, Paired, Seen
  <2>3. ASSUME NEW i \in EntryOf(j) PROVE i = c
        BY TableIsOfItsChannel DEF EntryOf, Paired, LoopInv, Shape
  <2>4. (CHOOSE i \in EntryOf(j) : TRUE) = c
        BY <2>2, <2>3
  <2>5. in'[j][0] = out[Table(outMap)[CHOOSE i \in EntryOf(j) : TRUE]][0]
        BY <1>3, <2>2 DEF AsioBufReady, KernelHalf, InputBlocks
  <2> QED BY <2>1, <2>4, <2>5
<1> QED BY <1>1, <1>2, <1>3 DEF LoopInv, Shape

\* In half 0 of the double buffer the host reads back on every channel the
\* kernel sees what it wrote there, whichever channels it listed, how many and
\* in what order (asiosmpl.cpp, createBuffers; ASIO.c, AsioBufReady).
THEOREM FirstHalfLoopsBack == Spec => []FirstHalfLoops
<1>1. LoopInv /\ [Next]_vars => LoopInv'
  <2>1. CASE UNCHANGED vars
        BY <2>1 DEF vars, LoopInv, Shape, Loops, Seen
  <2> QED BY <2>1, LoopSwitch, LoopCopy DEF Next
<1>2. LoopInv => FirstHalfLoops
      BY DEF LoopInv, FirstHalfLoops
<1> QED BY LoopInit, <1>1, <1>2, PTL DEF Spec
=============================================================================

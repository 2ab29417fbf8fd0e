---------------------------- MODULE AsioBuffers ----------------------------
(***************************************************************************)
(* The audio memory of the virtual ASIO device.  createBuffers() allocates  *)
(* a double buffer per channel, tells the host where its halves are and     *)
(* hands the kernel a table of them; AsioBufReady copies output to input.   *)
(*                                                                         *)
(* Memory is counted in blocks of blockFrames samples.  The i-th active     *)
(* channel is map[i]; i counts from 0, as the arrays of the code do.        *)
(***************************************************************************)
EXTENDS Naturals

CONSTANTS
  MaxChannels,      \* kNumInputs and kNumOutputs
  Nil

ASSUME BuffersAssumption == MaxChannels \in Nat

Channels == 0 .. MaxChannels - 1
Empty == <<Nil, 0>>

\* The null pointer is no buffer.
ASSUME NilIsNoBuffer == Nil \notin Channels

\* The lists of active channels, each channel once.
Maps == UNION {
  {map \in [0 .. n - 1 -> Channels] :
     \A i, j \in 0 .. n - 1 : i # j => map[i] # map[j]} : n \in 0 .. MaxChannels}

VARIABLES
  inMap, outMap,    \* the active channels
  in, out,          \* the blocks of each inputBuffers[i] and outputBuffers[i]
  turn,             \* the half the host is called with next
  beat,             \* tells a block the host writes from the one before it
  phase             \* "switch" or, after the host's callback, "copy"

vars == <<inMap, outMap, in, out, turn, beat, phase>>

InputBlocks  == 0 .. 3       \* new ULONG[blockFrames * 4]
OutputBlocks == 0 .. 1       \* new ULONG[blockFrames * 2]

Init ==
  /\ inMap \in Maps
  /\ outMap \in Maps
  /\ in = [i \in DOMAIN inMap |-> [b \in InputBlocks |-> Empty]]
  /\ out = [i \in DOMAIN outMap |-> [b \in OutputBlocks |-> Empty]]
  /\ turn = 1
  /\ beat = 0
  /\ phase = "switch"

-----------------------------------------------------------------------------
\* Where the host's halves begin: inputBuffers[i] + blockFrames.
HostHalf(h) == h

\* Where the kernel's do: inputBuffers[i] + blockFrames*4, in samples, not bytes.
KernelHalf(h) == 4 * h

\* Entry i of the kernel's table is the buffer of channel i, if that is active.
Table_ByPosition(map) == [i \in DOMAIN map |-> i]
Table(map) ==
  [i \in DOMAIN map |->
     IF \E j \in DOMAIN map : map[j] = i
     THEN CHOOSE j \in DOMAIN map : map[j] = i
     ELSE Nil]

\* The host writes its half of every active output.
BufferSwitch ==
  /\ phase = "switch"
  /\ out' = [i \in DOMAIN outMap |->
               [out[i] EXCEPT ![HostHalf(turn)] = <<outMap[i], beat>>]]
  /\ beat' = 1 - beat
  /\ phase' = "copy"
  /\ UNCHANGED <<inMap, outMap, in, turn>>

\* Which entries have both buffers, and whose input a buffer is.
Paired == {i \in DOMAIN inMap \cap DOMAIN outMap :
             Table(inMap)[i] # Nil /\ Table(outMap)[i] # Nil}
EntryOf(j) == {i \in Paired : Table(inMap)[i] = j}

\* AsioBufReady; blocks past the allocation are some other memory.
AsioBufReady ==
  /\ phase = "copy"
  /\ in' = [j \in DOMAIN inMap |->
              [b \in InputBlocks |->
                 IF b = KernelHalf(turn) /\ EntryOf(j) # {}
                 THEN out[Table(outMap)[CHOOSE i \in EntryOf(j) : TRUE]][KernelHalf(turn)]
                 ELSE in[j][b]]]
  /\ phase' = "switch"
  /\ turn' = 1 - turn
  /\ UNCHANGED <<inMap, outMap, out, beat>>

Next == BufferSwitch \/ AsioBufReady

Spec == Init /\ [][Next]_vars

-----------------------------------------------------------------------------
\* What the host reads in a half of an input is what it wrote to that half of
\* the output of the same channel.  The kernel sees only channels whose number is
\* below the number of active inputs and of active outputs.
Seen == DOMAIN inMap \cap DOMAIN outMap
Loops(h) == \A j \in DOMAIN inMap, k \in DOMAIN outMap :
              inMap[j] = outMap[k] /\ inMap[j] \in Seen =>
                in[j][HostHalf(h)] = out[k][HostHalf(h)]

\* After each copy of half 0 every channel that has an input and an output the
\* kernel sees has looped, whichever other channels the host listed and in
\* whatever order (asiosmpl.cpp, createBuffers; ASIO.c, AsioBufReady).
FirstHalfLoops == phase = "switch" /\ turn = 1 => Loops(0)

\* asiosmpl.cpp:593: the buffers are double buffers; so the same for half 1.
SecondHalfLoops == phase = "switch" /\ turn = 0 => Loops(1)
=============================================================================

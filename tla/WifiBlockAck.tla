---------------------------- MODULE WifiBlockAck ----------------------------
(***************************************************************************)
(* The block acknowledgement of mini-wifi-bluetooth (src/wifi_mac.c): an    *)
(* originator sends blocks of frames, a recipient records them in a bitmap, *)
(* and what the bitmap misses is sent again.                                *)
(*                                                                          *)
(* The library holds the bitmap and not the exchange.  Here frames wait in  *)
(* a queue of the recipient before they are recorded, a reply is a copy of  *)
(* the bitmap, both may be lost, and both may outlive their block.          *)
(***************************************************************************)
EXTENDS Integers, FiniteSets, FiniteSetsExt

CONSTANTS
  BlockSize,   \* n_frames of a block, at most 64
  MaxRetx,     \* size of the array that takes the frames to be sent again
  Blocks,      \* bound on blocks
  MaxReplies,  \* bound on replies on their way
  MaxDropped    \* bound on frames and replies lost

ASSUME BlockAckAssumption == /\ BlockSize \in 1 .. 64
                             /\ MaxRetx \in Nat
                             /\ Blocks \in Nat \ {0}

VARIABLES
  ba,          \* the recipient's wifi_block_ack_t: start and bitmap
  rxQueue,     \* frames received and not recorded yet
  reply,       \* copies of ba on their way to the originator
  block,       \* first sequence number of the originator's block
  retx,        \* frames the originator is to send
  confirmed,   \* history: frames the originator knows to have arrived
  arrived,     \* history: frames that have arrived
  dropped      \* history: frames and replies lost

baVars == <<ba, rxQueue, reply, block, retx, confirmed, arrived, dropped>>

Seqs == 0 .. Blocks * BlockSize - 1
Bits == 0 .. BlockSize - 1
BlockAcks == [start : Seqs, bitmap : SUBSET Bits]
Frames(start) == start .. start + BlockSize - 1

(* block_ack_init *)
block_ack_init(start) == [start |-> start, bitmap |-> {}]

BaInit == /\ ba = block_ack_init(0)
          /\ rxQueue = {}
          /\ reply = {}
          /\ block = 0
          /\ retx = Frames(0)
          /\ confirmed = {}
          /\ arrived = {}
          /\ dropped = 0

-----------------------------------------------------------------------------
Offset(b, seq) == seq - b.start

(* Mutant: a frame beside the window is recorded at its offset modulo the
   length of the block. *)
block_ack_record_wraps(b, seq) ==
  [b EXCEPT !.bitmap = @ \cup {Offset(b, seq) % BlockSize}]

(* A frame beside the window changes nothing. *)
block_ack_record(b, seq) ==
  IF Offset(b, seq) \in Bits THEN [b EXCEPT !.bitmap = @ \cup {Offset(b, seq)}] ELSE b

(* TRUE if the answer is 1; the answer is -1 beside the window. *)
block_ack_is_received(b, seq) == Offset(b, seq) \in b.bitmap

Missing(b) == {b.start + i : i \in Bits \ b.bitmap}

(* Mutant: the frame before the last is taken for the last. *)
block_ack_get_missing_short(b) ==
  {seq \in Missing(b) : /\ seq < b.start + BlockSize - 1
                        /\ Cardinality({m \in Missing(b) : m < seq}) < MaxRetx}

(* The first MaxRetx missing frames. *)
block_ack_get_missing(b) ==
  {seq \in Missing(b) : Cardinality({m \in Missing(b) : m < seq}) < MaxRetx}

(* A frame is sent and arrives, or is lost; it stays in the list till a reply. *)
FrameArrives(seq) ==
  /\ seq \in retx
  /\ rxQueue' = rxQueue \cup {seq}
  /\ arrived' = arrived \cup {seq}
  /\ UNCHANGED <<ba, reply, block, retx, confirmed, dropped>>

FrameLost(seq) ==
  /\ seq \in retx
  /\ dropped < MaxDropped
  /\ dropped' = dropped + 1
  /\ retx' = retx \ {seq}
  /\ UNCHANGED <<ba, rxQueue, reply, block, confirmed, arrived>>

Record(seq) ==
  /\ seq \in rxQueue
  /\ ba' = block_ack_record(ba, seq)
  /\ rxQueue' = rxQueue \ {seq}
  /\ UNCHANGED <<reply, block, retx, confirmed, arrived, dropped>>

Reply == /\ Cardinality(reply) < MaxReplies
         /\ reply' = reply \cup {ba}
         /\ UNCHANGED <<ba, rxQueue, block, retx, confirmed, arrived, dropped>>

ReplyLost(b) ==
  /\ b \in reply
  /\ dropped < MaxDropped
  /\ dropped' = dropped + 1
  /\ reply' = reply \ {b}
  /\ UNCHANGED <<ba, rxQueue, block, retx, confirmed, arrived>>

(* The originator asks for every frame of its block and sends again what a
   reply for this block misses. *)
ReplyArrives(b) ==
  /\ b \in reply
  /\ reply' = reply \ {b}
  /\ confirmed' = confirmed \cup {s \in Frames(block) : block_ack_is_received(b, s)}
  /\ retx' = IF b.start = block THEN block_ack_get_missing(b) ELSE retx
  /\ UNCHANGED <<ba, rxQueue, block, arrived, dropped>>

(* All frames are confirmed: both sides agree on the next block. *)
NextBlock ==
  /\ Frames(block) \subseteq confirmed
  /\ block + BlockSize \in Seqs
  /\ block' = block + BlockSize
  /\ retx' = Frames(block + BlockSize)
  /\ ba' = block_ack_init(block + BlockSize)
  /\ UNCHANGED <<rxQueue, reply, confirmed, arrived, dropped>>

BaNext == \/ Reply \/ NextBlock
        \/ \E s \in Seqs : FrameArrives(s) \/ FrameLost(s) \/ Record(s)
        \/ \E b \in reply : ReplyLost(b) \/ ReplyArrives(b)

BaSpec == BaInit /\ [][BaNext]_baVars

Answer == \E b \in reply : ReplyArrives(b)

(* The originator keeps sending, the recipient records and replies, and what
   is not lost arrives. *)
BaFairSpec ==
  /\ BaSpec
  /\ WF_baVars(NextBlock)
  /\ \A s \in Seqs : WF_baVars(FrameArrives(s)) /\ WF_baVars(Record(s))
  /\ WF_baVars(Reply)
  /\ WF_baVars(Answer)

-----------------------------------------------------------------------------
(* Properties *)

BaTypeOK == /\ ba \in BlockAcks
            /\ reply \subseteq BlockAcks
            /\ rxQueue \subseteq arrived
            /\ arrived \subseteq Seqs
            /\ confirmed \subseteq Seqs
            /\ retx \subseteq Seqs
            /\ block \in Seqs
            /\ dropped \in 0 .. MaxDropped

(* What the originator takes for received has arrived, although frames are
   recorded and replies are read in a later block. *)
NoFalseAck == confirmed \subseteq arrived

(* All blocks get through in spite of the losses. *)
AllDelivered == []<>(confirmed = Seqs)
=============================================================================

----------------------------- MODULE PacketFifo -----------------------------
(***************************************************************************)
(* What a CPU receive queue promises its reader: packets are delivered in  *)
(* the order the Runner queued them, each at most once.  The one at the    *)
(* front may be dropped for want of a buffer, and the queue may be emptied *)
(* by a flush or by deleting the ring.                                     *)
(***************************************************************************)
EXTENDS Naturals, Sequences

VARIABLES
  queue,      \* packets waiting, oldest first
  arrived,    \* number of the last packet queued
  delivered   \* number of the last packet given to the network stack

fifoVars == <<queue, arrived, delivered>>

FifoInit == queue = <<>> /\ arrived = 0 /\ delivered = 0

Arrive ==
  /\ arrived' = arrived + 1
  /\ queue' = Append(queue, arrived')
  /\ UNCHANGED delivered

Deliver ==
  /\ queue # <<>>
  /\ delivered' = Head(queue)
  /\ queue' = Tail(queue)
  /\ UNCHANGED arrived

DropFront ==
  /\ queue # <<>>
  /\ queue' = Tail(queue)
  /\ UNCHANGED <<arrived, delivered>>

Clear == queue' = <<>> /\ UNCHANGED <<arrived, delivered>>

FifoNext == Arrive \/ Deliver \/ DropFront \/ Clear

FifoSpec == FifoInit /\ [][FifoNext]_fifoVars
=============================================================================

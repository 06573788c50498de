------------------------------ MODULE CpuRing ------------------------------
(***************************************************************************)
(* A CPU receive ring: shared/opensource/rdp/rdp_cpu_ring.c and            *)
(* shared/opensource/include/rdp/rdp_cpu_ring_inline.h, as built for the   *)
(* BCM63138 with BPM buffers.                                              *)
(*                                                                         *)
(* The Runner (the network processor) fills the descriptors it owns in     *)
(* ring order and hands them to the host; the host takes the packet at     *)
(* head, puts a fresh buffer into the descriptor and gives it back.  The   *)
(* Runner and the buffer pool are outside the repository: their actions    *)
(* are taken from how this code uses them.                                 *)
(***************************************************************************)
EXTENDS Integers, Sequences, FiniteSets, FiniteSetsExt

CONSTANTS
  Bufs,             \* data buffers of the pool
  NoBuf,            \* word2 = 0
  MaxEntries,       \* bound: largest ring created
  MAX_BUFS_IN_CACHE,
  MaxPkts,          \* bound: packets the Runner receives
  MemFails,         \* may kmalloc and dma_alloc_coherent fail
  FlushRaces        \* may a flush come between the halves of a read

ASSUME RingAssumption ==
  /\ IsFiniteSet(Bufs) /\ NoBuf \notin Bufs
  /\ MaxEntries \in Nat \ {0}
  /\ MAX_BUFS_IN_CACHE \in Nat \ {0}
  /\ MaxPkts \in Nat
  /\ MemFails \in BOOLEAN /\ FlushRaces \in BOOLEAN

Slots  == 0 .. (MaxEntries - 1)
NoSlot == -1

VARIABLES
  num_of_entries, admin_status, base, buff_cache, head, end,  \* host_ring[id]
  init_shell,    \* the shell commands are registered
  word2,         \* buffer pointer of each descriptor
  ownership,     \* "HOST" or "RUNNER"
  pkt,           \* number of the packet in the descriptor's buffer
  cache,         \* the buffers in buff_cache[0 .. buff_cache_cnt - 1]
  pool,          \* free buffers of the global pool
  upper,         \* buffers held by the network stack
  runnerOn, runnerWr, runnerSize,   \* the Runner's view of the ring: does it
                 \* fill it, the descriptor it writes next, its size
  rdSlot, rdBuf, rdPkt,   \* what a read has taken from the descriptor
  arrived,       \* packets the Runner has queued
  delivered,     \* last packet given to the network stack
  fault          \* the code followed a base that is NULL or freed

ringVars == <<num_of_entries, admin_status, base, buff_cache, head, end, init_shell>>
descVars == <<word2, ownership, pkt>>
bufVars  == <<cache, pool, upper>>
readVars == <<rdSlot, rdBuf, rdPkt>>
runnerVars == <<runnerOn, runnerWr, runnerSize>>
vars == <<ringVars, descVars, bufVars, runnerVars, readVars, arrived, delivered, fault>>

\* A pointer is NULL, points to allocated memory, or to memory since freed.
Pointers == {"null", "live", "freed"}

TypeOK ==
  /\ num_of_entries \in 0 .. MaxEntries
  /\ admin_status \in BOOLEAN /\ init_shell \in BOOLEAN
  /\ base \in Pointers /\ buff_cache \in Pointers
  /\ head \in Slots /\ end \in 0 .. MaxEntries
  /\ word2 \in [Slots -> Bufs \cup {NoBuf}]
  /\ ownership \in [Slots -> {"HOST", "RUNNER"}]
  /\ pkt \in [Slots -> 0 .. MaxPkts]
  /\ cache \subseteq Bufs /\ pool \subseteq Bufs /\ upper \subseteq Bufs
  /\ runnerOn \in BOOLEAN /\ runnerWr \in Slots /\ runnerSize \in 0 .. MaxEntries
  /\ rdSlot \in Slots \cup {NoSlot}
  /\ rdBuf \in Bufs \cup {NoBuf} /\ rdPkt \in 0 .. MaxPkts
  /\ arrived \in 0 .. MaxPkts /\ delivered \in 0 .. MaxPkts
  /\ fault \in BOOLEAN

Entries == 0 .. (num_of_entries - 1)

\* host_ring is zeroed static data; every buffer is in the pool.
Init ==
  /\ num_of_entries = 0 /\ admin_status = FALSE /\ init_shell = FALSE
  /\ base = "null" /\ buff_cache = "null" /\ head = 0 /\ end = 0
  /\ word2 = [i \in Slots |-> NoBuf]
  /\ ownership = [i \in Slots |-> "RUNNER"]
  /\ pkt = [i \in Slots |-> 0]
  /\ cache = {} /\ pool = Bufs /\ upper = {}
  /\ runnerOn = FALSE /\ runnerWr = 0 /\ runnerSize = 0
  /\ rdSlot = NoSlot /\ rdBuf = NoBuf /\ rdPkt = 0
  /\ arrived = 0 /\ delivered = 0
  /\ fault = FALSE

-----------------------------------------------------------------------------
\* The Runner leaves the ring alone, or fills it from its first descriptor on.
rdd_ring_destroy == runnerOn' = FALSE /\ UNCHANGED <<runnerWr, runnerSize>>

rdd_ring_init == runnerOn' = TRUE /\ runnerWr' = 0 /\ runnerSize' = num_of_entries

\* How many buffers rdp_databuf_alloc draws for n descriptors: the pool gives
\* MAX_BUFS_IN_CACHE buffers or none ("either all the buffers requested or
\* none"), the rest of the last bulk stays in the cache.
Drawn(n) ==
  ((n + MAX_BUFS_IN_CACHE - 1) \div MAX_BUFS_IN_CACHE) * MAX_BUFS_IN_CACHE

EmptyDescriptors ==
  /\ word2' = [i \in Slots |-> NoBuf]
  /\ ownership' = [i \in Slots |-> "RUNNER"]
  /\ pkt' = [i \in Slots |-> 0]

\* What every path of create does before its first allocation.
SetRingParameters ==
  /\ num_of_entries = 0
  /\ admin_status' = TRUE

\* create: every allocation succeeds.
RingReady(n) ==
  /\ SetRingParameters
  /\ Cardinality(pool) >= Drawn(n)
  /\ num_of_entries' = n
  /\ base' = "live" /\ buff_cache' = "live" /\ head' = 0 /\ end' = n
  /\ \E S \in kSubset(Drawn(n), pool) :
       \E f \in [0 .. (n - 1) -> S] :
          /\ \A i, j \in 0 .. (n - 1) : i # j => f[i] # f[j]
          /\ word2' = [i \in Slots |-> IF i < n THEN f[i] ELSE NoBuf]
          /\ cache' = S \ {f[i] : i \in 0 .. (n - 1)}
          /\ pool' = pool \ S
  /\ ownership' = [i \in Slots |-> "RUNNER"]
  /\ pkt' = [i \in Slots |-> 0]
  /\ UNCHANGED <<upper, runnerVars, readVars, arrived, delivered, fault>>

\* create returns 0; the first time it has registered the shell commands.
CreateRing(n) == RingReady(n) /\ init_shell' = TRUE

\* create: the shell commands cannot be registered.  It returns 1, with the
\* ring in place, and tries again at the next create.
CreateRingNoShell(n) == ~init_shell /\ RingReady(n) /\ UNCHANGED init_shell

\* The buffers delete gives back from n descriptors with pointers w and from a
\* cache C.
FreedBuffers(w, n, C) == {w[i] : i \in {j \in 0 .. (n - 1) : w[j] # NoBuf}} \cup C

\* Mutants of CreateRingNoBuffers: the ring stays marked as existing; what
\* was drawn for the descriptors is not given back.
MutFailedRingKept(n) ==
  /\ SetRingParameters
  /\ Cardinality(pool) < Drawn(n)
  /\ num_of_entries' = n
  /\ base' = "freed" /\ buff_cache' = "freed"
  /\ EmptyDescriptors
  /\ UNCHANGED <<head, end, init_shell, bufVars, runnerVars, readVars, arrived, delivered, fault>>

MutDrawnLost(n) ==
  /\ SetRingParameters
  /\ \E m \in 0 .. (n - 1) : \E S \in kSubset(m, pool) :
       /\ m % MAX_BUFS_IN_CACHE = 0
       /\ Cardinality(pool) - m < MAX_BUFS_IN_CACHE
       /\ pool' = pool \ S
  /\ base' = "freed" /\ buff_cache' = "freed" /\ cache' = {}
  /\ EmptyDescriptors
  /\ rdd_ring_destroy
  /\ UNCHANGED <<num_of_entries, head, end, init_shell, upper, readVars, arrived, delivered,
                 fault>>

\* create: the pool runs out after m descriptors.  A bulk is drawn when the
\* cache is empty, so all that was drawn is in the descriptors; delete_ring
\* gives it back.  It also walks the descriptors create had not reached:
\* dma_alloc_coherent zeroes them.
CreateRingNoBuffers(n) ==
  /\ SetRingParameters
  /\ \E m \in 0 .. (n - 1) : \E S \in kSubset(m, pool) : \E f \in [0 .. (m - 1) -> S] :
       /\ m % MAX_BUFS_IN_CACHE = 0
       /\ Cardinality(pool) - m < MAX_BUFS_IN_CACHE
       /\ S = {f[i] : i \in 0 .. (m - 1)}
       /\ LET filled == [i \in Slots |-> IF i < m THEN f[i] ELSE NoBuf]
          IN  pool' = (pool \ S) \cup FreedBuffers(filled, n, {})
  /\ base' = "freed" /\ buff_cache' = "freed" /\ cache' = {}
  /\ EmptyDescriptors
  /\ rdd_ring_destroy
  /\ UNCHANGED <<num_of_entries, head, end, init_shell, upper, readVars, arrived, delivered,
                 fault>>

\* create: no memory for buff_cache; returns with num_of_entries set.
CreateRingNoCache(n) ==
  /\ MemFails
  /\ SetRingParameters
  /\ num_of_entries' = n
  /\ buff_cache' = "null"
  /\ UNCHANGED <<base, head, end, init_shell, descVars, bufVars, runnerVars, readVars,
                 arrived, delivered, fault>>

\* create: no memory for the descriptors; delete_ring walks a NULL base.
CreateRingNoBase(n) ==
  /\ MemFails
  /\ SetRingParameters
  /\ base' = "null" /\ buff_cache' = "freed"
  /\ fault' = TRUE
  /\ rdd_ring_destroy
  /\ UNCHANGED <<num_of_entries, head, end, init_shell, descVars, bufVars, readVars, arrived,
                 delivered>>

Create(n) ==
  \/ CreateRing(n) \/ CreateRingNoShell(n) \/ CreateRingNoBuffers(n)
  \/ CreateRingNoCache(n) \/ CreateRingNoBase(n)

\* delete: stop the Runner, free the buffers of descriptors and cache.
DeleteRing ==
  /\ num_of_entries # 0
  /\ rdSlot = NoSlot
  /\ rdd_ring_destroy
  /\ fault' = (fault \/ base # "live")
  /\ pool' = pool \cup FreedBuffers(word2, num_of_entries, cache)
  /\ cache' = {}
  /\ EmptyDescriptors
  /\ base' = (IF base = "null" THEN "null" ELSE "freed")
  /\ buff_cache' = (IF buff_cache = "null" THEN "null" ELSE "freed")
  /\ num_of_entries' = 0
  /\ UNCHANGED <<admin_status, init_shell, head, end, upper, readVars, arrived, delivered>>

\* Mutant of FlushRing: head is not set back to base.
MutFlushKeepsHead ==
  /\ num_of_entries # 0 /\ base = "live" /\ runnerOn
  /\ rdSlot = NoSlot
  /\ ownership' = [i \in Slots |-> IF i < end THEN "RUNNER" ELSE ownership[i]]
  /\ rdd_ring_init
  /\ UNCHANGED <<ringVars, word2, pkt, bufVars, readVars, arrived, delivered, fault>>

\* flush: take every descriptor back for the Runner and restart it.  If the
\* Runner cannot be stopped, flush returns and nothing has changed: no step.
FlushRing ==
  /\ num_of_entries # 0 /\ base = "live" /\ runnerOn
  /\ FlushRaces \/ rdSlot = NoSlot
  /\ ownership' = [i \in Slots |-> IF i < end THEN "RUNNER" ELSE ownership[i]]
  /\ head' = 0
  /\ rdd_ring_init
  /\ UNCHANGED <<num_of_entries, admin_status, base, buff_cache, end, init_shell, word2, pkt,
                 bufVars, readVars, arrived, delivered, fault>>

\* The shell command that takes the ring up or down.
SetAdminStatus ==
  /\ admin_status' = ~admin_status
  /\ UNCHANGED <<num_of_entries, base, buff_cache, head, end, init_shell, descVars, bufVars,
                 runnerVars, readVars, arrived, delivered, fault>>

-----------------------------------------------------------------------------
\* read_packet_refill, first half: ReadPacketFromRing at head.  It does not
\* look whether the ring exists: its callers read only rings they created, and
\* do not read while they delete them.
ReadPacketFromRing ==
  /\ rdSlot = NoSlot
  /\ num_of_entries # 0 /\ base = "live"
  /\ admin_status
  /\ ownership[head] = "HOST"
  /\ rdSlot' = head /\ rdBuf' = word2[head] /\ rdPkt' = pkt[head]
  /\ UNCHANGED <<ringVars, descVars, bufVars, runnerVars, arrived, delivered, fault>>

\* Mutants of AssignPacketBuffertoRing: head runs past the end; the
\* descriptor is not given back.
MutNoWrap(b) ==
  /\ word2' = [word2 EXCEPT ![rdSlot] = b]
  /\ ownership' = [ownership EXCEPT ![rdSlot] = "RUNNER"]
  /\ head' = head + 1

MutOwnershipKept(b) ==
  /\ word2' = [word2 EXCEPT ![rdSlot] = b]
  /\ head' = (IF head + 1 = end THEN 0 ELSE head + 1)
  /\ UNCHANGED ownership

\* Hand the descriptor that was read back to the Runner and advance head.
AssignPacketBuffertoRing(b) ==
  /\ word2' = [word2 EXCEPT ![rdSlot] = b]
  /\ ownership' = [ownership EXCEPT ![rdSlot] = "RUNNER"]
  /\ head' = (IF head + 1 = end THEN 0 ELSE head + 1)

\* Mutant of rdp_databuf_alloc: buff_cache_cnt is not decremented.
MutCacheCountKept(b) ==
  \/ b \in cache /\ UNCHANGED <<cache, pool>>
  \/ /\ cache = {}
     /\ \E S \in kSubset(MAX_BUFS_IN_CACHE, pool) :
          b \in S /\ cache' = S \ {b} /\ pool' = pool \ S

\* rdp_databuf_alloc: from the cache, or else from a new bulk.
rdp_databuf_alloc(b) ==
  \/ b \in cache /\ cache' = cache \ {b} /\ UNCHANGED pool
  \/ /\ cache = {}
     /\ \E S \in kSubset(MAX_BUFS_IN_CACHE, pool) :
          b \in S /\ cache' = S \ {b} /\ pool' = pool \ S

AllocFails == cache = {} /\ Cardinality(pool) < MAX_BUFS_IN_CACHE

\* Second half: a new buffer for the descriptor, the packet to the stack.
RefillAndDeliver ==
  /\ rdSlot # NoSlot
  /\ \E b \in cache \cup pool : rdp_databuf_alloc(b) /\ AssignPacketBuffertoRing(b)
  /\ upper' = upper \cup {rdBuf}
  /\ delivered' = rdPkt
  /\ rdSlot' = NoSlot /\ rdBuf' = NoBuf /\ rdPkt' = 0
  /\ UNCHANGED <<num_of_entries, admin_status, base, buff_cache, end, init_shell, pkt,
                 runnerVars, arrived, fault>>

\* Second half without a new buffer: the old one goes back, the packet is lost.
RefillFails ==
  /\ rdSlot # NoSlot
  /\ AllocFails
  /\ AssignPacketBuffertoRing(rdBuf)
  /\ rdSlot' = NoSlot /\ rdBuf' = NoBuf /\ rdPkt' = 0
  /\ UNCHANGED <<num_of_entries, admin_status, base, buff_cache, end, init_shell, pkt, bufVars,
                 runnerVars, arrived, delivered, fault>>

-----------------------------------------------------------------------------
\* The owner of a new ring passes it to the Runner (rdd_ring_init).
RunnerStarts ==
  /\ num_of_entries # 0 /\ base = "live" /\ ~runnerOn
  /\ rdd_ring_init
  /\ UNCHANGED <<ringVars, descVars, bufVars, readVars, arrived, delivered, fault>>

\* The Runner writes a packet into its next descriptor if it owns it; if not
\* it drops the packet, which changes nothing here.
RunnerWrites ==
  /\ runnerOn /\ arrived < MaxPkts
  /\ ownership[runnerWr] = "RUNNER"
  /\ arrived' = arrived + 1
  /\ pkt' = [pkt EXCEPT ![runnerWr] = arrived + 1]
  /\ ownership' = [ownership EXCEPT ![runnerWr] = "HOST"]
  /\ runnerWr' = (runnerWr + 1) % runnerSize
  /\ UNCHANGED <<ringVars, word2, bufVars, runnerOn, runnerSize, readVars, delivered, fault>>

\* The network stack frees a buffer.
StackFrees ==
  \E b \in upper :
    /\ upper' = upper \ {b} /\ pool' = pool \cup {b}
    /\ UNCHANGED <<ringVars, descVars, cache, runnerVars, readVars, arrived, delivered, fault>>

-----------------------------------------------------------------------------
Control ==
  \/ \E n \in 1 .. MaxEntries : Create(n)
  \/ DeleteRing \/ FlushRing \/ SetAdminStatus

Read == ReadPacketFromRing \/ RefillAndDeliver \/ RefillFails

Environment == RunnerStarts \/ RunnerWrites \/ StackFrees

\* Following a bad base is a kernel oops: nothing happens after it.
Next == ~fault /\ (Control \/ Read \/ Environment)

Spec == Init /\ [][Next]_vars

-----------------------------------------------------------------------------
RingBufs == {word2[i] : i \in Slots} \ {NoBuf}

(***************************************************************************)
(* No buffer is lost or has two owners: each is in the pool, in the cache, *)
(* with the stack or in exactly one descriptor, on every failure path of   *)
(* create and read and whenever a flush or delete comes.  A leak stops     *)
(* reception once the pool is dry; two owners corrupt packets.             *)
(***************************************************************************)
BufferConservation ==
  /\ Bufs = pool \cup cache \cup upper \cup RingBufs
  /\ pool \cap (cache \cup upper \cup RingBufs) = {}
  /\ cache \cap (upper \cup RingBufs) = {}
  /\ upper \cap RingBufs = {}
  /\ \A i, j \in Slots : word2[i] = word2[j] /\ word2[i] # NoBuf => i = j

(***************************************************************************)
(* Host and Runner agree where the packets are: the descriptors owned by   *)
(* the host are exactly those from head up to the Runner's next one.       *)
(* Otherwise the host would wait at an empty descriptor with packets       *)
(* behind it, or pass over packets.                                        *)
(***************************************************************************)
Distance(i) == (i - head) % num_of_entries

RingSync ==
  runnerOn =>
    /\ head < num_of_entries /\ end = num_of_entries /\ runnerSize = num_of_entries
    /\ \E k \in 0 .. num_of_entries :
         /\ (head + k) % num_of_entries = runnerWr
         /\ \A i \in Entries : ownership[i] = "HOST" <=> Distance(i) < k

(***************************************************************************)
(* A ring that exists (num_of_entries is set, so that create refuses and   *)
(* delete accepts it) has its memory: a create that failed for want of     *)
(* memory or buffers has left no ring behind that "must be deleted first", *)
(* and whose deletion would follow a pointer to nothing.                   *)
(***************************************************************************)
ExistingRingIsLive == num_of_entries # 0 => base = "live" /\ buff_cache = "live"

-----------------------------------------------------------------------------
\* rdp_cpu_ring_get_queued: the number of descriptors the host owns.
rdp_cpu_ring_get_queued ==
  IF num_of_entries = 0 THEN 0
  ELSE Cardinality({i \in 0 .. (end - 1) : ownership[i] = "HOST"})

\* The packets of the ring, oldest first.
Queue ==
  [i \in 1 .. rdp_cpu_ring_get_queued |-> pkt[(head + i - 1) % num_of_entries]]

Fifo == INSTANCE PacketFifo WITH queue <- Queue

(***************************************************************************)
(* The ring implements a FIFO of packets: reads deliver in arrival order,  *)
(* each packet at most once, and no packet is lost but by a failed refill, *)
(* a flush or deleting the ring.                                           *)
(***************************************************************************)
RingIsFifo == Fifo!FifoSpec
=============================================================================

--------------------------- MODULE CpuRing_proofs ---------------------------
(***************************************************************************)
(* Proofs about CpuRing, for any pool, any size of rings and of bulks.     *)
(* Types and conservation of buffers hold with failing allocations and     *)
(* with flushes that race a read; that a ring which exists has its memory  *)
(* needs ~MemFails, and that host and Runner agree, on which the           *)
(* refinement of PacketFifo rests, needs ~FlushRaces.                      *)
(***************************************************************************)
EXTENDS CpuRing, FiniteSetTheorems, SequenceTheorems, TLAPS

\* TypeOK in two parts: the flags, and everything else.
FlagTypes ==
  /\ admin_status \in BOOLEAN /\ init_shell \in BOOLEAN
  /\ runnerOn \in BOOLEAN /\ fault \in BOOLEAN

DataTypes ==
  /\ num_of_entries \in 0 .. MaxEntries
  /\ base \in Pointers /\ buff_cache \in Pointers
  /\ head \in Slots /\ end \in 0 .. MaxEntries
  /\ word2 \in [Slots -> Bufs \cup {NoBuf}]
  /\ ownership \in [Slots -> {"HOST", "RUNNER"}]
  /\ pkt \in [Slots -> 0 .. MaxPkts]
  /\ cache \subseteq Bufs /\ pool \subseteq Bufs /\ upper \subseteq Bufs
  /\ runnerWr \in Slots /\ runnerSize \in 0 .. MaxEntries
  /\ rdSlot \in Slots \cup {NoSlot}
  /\ rdBuf \in Bufs \cup {NoBuf} /\ rdPkt \in 0 .. MaxPkts
  /\ arrived \in 0 .. MaxPkts /\ delivered \in 0 .. MaxPkts

LEMMA TypeParts == TypeOK <=> FlagTypes /\ DataTypes
BY Zenon DEF TypeOK, FlagTypes, DataTypes

\* The memory of the ring: a ring with live descriptors has a buffer in each,
\* and the head and the Runner stay within it.
RingInv ==
  /\ num_of_entries = 0 => base # "live" /\ cache = {} /\ rdSlot = NoSlot
  /\ base = "live" => /\ end = num_of_entries /\ head < end
                      /\ \A i \in Entries : word2[i] # NoBuf
  /\ runnerOn => base = "live" /\ runnerSize = num_of_entries /\ runnerWr < num_of_entries
  /\ \A i \in Slots : i >= num_of_entries => word2[i] = NoBuf
  /\ \A i \in Slots : ownership[i] = "HOST" => word2[i] # NoBuf
  /\ rdSlot # NoSlot => base = "live" /\ word2[rdSlot] = rdBuf /\ rdBuf # NoBuf

IInv == DataTypes /\ RingInv

LEMMA InitIInv == Init => IInv
BY RingAssumption
   DEF Init, IInv, DataTypes, RingInv, Slots, NoSlot, Pointers, Entries

\* What create does to the ring, whatever becomes of the shell commands.
LEMMA CreateCases ==
  ASSUME NEW n, Create(n)
  PROVE  \/ RingReady(n) \/ CreateRingNoBuffers(n)
         \/ CreateRingNoCache(n) \/ CreateRingNoBase(n)
BY Zenon DEF Create, CreateRing, CreateRingNoShell

\* A create that runs out of buffers gives back what it has drawn.
LEMMA NoBuffersReturned ==
  ASSUME IInv, NEW n \in 1 .. MaxEntries, CreateRingNoBuffers(n)
  PROVE  pool' = pool /\ cache' = {} /\ upper' = upper
<1> USE RingAssumption DEF Slots
<1>0. PICK m \in 0 .. (n - 1) : \E S \in kSubset(m, pool) : \E f \in [0 .. (m - 1) -> S] :
        /\ S = {f[i] : i \in 0 .. (m - 1)}
        /\ pool' = (pool \ S)
              \cup FreedBuffers([i \in Slots |-> IF i < m THEN f[i] ELSE NoBuf], n, {})
  BY DEF CreateRingNoBuffers
<1>1. PICK S \in kSubset(m, pool) : \E f \in [0 .. (m - 1) -> S] :
        /\ S = {f[i] : i \in 0 .. (m - 1)}
        /\ pool' = (pool \ S)
              \cup FreedBuffers([i \in Slots |-> IF i < m THEN f[i] ELSE NoBuf], n, {})
  BY <1>0
<1>2. PICK f \in [0 .. (m - 1) -> S] :
        /\ S = {f[i] : i \in 0 .. (m - 1)}
        /\ pool' = (pool \ S)
              \cup FreedBuffers([i \in Slots |-> IF i < m THEN f[i] ELSE NoBuf], n, {})
  BY <1>1
<1> DEFINE w == [i \in Slots |-> IF i < m THEN f[i] ELSE NoBuf]
<1>3. S \subseteq pool /\ NoBuf \notin S
  BY DEF kSubset, IInv, DataTypes
<1>4. \A i \in 0 .. (n - 1) : w[i] = IF i < m THEN f[i] ELSE NoBuf
  OBVIOUS
<1>5. pool' = (pool \ S) \cup FreedBuffers(w, n, {})
  BY <1>2
<1> HIDE DEF w
<1>6. FreedBuffers(w, n, {}) \subseteq S
  BY <1>4 DEF FreedBuffers
<1>7. ASSUME NEW b \in S PROVE b \in FreedBuffers(w, n, {})
  <2>1. PICK i \in 0 .. (m - 1) : b = f[i]
    BY <1>2
  <2>2. i \in 0 .. (n - 1) /\ w[i] = b /\ b # NoBuf
    BY <1>3, <1>4, <2>1
  <2> QED  BY <2>2 DEF FreedBuffers
<1>8. pool' = pool
  BY <1>3, <1>5, <1>6, <1>7
<1> QED  BY <1>8 DEF CreateRingNoBuffers

\* Every step of create leaves the invariant, whichever allocation fails.
LEMMA CreateIInv ==
  ASSUME IInv, NEW n \in 1 .. MaxEntries, Create(n)
  PROVE  IInv'
<1> USE RingAssumption DEF IInv, DataTypes, RingInv, Slots, NoSlot, Pointers, Entries,
        SetRingParameters, bufVars, descVars, readVars, runnerVars, rdd_ring_destroy
<1>1. CASE RingReady(n)
  <2>1. PICK S \in kSubset(Drawn(n), pool) :
          \E f \in [0 .. (n - 1) -> S] :
            /\ \A i, j \in 0 .. (n - 1) : i # j => f[i] # f[j]
            /\ word2' = [i \in Slots |-> IF i < n THEN f[i] ELSE NoBuf]
            /\ cache' = S \ {f[i] : i \in 0 .. (n - 1)}
            /\ pool' = pool \ S
    BY <1>1 DEF RingReady
  <2>2. PICK f \in [0 .. (n - 1) -> S] :
            /\ \A i, j \in 0 .. (n - 1) : i # j => f[i] # f[j]
            /\ word2' = [i \in Slots |-> IF i < n THEN f[i] ELSE NoBuf]
            /\ cache' = S \ {f[i] : i \in 0 .. (n - 1)}
            /\ pool' = pool \ S
    BY <2>1
  <2>3. S \subseteq pool
    BY <2>1 DEF kSubset
  <2>4. word2' \in [Slots -> Bufs \cup {NoBuf}]
    BY <2>2, <2>3, SMTT(30) DEF DataTypes
  <2> HIDE DEF DataTypes
  <2>5. /\ num_of_entries' = n /\ base' = "live" /\ buff_cache' = "live"
        /\ head' = 0 /\ end' = n
        /\ ownership' = [i \in Slots |-> "RUNNER"] /\ pkt' = [i \in Slots |-> 0]
        /\ UNCHANGED <<upper, runnerVars, readVars, arrived, delivered>>
    BY <1>1 DEF RingReady
  <2>6. cache' \subseteq Bufs /\ pool' \subseteq Bufs
    BY <2>2, <2>3 DEF DataTypes
  <2>7. DataTypes'
    BY <2>4, <2>5, <2>6 DEF DataTypes
  <2>8. \A i \in Slots : word2'[i] = (IF i < n THEN f[i] ELSE NoBuf)
    BY <2>2
  <2>9. \A i \in 0 .. (n - 1) : word2'[i] # NoBuf
    BY <2>8, <2>2, <2>3, SMTT(30) DEF DataTypes
  <2>10. ~runnerOn /\ rdSlot = NoSlot
    BY <1>1 DEF RingReady
  <2>11. ~runnerOn' /\ rdSlot' = NoSlot
    BY <2>10, <2>5
  <2>12. \A i \in Slots : i >= n => word2'[i] = NoBuf
    BY <2>8
  <2>13. \A i \in Slots : ownership'[i] # "HOST"
    BY <2>5
  <2>14. RingInv'
    BY <2>9, <2>11, <2>12, <2>13, <2>5
  <2> QED  BY <2>7, <2>14
<1>2. CASE CreateRingNoBuffers(n)
  <2>1. UNCHANGED pool /\ cache' = {}
    BY <1>2, NoBuffersReturned
  <2>2. /\ num_of_entries = 0 /\ base' = "freed" /\ buff_cache' = "freed" /\ ~runnerOn'
        /\ word2' = [i \in Slots |-> NoBuf] /\ ownership' = [i \in Slots |-> "RUNNER"]
        /\ pkt' = [i \in Slots |-> 0]
        /\ UNCHANGED <<num_of_entries, head, end, upper, readVars, arrived, delivered,
                       runnerWr, runnerSize>>
    BY <1>2 DEF CreateRingNoBuffers, EmptyDescriptors
  <2>3. DataTypes'
    BY <2>1, <2>2
  <2>4. RingInv'
    BY <2>1, <2>2
  <2> QED  BY <2>3, <2>4
<1>3. CASE CreateRingNoCache(n)
  BY <1>3 DEF CreateRingNoCache
<1>4. CASE CreateRingNoBase(n)
  BY <1>4 DEF CreateRingNoBase
<1> QED  BY <1>1, <1>2, <1>3, <1>4, CreateCases

LEMMA DeleteIInv ==
  ASSUME IInv, DeleteRing
  PROVE  IInv'
<1> USE RingAssumption DEF IInv, DataTypes, RingInv, Slots, NoSlot, Pointers, Entries
<1>1. FreedBuffers(word2, num_of_entries, cache) \subseteq Bufs
  BY SMTT(30) DEF FreedBuffers
<1>2. pool' \subseteq Bufs
  BY <1>1 DEF DeleteRing
<1>3. DataTypes'
  BY <1>2 DEF DeleteRing, EmptyDescriptors, rdd_ring_destroy, readVars
<1>4. RingInv'
  BY DEF DeleteRing, EmptyDescriptors, rdd_ring_destroy, readVars
<1> QED  BY <1>3, <1>4

\* A flush keeps every buffer where it is, also the one a read holds.
LEMMA FlushIInv ==
  ASSUME IInv, FlushRing \/ SetAdminStatus \/ RunnerStarts
  PROVE  IInv'
<1> USE RingAssumption DEF IInv, DataTypes, RingInv, Slots, NoSlot, Pointers, Entries,
        ringVars, bufVars, descVars, readVars, runnerVars, rdd_ring_init
<1>1. CASE FlushRing
  <2>1. DataTypes'  BY <1>1 DEF FlushRing
  <2>2. RingInv'    BY <1>1 DEF FlushRing
  <2> QED  BY <2>1, <2>2
<1>2. CASE SetAdminStatus
  BY <1>2 DEF SetAdminStatus
<1>3. CASE RunnerStarts
  BY <1>3 DEF RunnerStarts
<1> QED  BY <1>1, <1>2, <1>3

LEMMA ReadIInv ==
  ASSUME IInv, ReadPacketFromRing
  PROVE  IInv'
BY RingAssumption DEF IInv, DataTypes, RingInv, Slots, NoSlot, Entries, Pointers,
   ringVars, bufVars, descVars, readVars, runnerVars, ReadPacketFromRing

\* What an allocation takes is free, and it keeps the types.
LEMMA AllocTypes ==
  ASSUME IInv, NEW b, rdp_databuf_alloc(b)
  PROVE  /\ b \in (cache \cup pool) /\ b \in Bufs /\ b # NoBuf
         /\ cache' \subseteq Bufs /\ pool' \subseteq Bufs
BY RingAssumption DEF IInv, DataTypes, rdp_databuf_alloc, kSubset

\* Handing a descriptor back with a buffer in it.
LEMMA AssignIInv ==
  ASSUME IInv, rdSlot # NoSlot, NEW b \in Bufs, AssignPacketBuffertoRing(b),
         cache' \subseteq Bufs, pool' \subseteq Bufs, upper' \subseteq Bufs,
         delivered' \in 0 .. MaxPkts, rdSlot' = NoSlot, rdBuf' = NoBuf, rdPkt' = 0,
         UNCHANGED <<num_of_entries, base, buff_cache, end, pkt, runnerVars, arrived>>
  PROVE  IInv'
<1> USE RingAssumption DEF IInv, Slots, NoSlot, Entries, Pointers, runnerVars
<1>1. base = "live" /\ end = num_of_entries /\ head < end /\ num_of_entries # 0
  BY DEF RingInv
<1>2. rdSlot \in Slots /\ rdSlot < num_of_entries
  BY DEF RingInv, DataTypes
<1>3. head' \in Slots /\ head' < end
  BY <1>1 DEF AssignPacketBuffertoRing, DataTypes
<1>4. /\ word2' \in [Slots -> Bufs \cup {NoBuf}]
      /\ \A i \in Slots : word2'[i] = IF i = rdSlot THEN b ELSE word2[i]
  BY <1>2 DEF AssignPacketBuffertoRing, DataTypes
<1>5. /\ ownership' \in [Slots -> {"HOST", "RUNNER"}]
      /\ \A i \in Slots : ownership'[i] = IF i = rdSlot THEN "RUNNER" ELSE ownership[i]
  BY <1>2 DEF AssignPacketBuffertoRing, DataTypes
<1>6. DataTypes'
  BY <1>3, <1>4, <1>5 DEF DataTypes
<1>7. RingInv'
  BY <1>1, <1>2, <1>3, <1>4, <1>5 DEF RingInv, DataTypes
<1> QED  BY <1>6, <1>7

LEMMA RefillIInv ==
  ASSUME IInv, RefillAndDeliver \/ RefillFails
  PROVE  IInv'
<1> USE RingAssumption DEF runnerVars, bufVars
<1>1. CASE RefillAndDeliver
  <2>1. PICK b : rdp_databuf_alloc(b) /\ AssignPacketBuffertoRing(b)
    BY <1>1 DEF RefillAndDeliver
  <2>2. b \in Bufs /\ cache' \subseteq Bufs /\ pool' \subseteq Bufs
    BY <2>1, AllocTypes
  <2>3. rdSlot # NoSlot /\ rdBuf \in Bufs
    BY <1>1 DEF RefillAndDeliver, IInv, DataTypes, RingInv
  <2>4. upper' \subseteq Bufs /\ delivered' \in 0 .. MaxPkts
    BY <1>1, <2>3 DEF RefillAndDeliver, IInv, DataTypes
  <2> QED  BY <1>1, <2>1, <2>2, <2>3, <2>4, AssignIInv DEF RefillAndDeliver
<1>2. CASE RefillFails
  <2>1. rdSlot # NoSlot /\ rdBuf \in Bufs
    BY <1>2 DEF RefillFails, IInv, DataTypes, RingInv
  <2>2. /\ cache' \subseteq Bufs /\ pool' \subseteq Bufs /\ upper' \subseteq Bufs
        /\ delivered' \in 0 .. MaxPkts
    BY <1>2 DEF RefillFails, IInv, DataTypes
  <2> QED  BY <1>2, <2>1, <2>2, AssignIInv DEF RefillFails
<1> QED  BY <1>1, <1>2

LEMMA RunnerIInv ==
  ASSUME IInv, RunnerWrites \/ StackFrees
  PROVE  IInv'
<1> USE RingAssumption DEF IInv, Slots, NoSlot, Entries, Pointers,
        ringVars, bufVars, descVars, readVars, runnerVars
<1>1. CASE RunnerWrites
  <2>1. /\ base = "live" /\ runnerSize = num_of_entries /\ runnerWr \in Entries
        /\ num_of_entries \in 1 .. MaxEntries
    BY <1>1 DEF RunnerWrites, RingInv, DataTypes
  <2>2. (runnerWr + 1) % runnerSize \in 0 .. (num_of_entries - 1)
    BY <2>1
  <2>3. runnerWr' \in Slots /\ runnerWr' < num_of_entries
    BY <1>1, <2>1, <2>2 DEF RunnerWrites
  <2>4. DataTypes'
    BY <1>1, <2>3 DEF RunnerWrites, DataTypes
  <2>5. \A i \in Slots : ownership'[i] = "HOST" => word2'[i] # NoBuf
    BY <1>1, <2>1 DEF RunnerWrites, RingInv, DataTypes
  <2>6. RingInv'
    BY <1>1, <2>1, <2>3, <2>5 DEF RunnerWrites, RingInv
  <2> QED  BY <2>4, <2>6
<1>2. CASE StackFrees
  BY <1>2 DEF StackFrees, DataTypes, RingInv
<1> QED  BY <1>1, <1>2

LEMMA NextIInv ==
  ASSUME IInv, [Next]_vars
  PROVE  IInv'
<1>1. CASE UNCHANGED vars
  BY <1>1 DEF vars, ringVars, bufVars, descVars, readVars, runnerVars,
              IInv, DataTypes, RingInv, Entries
<1> QED
  BY <1>1, CreateIInv, DeleteIInv, FlushIInv, ReadIInv, RefillIInv, RunnerIInv
     DEF Next, Control, Read, Environment

\* Flags hold truth values.
LEMMA FlagsStep ==
  ASSUME FlagTypes, [Next]_vars
  PROVE  FlagTypes'
<1> USE DEF FlagTypes, ringVars, runnerVars, rdd_ring_init, rdd_ring_destroy, SetRingParameters
<1>1. CASE UNCHANGED vars
  BY <1>1, Zenon DEF vars
<1>2. ASSUME NEW n \in 1 .. MaxEntries, Create(n) PROVE FlagTypes'
  BY <1>2, Zenon DEF Create, CreateRing, CreateRingNoShell, RingReady, CreateRingNoBuffers,
                     CreateRingNoCache, CreateRingNoBase
<1>3. CASE DeleteRing
  BY <1>3, Zenon DEF DeleteRing
<1>4. CASE FlushRing
  BY <1>4, Zenon DEF FlushRing
<1>5. CASE SetAdminStatus
  BY <1>5, Zenon DEF SetAdminStatus
<1>6. CASE Read
  BY <1>6, Zenon DEF Read, ReadPacketFromRing, RefillAndDeliver, RefillFails
<1>7. CASE Environment
  BY <1>7, Zenon DEF Environment, RunnerStarts, RunnerWrites, StackFrees
<1> QED
  BY <1>1, <1>2, <1>3, <1>4, <1>5, <1>6, <1>7, Zenon DEF Next, Control

-----------------------------------------------------------------------------
\* A ring that does not exist holds no buffer.
LEMMA NoRingNoBufs ==
  ASSUME IInv, num_of_entries = 0
  PROVE  (\A i \in Slots : word2[i] = NoBuf) /\ RingBufs = {} /\ cache = {}
BY RingAssumption DEF IInv, RingInv, DataTypes, RingBufs, Slots

\* Steps that move no buffer.
LEMMA BufsUnmoved ==
  ASSUME BufferConservation, \A i \in Slots : word2'[i] = word2[i],
         UNCHANGED <<cache, pool, upper>>
  PROVE  BufferConservation'
<1>1. RingBufs' = RingBufs  BY DEF RingBufs
<1> QED  BY <1>1 DEF BufferConservation

\* create splits a part S of the pool between the descriptors and the cache.
LEMMA CreateConserves ==
  ASSUME IInv, BufferConservation, NEW n \in 1 .. MaxEntries, RingReady(n)
  PROVE  BufferConservation'
<1> USE RingAssumption
<1>1. PICK S \in kSubset(Drawn(n), pool) :
        \E f \in [0 .. (n - 1) -> S] :
          /\ \A i, j \in 0 .. (n - 1) : i # j => f[i] # f[j]
          /\ word2' = [i \in Slots |-> IF i < n THEN f[i] ELSE NoBuf]
          /\ cache' = S \ {f[i] : i \in 0 .. (n - 1)}
          /\ pool' = pool \ S
  BY DEF RingReady
<1>2. PICK f \in [0 .. (n - 1) -> S] :
          /\ \A i, j \in 0 .. (n - 1) : i # j => f[i] # f[j]
          /\ word2' = [i \in Slots |-> IF i < n THEN f[i] ELSE NoBuf]
          /\ cache' = S \ {f[i] : i \in 0 .. (n - 1)}
          /\ pool' = pool \ S
  BY <1>1
<1>3. S \subseteq pool /\ S \subseteq Bufs
  BY <1>1 DEF kSubset, IInv, DataTypes
<1>4. RingBufs = {} /\ cache = {} /\ upper' = upper
  BY NoRingNoBufs DEF RingReady, SetRingParameters
<1>5. \A i \in Slots : word2'[i] = IF i < n THEN f[i] ELSE NoBuf
  BY <1>2
<1>6. RingBufs' = {f[i] : i \in 0 .. (n - 1)}
  BY <1>2, <1>3, <1>5 DEF RingBufs, Slots
<1>7. RingBufs' \subseteq S /\ cache' = S \ RingBufs' /\ pool' = pool \ S
  BY <1>2, <1>6
<1>8. \A i, j \in Slots : word2'[i] = word2'[j] /\ word2'[i] # NoBuf => i = j
  BY <1>2, <1>5 DEF Slots
<1> QED  BY <1>3, <1>4, <1>7, <1>8 DEF BufferConservation

\* delete returns the buffers of descriptors and cache, and leaves none behind.
LEMMA DeleteConserves ==
  ASSUME IInv, BufferConservation, DeleteRing
  PROVE  BufferConservation'
<1> USE RingAssumption
<1>1. FreedBuffers(word2, num_of_entries, cache) = RingBufs \cup cache
  <2>1. {word2[i] : i \in {j \in 0 .. (num_of_entries - 1) : word2[j] # NoBuf}} = RingBufs
    BY DEF RingBufs, IInv, RingInv, DataTypes, Slots
  <2> QED  BY <2>1, Zenon DEF FreedBuffers
<1>2. pool' = pool \cup RingBufs \cup cache /\ cache' = {} /\ upper' = upper
  BY <1>1 DEF DeleteRing
<1>3. \A i \in Slots : word2'[i] = NoBuf
  BY DEF DeleteRing, EmptyDescriptors
<1>4. RingBufs' = {}
  BY <1>3 DEF RingBufs
<1> QED  BY <1>2, <1>3, <1>4 DEF BufferConservation

\* An allocation takes one buffer out of cache and pool.
LEMMA AllocConserves ==
  ASSUME IInv, BufferConservation, NEW b, rdp_databuf_alloc(b)
  PROVE  /\ b \in cache \cup pool
         /\ cache' \cup pool' = (cache \cup pool) \ {b}
         /\ cache' \cap pool' = {}
BY DEF rdp_databuf_alloc, kSubset, BufferConservation

\* A refill replaces the buffer of the descriptor, which goes to the stack.
LEMMA RefillConserves ==
  ASSUME IInv, BufferConservation, RefillAndDeliver
  PROVE  BufferConservation'
<1> USE RingAssumption
<1>1. PICK b : rdp_databuf_alloc(b) /\ AssignPacketBuffertoRing(b)
  BY DEF RefillAndDeliver
<1>2. /\ b \in cache \cup pool
      /\ cache' \cup pool' = (cache \cup pool) \ {b}
      /\ cache' \cap pool' = {}
  BY <1>1, AllocConserves
<1>3. b \in Bufs /\ b # NoBuf
  BY <1>1, AllocTypes
<1>4. /\ rdSlot \in Slots /\ word2[rdSlot] = rdBuf /\ rdBuf # NoBuf
      /\ rdBuf \in RingBufs /\ upper' = upper \cup {rdBuf}
  BY DEF RefillAndDeliver, IInv, RingInv, DataTypes, RingBufs
<1>5. \A i \in Slots : word2'[i] = IF i = rdSlot THEN b ELSE word2[i]
  BY <1>1, <1>4 DEF AssignPacketBuffertoRing, IInv, DataTypes
<1>6. b \notin RingBufs /\ b \notin upper
  BY <1>2 DEF BufferConservation
<1>7. \A i \in Slots : word2[i] # b
  BY <1>3, <1>6 DEF RingBufs
<1>8. \A i \in Slots : i # rdSlot => word2[i] # rdBuf
  BY <1>4 DEF BufferConservation
<1>9. RingBufs' = (RingBufs \ {rdBuf}) \cup {b}
  BY <1>3, <1>4, <1>5, <1>8 DEF RingBufs
<1>10. \A i, j \in Slots : word2'[i] = word2'[j] /\ word2'[i] # NoBuf => i = j
  BY <1>5, <1>7 DEF BufferConservation
<1> QED  BY <1>2, <1>4, <1>6, <1>9, <1>10 DEF BufferConservation

LEMMA NextConserves ==
  ASSUME IInv, BufferConservation, [Next]_vars
  PROVE  BufferConservation'
<1> USE RingAssumption DEF ringVars, bufVars, descVars, readVars, runnerVars
<1>1. ASSUME NEW n \in 1 .. MaxEntries,
             CreateRingNoBuffers(n) \/ CreateRingNoCache(n) \/ CreateRingNoBase(n)
      PROVE  BufferConservation'
  <2>1. \A i \in Slots : word2[i] = NoBuf
    BY <1>1, NoRingNoBufs
       DEF CreateRingNoBuffers, CreateRingNoCache, CreateRingNoBase, SetRingParameters
  <2>2. \A i \in Slots : word2'[i] = word2[i]
    BY <1>1, <2>1
       DEF CreateRingNoBuffers, CreateRingNoCache, CreateRingNoBase, EmptyDescriptors
  <2>3. UNCHANGED <<cache, pool, upper>>
    <3>1. CASE CreateRingNoBuffers(n)
      <4>1. cache = {}
        BY <3>1, NoRingNoBufs DEF CreateRingNoBuffers, SetRingParameters
      <4> QED  BY <3>1, <4>1, NoBuffersReturned
    <3>2. CASE CreateRingNoCache(n) \/ CreateRingNoBase(n)
      BY <3>2 DEF CreateRingNoCache, CreateRingNoBase
    <3> QED  BY <1>1, <3>1, <3>2
  <2> QED  BY <2>2, <2>3, BufsUnmoved
<1>2. CASE FlushRing \/ SetAdminStatus \/ ReadPacketFromRing \/ RunnerStarts \/ RunnerWrites
           \/ UNCHANGED vars
  <2>1. UNCHANGED <<word2, cache, pool, upper>>
    BY <1>2 DEF FlushRing, SetAdminStatus, ReadPacketFromRing, RunnerStarts, RunnerWrites, vars
  <2> QED  BY <2>1, BufsUnmoved
<1>3. CASE RefillFails
  <2>1. \A i \in Slots : word2'[i] = word2[i]
    BY <1>3 DEF RefillFails, AssignPacketBuffertoRing, IInv, RingInv, DataTypes
  <2>2. UNCHANGED <<cache, pool, upper>>
    BY <1>3 DEF RefillFails
  <2> QED  BY <2>1, <2>2, BufsUnmoved
<1>4. CASE StackFrees
  <2>1. PICK b \in upper : /\ upper' = upper \ {b} /\ pool' = pool \cup {b}
                           /\ UNCHANGED <<word2, cache>>
    BY <1>4 DEF StackFrees
  <2>2. RingBufs' = RingBufs  BY <2>1 DEF RingBufs
  <2> QED  BY <2>1, <2>2 DEF BufferConservation
<1> QED
  BY <1>1, <1>2, <1>3, <1>4, CreateCases, CreateConserves, DeleteConserves, RefillConserves
     DEF Next, Control, Read, Environment

-----------------------------------------------------------------------------
(***************************************************************************)
(* The variables of the ring keep their types: head and the Runner's next  *)
(* descriptor never leave the ring, for every size, whichever allocations  *)
(* fail and whenever a flush comes.                                        *)
(***************************************************************************)
THEOREM TypeCorrect == Spec => []TypeOK
<1>1. Init => FlagTypes
  BY Zenon DEF Init, FlagTypes
<1>2. IInv => DataTypes
  BY DEF IInv
<1> QED
  BY <1>1, <1>2, InitIInv, NextIInv, FlagsStep, TypeParts, PTL DEF Spec

(***************************************************************************)
(* No buffer of the pool is ever lost or owned twice, for every pool, ring *)
(* and bulk size, with failing allocations in create and refill, and with  *)
(* a whole flush between the halves of a read, which no lock prevents.     *)
(***************************************************************************)
THEOREM BuffersConserved == Spec => []BufferConservation
<1>1. Init => BufferConservation
  BY DEF Init, BufferConservation, RingBufs
<1> QED
  BY <1>1, InitIInv, NextIInv, NextConserves, PTL DEF Spec

(***************************************************************************)
(* Without failing memory allocations a ring that exists has its memory,   *)
(* also after a create that ran out of buffers.  (With them it may not:    *)
(* the run CpuRingFailedCreate shows how.)                                 *)
(***************************************************************************)
THEOREM ExistingRingIsLiveHolds == ~MemFails /\ Spec => []ExistingRingIsLive
<1> SUFFICES ASSUME ~MemFails
             PROVE  Spec => []ExistingRingIsLive
  OBVIOUS
<1>1. Init => ExistingRingIsLive
  BY DEF Init, ExistingRingIsLive
<1>2. ASSUME ExistingRingIsLive, [Next]_vars PROVE ExistingRingIsLive'
  <2> USE DEF ExistingRingIsLive, ringVars, SetRingParameters
  <2>1. ASSUME NEW n \in 1 .. MaxEntries, Create(n) PROVE ExistingRingIsLive'
    BY <2>1, CreateCases DEF RingReady, CreateRingNoBuffers, CreateRingNoCache, CreateRingNoBase
  <2>2. CASE DeleteRing
    BY <2>2 DEF DeleteRing
  <2>3. CASE FlushRing \/ SetAdminStatus \/ Read \/ Environment \/ UNCHANGED vars
    <3>1. UNCHANGED <<num_of_entries, base, buff_cache>>
      BY <2>3 DEF FlushRing, SetAdminStatus, Read, ReadPacketFromRing, RefillAndDeliver,
                  RefillFails, Environment, RunnerStarts, RunnerWrites, StackFrees, vars
    <3> QED  BY <3>1, <1>2
  <2> QED  BY <1>2, <2>1, <2>2, <2>3 DEF Next, Control
<1> QED  BY <1>1, <1>2, PTL DEF Spec

-----------------------------------------------------------------------------
(* The descriptors of the host.                                            *)

\* % on the numbers that ring positions lead to.
LEMMA ModWrap ==
  ASSUME NEW n \in Nat \ {0}, NEW a \in Int
  PROVE  /\ a \in 0 .. (n - 1) => a % n = a
         /\ a \in n .. (2 * n - 1) => a % n = a - n
         /\ a \in -n .. -1 => a % n = a + n
<1> DEFINE q == a \div n
           r == a % n
<1>1. q \in Int /\ r \in 0 .. (n - 1) /\ a = n * q + r
  OBVIOUS
<1> HIDE DEF q, r
<1>2. q >= 1 => n * q >= n
  BY <1>1
<1>3. q >= 2 => n * q >= 2 * n
  BY <1>1
<1>4. q <= -1 => n * q <= -n
  BY <1>1
<1>5. q <= -2 => n * q <= -2 * n
  BY <1>1
<1>6. (q = 0 => n * q = 0) /\ (q = 1 => n * q = n) /\ (q = -1 => n * q = -n)
  BY <1>1
<1> QED  BY <1>1, <1>2, <1>3, <1>4, <1>5, <1>6 DEF r

\* A ring of n descriptors without %: the descriptor x places after descriptor 0,
\* how far descriptor i is ahead of descriptor h, and that of the descriptors
\* with the owners own the host has k, from h on.
Wrap(n, x) == IF x < n THEN x ELSE x - n

Ahead(n, h, i) == IF i >= h THEN i - h ELSE i - h + n

HostHas(n, h, own, k) == \A i \in 0 .. (n - 1) : own[i] = "HOST" <=> Ahead(n, h, i) < k

\* The Runner fills the descriptor after the host's.
LEMMA HostGains ==
  ASSUME NEW n \in Nat \ {0}, NEW h \in 0 .. (n - 1), NEW k \in 0 .. n, NEW w \in 0 .. (n - 1),
         NEW own, NEW own1, HostHas(n, h, own, k), Wrap(n, h + k) = w, own[w] # "HOST",
         \A i \in 0 .. (n - 1) : own1[i] = "HOST" <=> own[i] = "HOST" \/ i = w
  PROVE  k + 1 \in 0 .. n /\ HostHas(n, h, own1, k + 1) /\ Wrap(n, h + k + 1) = (w + 1) % n
<1>1. k < n
  BY DEF HostHas, Ahead, Wrap
<1>2. (w + 1) % n = Wrap(n, w + 1)
  <2>1. w + 1 \in Int /\ (w + 1 \in 0 .. (n - 1) \/ (w + 1 = n /\ w + 1 \in n .. (2 * n - 1)))
    OBVIOUS
  <2>2. CASE w + 1 \in 0 .. (n - 1)
    <3>1. (w + 1) % n = w + 1
      BY <2>1, <2>2, ModWrap
    <3> QED  BY <2>2, <3>1 DEF Wrap
  <2>3. CASE w + 1 = n
    <3>1. n \in Int /\ n \in n .. (2 * n - 1)
      OBVIOUS
    <3>2. n % n = n - n
      BY <3>1, ModWrap
    <3> QED  BY <2>3, <3>2 DEF Wrap
  <2> QED  BY <2>1, <2>2, <2>3
<1>3. Wrap(n, w + 1) = Wrap(n, h + k + 1)
  BY <1>1 DEF Wrap
<1>4. \A i \in 0 .. (n - 1) : i = w <=> Ahead(n, h, i) = k
  BY <1>1 DEF Wrap, Ahead
<1>5. \A i \in 0 .. (n - 1) : Ahead(n, h, i) \in Nat
  BY DEF Ahead
<1>6. HostHas(n, h, own1, k + 1)
  BY <1>4, <1>5 DEF HostHas
<1> QED  BY <1>1, <1>2, <1>3, <1>6

\* The host gives the descriptor at its head back and moves on.
LEMMA HostReturns ==
  ASSUME NEW n \in Nat \ {0}, NEW h \in 0 .. (n - 1), NEW k \in 0 .. n,
         NEW own, NEW own1, HostHas(n, h, own, k), own[h] = "HOST",
         \A i \in 0 .. (n - 1) : own1[i] = "HOST" <=> own[i] = "HOST" /\ i # h
  PROVE  /\ k - 1 \in 0 .. n /\ HostHas(n, Wrap(n, h + 1), own1, k - 1)
         /\ Wrap(n, Wrap(n, h + 1) + (k - 1)) = Wrap(n, h + k)
<1>1. k >= 1
  BY DEF HostHas, Ahead
<1>2. Wrap(n, Wrap(n, h + 1) + (k - 1)) = Wrap(n, h + k)
  BY <1>1 DEF Wrap
<1>3. \A i \in 0 .. (n - 1) : i # h => Ahead(n, Wrap(n, h + 1), i) = Ahead(n, h, i) - 1
  BY DEF Wrap, Ahead
<1>4. Ahead(n, Wrap(n, h + 1), h) = n - 1
  BY DEF Wrap, Ahead
<1>5. \A i \in 0 .. (n - 1) : Ahead(n, h, i) \in Nat
  BY DEF Ahead
<1>6. HostHas(n, Wrap(n, h + 1), own1, k - 1)
  BY <1>1, <1>3, <1>4, <1>5 DEF HostHas
<1> QED  BY <1>1, <1>2, <1>6

\* A new or flushed ring.
LEMMA HostHasNone ==
  ASSUME NEW n \in 0 .. MaxEntries, NEW own, \A i \in Slots : own[i] = "RUNNER"
  PROVE  HostHas(n, 0, own, 0)
<1>1. \A i \in 0 .. (n - 1) : i \in Slots
  BY RingAssumption DEF Slots
<1>2. \A i \in 0 .. (n - 1) : own[i] # "HOST" /\ Ahead(n, 0, i) = i
  BY <1>1 DEF Ahead
<1> QED  BY <1>2 DEF HostHas

\* RingSync in these terms, with what it needs to be inductive: a ring the
\* Runner has not been given yet is empty from descriptor 0 on, and a read holds
\* the packet of the descriptor at head, which is still the host's.
SyncInv ==
  /\ base # "live" => \A i \in Slots : ownership[i] = "RUNNER"
  /\ base = "live" /\ ~runnerOn => head = 0 /\ HostHas(num_of_entries, head, ownership, 0)
  /\ runnerOn => \E k \in 0 .. num_of_entries :
                   /\ Wrap(num_of_entries, head + k) = runnerWr
                   /\ HostHas(num_of_entries, head, ownership, k)
  /\ rdSlot # NoSlot => rdSlot = head /\ ownership[head] = "HOST" /\ rdPkt = pkt[head]

LEMMA SyncImplies ==
  ASSUME IInv, SyncInv
  PROVE  RingSync
<1> SUFFICES ASSUME runnerOn
             PROVE  /\ head < num_of_entries /\ end = num_of_entries /\ runnerSize = num_of_entries
                    /\ \E k \in 0 .. num_of_entries :
                         /\ (head + k) % num_of_entries = runnerWr
                         /\ \A i \in Entries : ownership[i] = "HOST" <=> Distance(i) < k
  BY DEF RingSync
<1> DEFINE n == num_of_entries
<1>1. /\ n \in Nat \ {0} /\ head \in 0 .. (n - 1)
      /\ end = n /\ runnerSize = n
  BY RingAssumption DEF IInv, DataTypes, RingInv, Slots
<1>2. PICK k \in 0 .. n : Wrap(n, head + k) = runnerWr /\ HostHas(n, head, ownership, k)
  BY DEF SyncInv
<1>3. (head + k) % n = Wrap(n, head + k)
  BY <1>1, ModWrap, SMTT(30) DEF Wrap
<1>4. ASSUME NEW i \in Entries PROVE Distance(i) = Ahead(n, head, i)
  <2>1. i - head \in 0 .. (n - 1) \/ (i - head \in -n .. -1 /\ i < head)
    BY <1>1 DEF Entries
  <2>2. (i - head) % n = Ahead(n, head, i)
    BY <1>1, <2>1, ModWrap DEF Ahead, Entries
  <2> QED  BY <2>2 DEF Distance
<1> QED  BY <1>1, <1>2, <1>3, <1>4 DEF HostHas, Entries

LEMMA InitSync == Init => SyncInv
BY DEF Init, SyncInv

\* An empty ring, or none.
LEMMA EmptySync ==
  ASSUME IInv', head' = 0 \/ base' # "live", rdSlot' = NoSlot,
         \A i \in Slots : ownership'[i] = "RUNNER",
         runnerOn' => runnerWr' = 0
  PROVE  SyncInv'
<1>1. num_of_entries' \in 0 .. MaxEntries /\ (runnerOn' => base' = "live" /\ num_of_entries' > 0)
  BY RingAssumption DEF IInv, DataTypes, RingInv, Slots
<1>2. HostHas(num_of_entries', 0, ownership', 0)
  BY <1>1, HostHasNone
<1>3. head' = 0 => HostHas(num_of_entries', head', ownership', 0)
  BY <1>2
<1>4. runnerOn' => Wrap(num_of_entries', head' + 0) = runnerWr' /\ head' = 0
  BY <1>1 DEF Wrap
<1> QED  BY <1>1, <1>3, <1>4 DEF SyncInv

\* Without a ring the Runner is stopped and no read is under way.
LEMMA NoRingIdle ==
  ASSUME IInv, SyncInv, num_of_entries = 0
  PROVE  ~runnerOn /\ rdSlot = NoSlot /\ base # "live" /\ \A i \in Slots : ownership[i] = "RUNNER"
BY DEF IInv, RingInv, SyncInv

LEMMA CreateSync ==
  ASSUME IInv, IInv', SyncInv, NEW n \in 1 .. MaxEntries, Create(n)
  PROVE  SyncInv'
<1> USE DEF SetRingParameters, EmptyDescriptors, rdd_ring_destroy, runnerVars, readVars, descVars
<1>1. num_of_entries = 0
  BY CreateCases DEF RingReady, CreateRingNoBuffers, CreateRingNoCache, CreateRingNoBase
<1>2. ~runnerOn /\ rdSlot = NoSlot /\ base # "live" /\ \A i \in Slots : ownership[i] = "RUNNER"
  BY <1>1, NoRingIdle
<1>3. rdSlot' = NoSlot /\ ~runnerOn' /\ (head' = 0 \/ base' # "live")
  BY <1>2, CreateCases DEF RingReady, CreateRingNoBuffers, CreateRingNoCache, CreateRingNoBase
<1>4. \A i \in Slots : ownership'[i] = "RUNNER"
  BY <1>2, CreateCases DEF RingReady, CreateRingNoBuffers, CreateRingNoCache, CreateRingNoBase
<1> QED  BY <1>3, <1>4, EmptySync

LEMMA ControlSync ==
  ASSUME ~FlushRaces, IInv, IInv', SyncInv, DeleteRing \/ FlushRing \/ RunnerStarts
  PROVE  SyncInv'
<1> USE DEF readVars
<1>1. CASE DeleteRing
  <2>1. rdSlot' = NoSlot /\ ~runnerOn' /\ base' # "live"
    BY <1>1 DEF DeleteRing, rdd_ring_destroy
  <2>2. \A i \in Slots : ownership'[i] = "RUNNER"
    BY <1>1 DEF DeleteRing, EmptyDescriptors
  <2> QED  BY <2>1, <2>2, EmptySync
<1>2. CASE FlushRing
  <2>1. rdSlot' = NoSlot /\ head' = 0 /\ runnerWr' = 0 /\ base = "live"
    BY <1>2 DEF FlushRing, rdd_ring_init
  <2>2. ASSUME NEW i \in Slots PROVE ownership'[i] = "RUNNER"
    <3>1. i >= end => ownership[i] = "RUNNER"
      BY <2>1 DEF IInv, RingInv, DataTypes, Slots
    <3>2. ownership'[i] = IF i < end THEN "RUNNER" ELSE ownership[i]
      BY <1>2 DEF FlushRing
    <3> QED  BY <3>1, <3>2 DEF IInv, DataTypes, Slots
  <2> QED  BY <2>1, <2>2, EmptySync
<1>3. CASE RunnerStarts
  <2>1. /\ head = 0 /\ HostHas(num_of_entries, head, ownership, 0) /\ num_of_entries \in Nat \ {0}
        /\ runnerOn' /\ runnerWr' = 0
        /\ UNCHANGED <<base, head, num_of_entries, ownership, pkt, rdSlot, rdPkt>>
    BY <1>3, RingAssumption
       DEF RunnerStarts, SyncInv, rdd_ring_init, ringVars, descVars, IInv, DataTypes
  <2>2. Wrap(num_of_entries, head + 0) = 0 /\ 0 \in 0 .. num_of_entries
    BY <2>1 DEF Wrap
  <2> QED  BY <2>1, <2>2 DEF SyncInv
<1> QED  BY <1>1, <1>2, <1>3

\* A read in either half.
LEMMA ReadSync ==
  ASSUME IInv, SyncInv, Read
  PROVE  SyncInv'
<1> USE DEF runnerVars, ringVars, descVars, bufVars
<1>1. CASE ReadPacketFromRing
  BY <1>1 DEF ReadPacketFromRing, SyncInv
<1>2. CASE RefillAndDeliver \/ RefillFails
  <2> DEFINE n == num_of_entries
  <2>1. /\ rdSlot # NoSlot /\ rdSlot' = NoSlot
        /\ ownership' = [ownership EXCEPT ![rdSlot] = "RUNNER"]
        /\ head' = (IF head + 1 = end THEN 0 ELSE head + 1)
        /\ UNCHANGED <<num_of_entries, base, runnerOn, runnerWr>>
    BY <1>2 DEF RefillAndDeliver, RefillFails, AssignPacketBuffertoRing
  <2>2. /\ rdSlot = head /\ ownership[head] = "HOST" /\ base = "live"
        /\ n \in Nat \ {0} /\ head \in 0 .. (n - 1) /\ end = n
        /\ 0 .. (n - 1) \subseteq Slots
    BY <2>1, RingAssumption DEF SyncInv, IInv, RingInv, DataTypes, Slots
  <2>3. runnerOn
    <3>1. HostHas(n, head, ownership, 0) => FALSE
      BY <2>2 DEF HostHas, Ahead
    <3> QED  BY <3>1, <2>2 DEF SyncInv
  <2>4. PICK k \in 0 .. n : Wrap(n, head + k) = runnerWr /\ HostHas(n, head, ownership, k)
    BY <2>3 DEF SyncInv
  <2>5. head' = Wrap(n, head + 1)
    BY <2>1, <2>2 DEF Wrap
  <2>6. \A i \in 0 .. (n - 1) : ownership'[i] = "HOST" <=> ownership[i] = "HOST" /\ i # head
    BY <2>1, <2>2 DEF IInv, DataTypes
  <2> HIDE DEF n
  <2>7. /\ k - 1 \in 0 .. n /\ HostHas(n, Wrap(n, head + 1), ownership', k - 1)
        /\ Wrap(n, Wrap(n, head + 1) + (k - 1)) = Wrap(n, head + k)
    BY <2>2, <2>4, <2>6, HostReturns
  <2>8. n' = n /\ runnerOn' /\ base' = "live" /\ rdSlot' = NoSlot
    BY <2>1, <2>2, <2>3 DEF n
  <2>9. \E j \in 0 .. n : Wrap(n, head' + j) = runnerWr' /\ HostHas(n, head', ownership', j)
    BY <2>1, <2>4, <2>5, <2>7
  <2> QED  BY <2>8, <2>9 DEF SyncInv, n
<1> QED  BY <1>1, <1>2 DEF Read

LEMMA RunnerSync ==
  ASSUME IInv, SyncInv, RunnerWrites
  PROVE  SyncInv'
<1> DEFINE n == num_of_entries
<1>1. /\ runnerOn /\ ownership[runnerWr] = "RUNNER"
      /\ pkt' = [pkt EXCEPT ![runnerWr] = arrived + 1]
      /\ ownership' = [ownership EXCEPT ![runnerWr] = "HOST"]
      /\ runnerWr' = (runnerWr + 1) % n
      /\ UNCHANGED <<num_of_entries, base, head, runnerOn, rdSlot, rdPkt>>
  BY DEF RunnerWrites, ringVars, readVars, IInv, RingInv
<1>2. /\ base = "live" /\ n \in Nat \ {0} /\ head \in 0 .. (n - 1) /\ runnerWr \in 0 .. (n - 1)
      /\ 0 .. (n - 1) \subseteq Slots
  BY <1>1, RingAssumption DEF IInv, RingInv, DataTypes, Slots
<1>3. PICK k \in 0 .. n : Wrap(n, head + k) = runnerWr /\ HostHas(n, head, ownership, k)
  BY <1>1 DEF SyncInv
<1>4. \A i \in 0 .. (n - 1) : ownership'[i] = "HOST" <=> ownership[i] = "HOST" \/ i = runnerWr
  BY <1>1, <1>2 DEF IInv, DataTypes
<1>5. rdSlot' # NoSlot => rdSlot' = head /\ ownership'[head] = "HOST" /\ rdPkt' = pkt'[head]
  <2>1. \A i \in Slots : i # runnerWr => ownership'[i] = ownership[i] /\ pkt'[i] = pkt[i]
    BY <1>1 DEF IInv, DataTypes
  <2>2. rdSlot # NoSlot => rdSlot = head /\ ownership[head] = "HOST" /\ rdPkt = pkt[head]
    BY DEF SyncInv
  <2>3. rdSlot # NoSlot => head # runnerWr
    BY <2>2, <1>1
  <2>4. head \in Slots
    BY <1>2
  <2> QED  BY <2>1, <2>2, <2>3, <2>4, <1>1
<1> HIDE DEF n
<1>6. k + 1 \in 0 .. n /\ HostHas(n, head, ownership', k + 1)
      /\ Wrap(n, head + k + 1) = (runnerWr + 1) % n
  <2>1. ownership[runnerWr] # "HOST"
    BY <1>1
  <2>2. n \in Nat \ {0} /\ head \in 0 .. (n - 1) /\ runnerWr \in 0 .. (n - 1)
    BY <1>2
  <2> QED  BY <1>3, <1>4, <2>1, <2>2, HostGains, SMTT(30)
<1>7. head + (k + 1) = head + k + 1
  BY <1>2, <1>3
<1>8. \E j \in 0 .. n : Wrap(n, head + j) = runnerWr' /\ HostHas(n, head, ownership', j)
  BY <1>1, <1>6, <1>7
<1> QED  BY <1>1, <1>2, <1>5, <1>8 DEF SyncInv, n

LEMMA NextSync ==
  ASSUME ~FlushRaces, IInv, IInv', SyncInv, [Next]_vars
  PROVE  SyncInv'
<1>1. CASE SetAdminStatus \/ StackFrees \/ UNCHANGED vars
  <2>1. UNCHANGED <<num_of_entries, base, head, ownership, pkt, runnerOn, runnerWr, rdSlot, rdPkt>>
    BY <1>1 DEF SetAdminStatus, StackFrees, vars, ringVars, descVars, readVars, runnerVars
  <2> QED  BY <2>1 DEF SyncInv
<1> QED  BY <1>1, CreateSync, ControlSync, ReadSync, RunnerSync DEF Next, Control, Environment

(***************************************************************************)
(* While no flush comes between the halves of a read, host and Runner      *)
(* agree where the packets are, for every size of ring: the host owns      *)
(* exactly the descriptors from head up to the Runner's next one.          *)
(***************************************************************************)
THEOREM RingSyncHolds == ~FlushRaces /\ Spec => []RingSync
<1> SUFFICES ASSUME ~FlushRaces
             PROVE  Spec => []RingSync
  OBVIOUS
<1>1. IInv /\ SyncInv /\ [Next]_vars => IInv' /\ SyncInv'
  BY NextIInv, NextSync
<1> QED  BY <1>1, InitIInv, InitSync, SyncImplies, PTL DEF Spec

-----------------------------------------------------------------------------
(* The ring implements PacketFifo.                                         *)

\* The k packets from descriptor h on.
Front(n, h, p, k) == [i \in 1 .. k |-> p[Wrap(n, h + i - 1)]]

\* The descriptors of the host among the first n, and how many they are.
HostSet(n, own) == {i \in 0 .. (n - 1) : own[i] = "HOST"}

LEMMA HostCount ==
  ASSUME NEW n \in Nat \ {0}, NEW h \in 0 .. (n - 1), NEW k \in 0 .. n, NEW own,
         HostHas(n, h, own, k)
  PROVE  Cardinality(HostSet(n, own)) = k
<1> DEFINE S == {i \in 0 .. (n - 1) : own[i] = "HOST"}
           f == [j \in 1 .. k |-> Wrap(n, h + j - 1)]
<1>1. \A j \in 1 .. k : Wrap(n, h + j - 1) \in 0 .. (n - 1) /\ Ahead(n, h, Wrap(n, h + j - 1)) = j - 1
  BY DEF Wrap, Ahead
<1>2. ASSUME NEW j \in 1 .. k PROVE f[j] \in S
  <2>1. f[j] = Wrap(n, h + j - 1) /\ f[j] \in 0 .. (n - 1) /\ Ahead(n, h, f[j]) = j - 1
    BY <1>1
  <2>2. Ahead(n, h, f[j]) < k
    BY <2>1
  <2> HIDE DEF f
  <2> QED  BY <2>1, <2>2 DEF HostHas
<1>3. \A i, j \in 1 .. k : f[i] = f[j] => i = j
  BY DEF Wrap
<1>4. ASSUME NEW i \in S PROVE \E j \in 1 .. k : f[j] = i
  <2>1. Ahead(n, h, i) < k /\ Ahead(n, h, i) \in Nat
    BY DEF HostHas, Ahead
  <2>2. Ahead(n, h, i) + 1 \in 1 .. k
    BY <2>1
  <2>3. Wrap(n, h + (Ahead(n, h, i) + 1) - 1) = i
    BY DEF Wrap, Ahead
  <2>4. f[Ahead(n, h, i) + 1] = i
    BY <2>2, <2>3
  <2> QED  BY <2>2, <2>4
<1>5. f \in Bijection(1 .. k, S)
  <2>1. f \in [1 .. k -> S]
    BY <1>2
  <2> HIDE DEF f, S
  <2> QED  BY <2>1, <1>3, <1>4 DEF Bijection, Injection, Surjection, IsInjective
<1> HIDE DEF f, S
<1>6. ExistsBijection(1 .. k, S)
  BY <1>5 DEF ExistsBijection
<1> QED  BY <1>6, FS_CountingElements DEF S, HostSet

LEMMA WrapMod ==
  ASSUME NEW n \in Nat \ {0}, NEW h \in 0 .. (n - 1), NEW k \in 0 .. n, NEW i \in 1 .. k
  PROVE  (h + i - 1) % n = Wrap(n, h + i - 1)
<1> DEFINE a == h + i - 1
<1>1. a \in Int /\ (a \in 0 .. (n - 1) \/ a \in n .. (2 * n - 1))
  OBVIOUS
<1> HIDE DEF a
<1>2. CASE a \in 0 .. (n - 1)
  <2>1. a % n = a  BY <1>1, <1>2, ModWrap
  <2> QED  BY <1>2, <2>1 DEF Wrap, a
<1>3. CASE a \in n .. (2 * n - 1)
  <2>1. a % n = a - n  BY <1>1, <1>3, ModWrap
  <2> QED  BY <1>3, <2>1 DEF Wrap, a
<1> QED  BY <1>1, <1>2, <1>3

\* The packets of the ring are in T.
AllIn(n, p, T) == \A i \in 0 .. (n - 1) : p[i] \in T

LEMMA FrontSeq ==
  ASSUME NEW m \in Nat \ {0}, NEW f \in 0 .. (m - 1), NEW l \in 0 .. m, NEW S,
         NEW r, AllIn(m, r, S)
  PROVE  /\ Front(m, f, r, l) \in Seq(S) /\ Len(Front(m, f, r, l)) = l
         /\ \A i \in 1 .. l : Front(m, f, r, l)[i] = r[Wrap(m, f + i - 1)]
<1>1. \A i \in 1 .. l : Wrap(m, f + i - 1) \in 0 .. (m - 1)
  BY DEF Wrap
<1>2. Front(m, f, r, l) \in [1 .. l -> S]
  BY <1>1 DEF Front, AllIn
<1> QED  BY <1>2 DEF Front

\* p1 is p but for the packet a in descriptor w.
Replaced(n, p, p1, w, a) ==
  p1[w] = a /\ \A i \in 0 .. (n - 1) : i # w => p1[i] = p[i]

\* A packet written behind the others is appended.
LEMMA FrontAppend ==
  ASSUME NEW n \in Nat \ {0}, NEW h \in 0 .. (n - 1), NEW k \in 0 .. (n - 1), NEW T,
         NEW p, AllIn(n, p, T),
         NEW p1, NEW a \in T, NEW w, w = Wrap(n, h + k), Replaced(n, p, p1, w, a)
  PROVE  Front(n, h, p1, k + 1) = Append(Front(n, h, p, k), a)
<1> DEFINE s == Front(n, h, p1, k + 1)
           t == Front(n, h, p, k)
<1>1. AllIn(n, p1, T)
  BY DEF Replaced, AllIn
<1>2. s \in Seq(T) /\ Len(s) = k + 1 /\ \A i \in 1 .. (k + 1) : s[i] = p1[Wrap(n, h + i - 1)]
  <2>1. k + 1 \in 0 .. n
    OBVIOUS
  <2> QED  BY <1>1, <2>1, FrontSeq
<1>3. t \in Seq(T) /\ Len(t) = k /\ \A i \in 1 .. k : t[i] = p[Wrap(n, h + i - 1)]
  <2>1. \A i \in 1 .. k : Wrap(n, h + i - 1) \in 0 .. (n - 1)
    BY DEF Wrap
  <2>2. t \in [1 .. k -> T]
    BY <2>1 DEF Front, AllIn
  <2>3. \A i \in 1 .. k : t[i] = p[Wrap(n, h + i - 1)]
    BY DEF Front
  <2> HIDE DEF t
  <2> QED  BY <2>2, <2>3
<1>4. \A i \in 1 .. k : Wrap(n, h + i - 1) \in 0 .. (n - 1) /\ Wrap(n, h + i - 1) # Wrap(n, h + k)
  BY DEF Wrap
<1> HIDE DEF s, t
<1>5. Append(t, a) \in Seq(T) /\ Len(Append(t, a)) = k + 1
  BY <1>3
<1>6. ASSUME NEW i \in 1 .. k PROVE s[i] = Append(t, a)[i]
  <2>1. s[i] = p1[Wrap(n, h + i - 1)]
    <3>1. i \in 1 .. (k + 1)
      OBVIOUS
    <3> QED  BY <1>2, <3>1
  <2>2. t[i] = p[Wrap(n, h + i - 1)]
    BY <1>3
  <2>3. p1[Wrap(n, h + i - 1)] = p[Wrap(n, h + i - 1)]
    BY <1>4 DEF Replaced
  <2>4. Append(t, a)[i] = t[i]
    BY <1>3
  <2> QED  BY <2>1, <2>2, <2>3, <2>4
<1>7. s[k + 1] = a /\ Append(t, a)[k + 1] = a
  <2>1. h + (k + 1) - 1 = h + k
    OBVIOUS
  <2> QED  BY <1>2, <1>3, <2>1 DEF Replaced
<1>8. ASSUME NEW i \in 1 .. Len(s) PROVE s[i] = Append(t, a)[i]
  <2>1. i \in 1 .. k \/ i = k + 1
    BY <1>2
  <2> QED  BY <2>1, <1>6, <1>7
<1>9. s = Append(t, a)
  BY <1>2, <1>5, <1>8, SeqEqual
<1> QED  BY <1>9 DEF s, t

\* Giving the descriptor at head back takes the first packet away.
LEMMA FrontTail ==
  ASSUME NEW n \in Nat \ {0}, NEW h \in 0 .. (n - 1), NEW k \in 1 .. n, NEW T,
         NEW p, AllIn(n, p, T)
  PROVE  /\ Front(n, h, p, k) # << >> /\ Head(Front(n, h, p, k)) = p[h]
         /\ Front(n, Wrap(n, h + 1), p, k - 1) = Tail(Front(n, h, p, k))
<1> DEFINE g == Wrap(n, h + 1)
           s == Front(n, g, p, k - 1)
           t == Front(n, h, p, k)
<1>1. g \in 0 .. (n - 1) /\ k - 1 \in 0 .. n /\ k \in 0 .. n
  BY DEF Wrap
<1>2. \A i \in 1 .. (k - 1) : Wrap(n, g + i - 1) = Wrap(n, h + (i + 1) - 1)
  BY DEF Wrap
<1>3. Wrap(n, h + 1 - 1) = h
  BY DEF Wrap
<1> HIDE DEF g
<1>4. s \in Seq(T) /\ Len(s) = k - 1 /\ \A i \in 1 .. (k - 1) : s[i] = p[Wrap(n, g + i - 1)]
  BY <1>1, FrontSeq, SMTT(30)
<1>5. t \in Seq(T) /\ Len(t) = k /\ \A i \in 1 .. k : t[i] = p[Wrap(n, h + i - 1)]
  <2>1. \A i \in 1 .. k : Wrap(n, h + i - 1) \in 0 .. (n - 1)
    BY DEF Wrap
  <2>2. t \in [1 .. k -> T]
    BY <2>1 DEF Front, AllIn
  <2>3. \A i \in 1 .. k : t[i] = p[Wrap(n, h + i - 1)]
    BY DEF Front
  <2> HIDE DEF t
  <2> QED  BY <2>2, <2>3
<1> HIDE DEF s, t
<1>6. t # << >> /\ Head(t) = p[h]
  BY <1>3, <1>5
<1>7. Tail(t) \in Seq(T) /\ Len(Tail(t)) = k - 1 /\ \A i \in 1 .. (k - 1) : Tail(t)[i] = t[i + 1]
  BY <1>5, <1>6
<1>8. ASSUME NEW i \in 1 .. Len(s) PROVE s[i] = Tail(t)[i]
  <2>1. i \in 1 .. (k - 1) /\ i + 1 \in 1 .. k
    BY <1>4
  <2>2. s[i] = p[Wrap(n, g + i - 1)] /\ t[i + 1] = p[Wrap(n, h + (i + 1) - 1)]
    BY <2>1, <1>4, <1>5
  <2>3. Wrap(n, g + i - 1) = Wrap(n, h + (i + 1) - 1)
    BY <2>1, <1>2
  <2> QED  BY <2>1, <2>2, <2>3, <1>7
<1>9. s = Tail(t)
  BY <1>4, <1>7, <1>8, SeqEqual
<1> QED  BY <1>6, <1>9 DEF s, t, g

\* The queue of a live ring, and of none, before and after a step.
LEMMA LiveQueue ==
  ASSUME IInv, base = "live", NEW k \in 0 .. num_of_entries,
         HostHas(num_of_entries, head, ownership, k)
  PROVE  Queue = Front(num_of_entries, head, pkt, k)
<1>1. num_of_entries \in Nat \ {0} /\ head \in 0 .. (num_of_entries - 1) /\ end = num_of_entries
  BY RingAssumption DEF IInv, RingInv, DataTypes, Slots
<1>2. Queue = [i \in 1 .. Cardinality(HostSet(num_of_entries, ownership)) |->
                 pkt[(head + i - 1) % num_of_entries]]
  BY <1>1 DEF Queue, rdp_cpu_ring_get_queued, HostSet
<1>3. Cardinality(HostSet(num_of_entries, ownership)) = k
  BY <1>1, HostCount
<1>4. \A i \in 1 .. k : (head + i - 1) % num_of_entries = Wrap(num_of_entries, head + i - 1)
  BY <1>1, WrapMod
<1> QED  BY <1>2, <1>3, <1>4 DEF Front

LEMMA InRing ==
  ASSUME NEW n \in 0 .. MaxEntries, NEW h \in Slots, h < n
  PROVE  n \in Nat \ {0} /\ h \in 0 .. (n - 1)
BY RingAssumption DEF Slots

LEMMA LiveRingNext ==
  ASSUME IInv', base' = "live"
  PROVE  /\ num_of_entries' \in Nat \ {0} /\ head' \in 0 .. (num_of_entries' - 1)
         /\ end' = num_of_entries'
<1>1. num_of_entries' \in 0 .. MaxEntries /\ head' \in Slots
  BY DEF IInv, DataTypes
<1>2. end' = num_of_entries' /\ head' < num_of_entries'
  BY DEF IInv, RingInv
<1> QED  BY <1>1, <1>2, InRing

LEMMA LiveQueueNext ==
  ASSUME IInv', base' = "live", NEW k \in 0 .. num_of_entries',
         HostHas(num_of_entries', head', ownership', k)
  PROVE  Queue' = Front(num_of_entries', head', pkt', k)
<1>1. /\ num_of_entries' \in Nat \ {0} /\ head' \in 0 .. (num_of_entries' - 1)
      /\ end' = num_of_entries'
  BY LiveRingNext
<1>2. Queue' = [i \in 1 .. Cardinality(HostSet(num_of_entries', ownership')) |->
                  pkt'[(head' + i - 1) % num_of_entries']]
  BY <1>1 DEF Queue, rdp_cpu_ring_get_queued, HostSet
<1>3. Cardinality(HostSet(num_of_entries', ownership')) = k
  BY <1>1, HostCount
<1>4. \A i \in 1 .. k : (head' + i - 1) % num_of_entries' = Wrap(num_of_entries', head' + i - 1)
  BY <1>1, WrapMod
<1> QED  BY <1>2, <1>3, <1>4 DEF Front

LEMMA NoHostSet ==
  ASSUME NEW e \in 0 .. MaxEntries, NEW own, \A i \in Slots : own[i] = "RUNNER"
  PROVE  Cardinality(HostSet(e, own)) = 0
<1>1. \A i \in 0 .. (e - 1) : i \in Slots
  BY RingAssumption DEF Slots
<1>2. HostSet(e, own) = {}
  BY <1>1 DEF HostSet
<1> QED  BY <1>2, FS_EmptySet

LEMMA EmptyQueue ==
  ASSUME IInv, \A i \in Slots : ownership[i] = "RUNNER"
  PROVE  Queue = << >>
<1>1. rdp_cpu_ring_get_queued = 0
  <2>1. end \in 0 .. MaxEntries
    BY DEF IInv, DataTypes
  <2>2. Cardinality(HostSet(end, ownership)) = 0
    BY <2>1, NoHostSet
  <2> QED  BY <2>2 DEF rdp_cpu_ring_get_queued, HostSet
<1> QED  BY <1>1 DEF Queue

LEMMA EmptyQueueNext ==
  ASSUME IInv', \A i \in Slots : ownership'[i] = "RUNNER"
  PROVE  Queue' = << >>
<1>1. rdp_cpu_ring_get_queued' = 0
  <2>1. end' \in 0 .. MaxEntries
    BY DEF IInv, DataTypes
  <2>2. Cardinality(HostSet(end', ownership')) = 0
    BY <2>1, NoHostSet
  <2> QED  BY <2>2 DEF rdp_cpu_ring_get_queued, HostSet
<1> QED  BY <1>1 DEF Queue

\* The steps of the ring, each a step of the FIFO or none.
LEMMA FifoRunnerWrites ==
  ASSUME IInv, IInv', SyncInv, RunnerWrites
  PROVE  Fifo!Arrive
<1>1. /\ runnerOn /\ arrived < MaxPkts /\ ownership[runnerWr] = "RUNNER"
      /\ arrived' = arrived + 1 /\ delivered' = delivered
      /\ pkt' = [pkt EXCEPT ![runnerWr] = arrived + 1]
      /\ ownership' = [ownership EXCEPT ![runnerWr] = "HOST"]
      /\ UNCHANGED <<num_of_entries, base, head>>
  BY DEF RunnerWrites, ringVars
<1> DEFINE n == num_of_entries
           T == 0 .. MaxPkts
<1>2. /\ base = "live" /\ n \in Nat \ {0} /\ head \in 0 .. (n - 1) /\ runnerWr \in 0 .. (n - 1)
      /\ 0 .. (n - 1) \subseteq Slots
  BY <1>1, RingAssumption DEF IInv, RingInv, DataTypes, Slots
<1>3. PICK k \in 0 .. n : Wrap(n, head + k) = runnerWr /\ HostHas(n, head, ownership, k)
  BY <1>1 DEF SyncInv
<1>4. \A i \in 0 .. (n - 1) : ownership'[i] = "HOST" <=> ownership[i] = "HOST" \/ i = runnerWr
  BY <1>1, <1>2 DEF IInv, DataTypes
<1>5. AllIn(n, pkt, T)
  BY <1>2 DEF IInv, DataTypes, AllIn
<1>6. pkt'[runnerWr] = arrived + 1 /\ \A i \in 0 .. (n - 1) : i # runnerWr => pkt'[i] = pkt[i]
  BY <1>1, <1>2 DEF IInv, DataTypes
<1>7. arrived + 1 \in T
  BY <1>1, RingAssumption DEF IInv, DataTypes
<1>8. Queue = Front(n, head, pkt, k)
  BY <1>2, <1>3, LiveQueue
<1> HIDE DEF n, T
<1>9. k + 1 \in 0 .. n /\ HostHas(n, head, ownership', k + 1)
  <2>1. ownership[runnerWr] # "HOST"
    BY <1>1
  <2>2. n \in Nat \ {0} /\ head \in 0 .. (n - 1) /\ runnerWr \in 0 .. (n - 1)
    BY <1>2
  <2> QED  BY <1>3, <1>4, <2>1, <2>2, HostGains
<1>10. Queue' = Front(n, head, pkt', k + 1)
  <2>1. num_of_entries' = n /\ head' = head /\ base' = "live"
    BY <1>1, <1>2 DEF n
  <2> QED  BY <1>9, <2>1, LiveQueueNext
<1>11. k \in 0 .. (n - 1)
  BY <1>2, <1>3, <1>9
<1>12. Front(n, head, pkt', k + 1) = Append(Front(n, head, pkt, k), arrived + 1)
  <2>1. Replaced(n, pkt, pkt', runnerWr, arrived + 1)
    BY <1>6 DEF Replaced
  <2>2. n \in Nat \ {0} /\ head \in 0 .. (n - 1) /\ runnerWr = Wrap(n, head + k)
    BY <1>2, <1>3
  <2> QED  BY <1>5, <1>7, <1>11, <2>1, <2>2, FrontAppend
<1> QED  BY <1>1, <1>8, <1>10, <1>12 DEF Fifo!Arrive

LEMMA FifoRefill ==
  ASSUME IInv, IInv', SyncInv, RefillAndDeliver \/ RefillFails
  PROVE  Fifo!Deliver \/ Fifo!DropFront
<1> DEFINE n == num_of_entries
           T == 0 .. MaxPkts
<1>1. /\ rdSlot # NoSlot
      /\ ownership' = [ownership EXCEPT ![rdSlot] = "RUNNER"]
      /\ head' = (IF head + 1 = end THEN 0 ELSE head + 1)
      /\ UNCHANGED <<num_of_entries, base, pkt, arrived>>
      /\ delivered' = rdPkt \/ delivered' = delivered
  BY DEF RefillAndDeliver, RefillFails, AssignPacketBuffertoRing
<1>2. /\ rdSlot = head /\ ownership[head] = "HOST" /\ base = "live" /\ rdPkt = pkt[head]
      /\ n \in Nat \ {0} /\ head \in 0 .. (n - 1) /\ end = n
      /\ 0 .. (n - 1) \subseteq Slots
  BY <1>1, RingAssumption DEF SyncInv, IInv, RingInv, DataTypes, Slots
<1>3. runnerOn
  <2>1. HostHas(n, head, ownership, 0) => FALSE
    BY <1>2 DEF HostHas, Ahead
  <2> QED  BY <2>1, <1>2 DEF SyncInv
<1>4. PICK k \in 0 .. n : HostHas(n, head, ownership, k)
  BY <1>3 DEF SyncInv
<1>5. head' = Wrap(n, head + 1)
  BY <1>1, <1>2 DEF Wrap
<1>6. \A i \in 0 .. (n - 1) : ownership'[i] = "HOST" <=> ownership[i] = "HOST" /\ i # head
  BY <1>1, <1>2 DEF IInv, DataTypes
<1>7. AllIn(n, pkt, T)
  BY <1>2 DEF IInv, DataTypes, AllIn
<1>8. Queue = Front(n, head, pkt, k)
  BY <1>2, <1>4, LiveQueue
<1> HIDE DEF n, T
<1>9. k - 1 \in 0 .. n /\ HostHas(n, Wrap(n, head + 1), ownership', k - 1)
  BY <1>2, <1>4, <1>6, HostReturns
<1>10. Queue' = Front(n, Wrap(n, head + 1), pkt, k - 1)
  <2>1. num_of_entries' = n /\ pkt' = pkt /\ base' = "live"
    BY <1>1, <1>2 DEF n
  <2> QED  BY <1>5, <1>9, <2>1, LiveQueueNext
<1>11. k \in 1 .. n
  BY <1>2, <1>4, <1>9
<1>12. /\ Front(n, head, pkt, k) # << >> /\ Head(Front(n, head, pkt, k)) = pkt[head]
       /\ Front(n, Wrap(n, head + 1), pkt, k - 1) = Tail(Front(n, head, pkt, k))
  BY <1>2, <1>7, <1>11, FrontTail
<1>13. Queue # << >> /\ Head(Queue) = rdPkt /\ Queue' = Tail(Queue) /\ arrived' = arrived
  BY <1>1, <1>2, <1>8, <1>10, <1>12
<1> QED  BY <1>1, <1>13 DEF Fifo!Deliver, Fifo!DropFront

\* Creating, deleting and flushing leave no packet.
LEMMA FifoControl ==
  ASSUME ~FlushRaces, IInv, IInv', SyncInv,
         \/ DeleteRing \/ FlushRing
         \/ \E n \in 1 .. MaxEntries : Create(n)
  PROVE  Fifo!Clear
<1> USE DEF SetRingParameters, EmptyDescriptors, descVars
<1>1. ASSUME NEW i \in Slots PROVE ownership'[i] = "RUNNER"
  <2>1. CASE DeleteRing
    BY <2>1 DEF DeleteRing
  <2>2. CASE FlushRing
    <3>1. base = "live" /\ ownership'[i] = IF i < end THEN "RUNNER" ELSE ownership[i]
      BY <2>2 DEF FlushRing
    <3>2. i >= end => ownership[i] = "RUNNER"
      BY <3>1 DEF IInv, RingInv, DataTypes, Slots
    <3> QED  BY <3>1, <3>2 DEF IInv, DataTypes, Slots
  <2>3. CASE \E n \in 1 .. MaxEntries : Create(n)
    <3>1. num_of_entries = 0
      BY <2>3, CreateCases
         DEF RingReady, CreateRingNoBuffers, CreateRingNoCache, CreateRingNoBase
    <3>2. ownership[i] = "RUNNER"
      BY <3>1, NoRingIdle
    <3> QED
      BY <2>3, <3>2, CreateCases
         DEF RingReady, CreateRingNoBuffers, CreateRingNoCache, CreateRingNoBase
  <2> QED  BY <2>1, <2>2, <2>3
<1>2. Queue' = << >>
  BY <1>1, EmptyQueueNext
<1>3. UNCHANGED <<arrived, delivered>>
  BY CreateCases
     DEF DeleteRing, FlushRing, RingReady, CreateRingNoBuffers, CreateRingNoCache, CreateRingNoBase
<1> QED  BY <1>2, <1>3 DEF Fifo!Clear

\* The other steps move no packet.
LEMMA FifoStutters ==
  ASSUME \/ SetAdminStatus \/ ReadPacketFromRing \/ RunnerStarts \/ StackFrees
         \/ UNCHANGED vars
  PROVE  UNCHANGED <<Queue, arrived, delivered>>
<1>1. UNCHANGED <<num_of_entries, end, head, ownership, pkt, arrived, delivered>>
  BY DEF SetAdminStatus, ReadPacketFromRing, RunnerStarts, StackFrees, vars, ringVars, descVars
<1>2. rdp_cpu_ring_get_queued' = rdp_cpu_ring_get_queued
  BY <1>1 DEF rdp_cpu_ring_get_queued
<1>3. Queue' = Queue
  BY <1>1, <1>2 DEF Queue
<1> QED  BY <1>1, <1>3

LEMMA FifoStep ==
  ASSUME ~FlushRaces, IInv, IInv', SyncInv, [Next]_vars
  PROVE  [Fifo!FifoNext]_(Fifo!fifoVars)
<1>1. CASE \/ SetAdminStatus \/ ReadPacketFromRing \/ RunnerStarts \/ StackFrees
           \/ UNCHANGED vars
  BY <1>1, FifoStutters DEF Fifo!fifoVars
<1>2. CASE RunnerWrites
  BY <1>2, FifoRunnerWrites DEF Fifo!FifoNext
<1>3. CASE RefillAndDeliver \/ RefillFails
  BY <1>3, FifoRefill DEF Fifo!FifoNext
<1>4. CASE \/ DeleteRing \/ FlushRing
           \/ \E n \in 1 .. MaxEntries : Create(n)
  BY <1>4, FifoControl DEF Fifo!FifoNext
<1> QED  BY <1>1, <1>2, <1>3, <1>4 DEF Next, Control, Read, Environment

LEMMA FifoStart == Init => Fifo!FifoInit
<1> SUFFICES ASSUME Init PROVE Fifo!FifoInit
  OBVIOUS
<1>1. IInv /\ \A i \in Slots : ownership[i] = "RUNNER"
  BY InitIInv DEF Init
<1>2. Queue = << >>
  BY <1>1, EmptyQueue
<1> QED  BY <1>2 DEF Init, Fifo!FifoInit

(***************************************************************************)
(* The ring implements PacketFifo, for every size of ring, pool and bulk,  *)
(* while no flush comes between the halves of a read: every packet is      *)
(* delivered in arrival order and at most once, and lost only to a failed  *)
(* refill, a flush or the end of the ring.                                 *)
(***************************************************************************)
THEOREM RingImplementsFifo == ~FlushRaces /\ Spec => RingIsFifo
<1> SUFFICES ASSUME ~FlushRaces
             PROVE  Spec => RingIsFifo
  OBVIOUS
<1>1. IInv /\ SyncInv /\ [Next]_vars => IInv' /\ SyncInv'
  BY NextIInv, NextSync
<1>2. IInv /\ IInv' /\ SyncInv /\ [Next]_vars => [Fifo!FifoNext]_(Fifo!fifoVars)
  BY FifoStep
<1> QED  BY <1>1, <1>2, InitIInv, InitSync, FifoStart, PTL DEF Spec, RingIsFifo, Fifo!FifoSpec
=============================================================================

-------------------------- MODULE IgmpSnoop_proofs --------------------------
(***************************************************************************)
(* Proofs about IgmpSnoop, for any bridge, any table and any number of     *)
(* slots, questions and reporters, and for all timeouts.                   *)
(***************************************************************************)
EXTENDS IgmpSnoop, Extrema_proofs

\* The steps on the table of memberships, whichever context they come from;
\* except for the timeout they leave the slots alone.
TableStep ==
  \/ \E k \in Key, r \in Reporter : br_igmp_mc_fdb_add(k, r) \/ br_igmp_mc_fdb_remove(k, r)
  \/ \E r \in Reporter, d \in Port : br_igmp_wipe_reporter_for_port(r, d)
  \/ \E d \in Device : \/ br_igmp_process_if_change(d)
                       \/ FlushDevice(d)
                       \/ br_mcast_vlan_notify_for_blog_update(d)
  \/ br_igmp_mc_fdb_cleanup

\* The steps in which packets leave their slots.
FreeStep ==
  \/ br_igmp_timeout \/ br_igmp_wipe_pending_skbs \/ br_igmp_process_device_removal
  \/ \E q \in asked : br_igmp_process_admission(q)

LEMMA TableStepFrame ==
  TableStep => /\ UNCHANGED <<igmp_delayed_skb, owner, asked, igmp_snooping,
                              mcpdControlsIgmpAdmission, firing>>
               /\ mcpd' = "idle" => mcpd = "idle"
<1> USE DEF slotVars, modeVars
<1>1. ASSUME NEW k \in Key, NEW r \in Reporter, br_igmp_mc_fdb_add(k, r)
      PROVE  UNCHANGED <<igmp_delayed_skb, owner, asked, igmp_snooping,
                         mcpdControlsIgmpAdmission, firing, mcpd>>
  BY <1>1, Zenon DEF br_igmp_mc_fdb_add, br_mc_fdb_update
<1>2. ASSUME NEW k \in Key, NEW r \in Reporter, br_igmp_mc_fdb_remove(k, r)
      PROVE  UNCHANGED <<igmp_delayed_skb, owner, asked, igmp_snooping,
                         mcpdControlsIgmpAdmission, firing, mcpd>>
  BY <1>2, Zenon DEF br_igmp_mc_fdb_remove
<1>3. ASSUME NEW r \in Reporter, NEW d \in Port, br_igmp_wipe_reporter_for_port(r, d)
      PROVE  UNCHANGED <<igmp_delayed_skb, owner, asked, igmp_snooping,
                         mcpdControlsIgmpAdmission, firing, mcpd>>
  BY <1>3, Zenon DEF br_igmp_wipe_reporter_for_port
<1>4. ASSUME NEW d \in Device, br_igmp_process_if_change(d)
      PROVE  /\ UNCHANGED <<igmp_delayed_skb, owner, asked, igmp_snooping,
                            mcpdControlsIgmpAdmission, firing>>
             /\ mcpd = "idle"
  BY <1>4, Zenon DEF br_igmp_process_if_change
<1>5. ASSUME NEW d \in Device, FlushDevice(d)
      PROVE  UNCHANGED <<igmp_delayed_skb, owner, asked, igmp_snooping,
                         mcpdControlsIgmpAdmission, firing, mcpd>>
  BY <1>5, Zenon DEF FlushDevice
<1>6. ASSUME NEW d \in Device, br_mcast_vlan_notify_for_blog_update(d)
      PROVE  UNCHANGED <<igmp_delayed_skb, owner, asked, igmp_snooping,
                         mcpdControlsIgmpAdmission, firing, mcpd>>
  BY <1>6, Zenon DEF br_mcast_vlan_notify_for_blog_update
<1>7. ASSUME br_igmp_mc_fdb_cleanup
      PROVE  /\ UNCHANGED <<igmp_delayed_skb, owner, asked, igmp_snooping,
                            mcpdControlsIgmpAdmission, firing>>
             /\ mcpd = "idle"
  BY <1>7, Zenon DEF br_igmp_mc_fdb_cleanup
<1> QED  BY <1>1, <1>2, <1>3, <1>4, <1>5, <1>6, <1>7, Zenon DEF TableStep

LEMMA FreeStepFrame ==
  ASSUME FreeStep
  PROVE  /\ \E I \in SUBSET DOMAIN igmp_delayed_skb : \E Q \in SUBSET asked : FreeSlots(I, Q)
         /\ UNCHANGED <<igmp_snooping, mcpdControlsIgmpAdmission>>
         /\ mcpd' = "idle" /\ mcpd # "idle" => DOMAIN igmp_delayed_skb' = {}
<1> USE DEF modeVars
<1>1. CASE br_igmp_timeout
  <2> DEFINE I == {i \in DOMAIN igmp_delayed_skb : igmp_delayed_skb[i].left < 0}
  <2>1. I \in SUBSET DOMAIN igmp_delayed_skb /\ FreeSlots(I, asked)
    BY <1>1, Zenon DEF br_igmp_timeout
  <2>2. UNCHANGED <<igmp_snooping, mcpdControlsIgmpAdmission, mcpd>>
    BY <1>1, Zenon DEF br_igmp_timeout
  <2> QED  BY <2>1, <2>2, Zenon
<1>2. CASE br_igmp_wipe_pending_skbs
  <2>1. FreeSlots(DOMAIN igmp_delayed_skb, asked)
    BY <1>2, Zenon DEF br_igmp_wipe_pending_skbs
  <2>2. UNCHANGED <<igmp_snooping, mcpdControlsIgmpAdmission>>
    BY <1>2, Zenon DEF br_igmp_wipe_pending_skbs
  <2>3. DOMAIN igmp_delayed_skb' = {}
    BY <2>1 DEF FreeSlots, Restrict
  <2> QED  BY <2>1, <2>2, <2>3, Zenon
<1>3. CASE br_igmp_process_device_removal
  <2> DEFINE I == {i \in DOMAIN igmp_delayed_skb : event \in {Bridge, igmp_delayed_skb[i].dev}}
  <2>1. I \in SUBSET DOMAIN igmp_delayed_skb /\ FreeSlots(I, asked)
    BY <1>3, Zenon DEF br_igmp_process_device_removal
  <2>2. UNCHANGED <<igmp_snooping, mcpdControlsIgmpAdmission, mcpd>>
    BY <1>3, Zenon DEF br_igmp_process_device_removal
  <2> QED  BY <2>1, <2>2, Zenon
<1>4. ASSUME NEW q \in asked, br_igmp_process_admission(q)
      PROVE  /\ \E I \in SUBSET DOMAIN igmp_delayed_skb :
                   \E Q \in SUBSET asked : FreeSlots(I, Q)
             /\ UNCHANGED <<igmp_snooping, mcpdControlsIgmpAdmission, mcpd>>
  <2> DEFINE I == {i \in DOMAIN igmp_delayed_skb : igmp_delayed_skb[i].skb = q[1]}
  <2>1. I \in SUBSET DOMAIN igmp_delayed_skb /\ FreeSlots(I, asked \ {q})
    BY <1>4, Zenon DEF br_igmp_process_admission
  <2>2. UNCHANGED <<igmp_snooping, mcpdControlsIgmpAdmission, mcpd>>
    BY <1>4, Zenon DEF br_igmp_process_admission
  <2> QED  BY <2>1, <2>2, Zenon
<1> QED  BY <1>1, <1>2, <1>3, <1>4, Zenon DEF FreeStep

-----------------------------------------------------------------------------
(* Packets that wait for admission.                                        *)

SlotTypes ==
  /\ DOMAIN igmp_delayed_skb \subseteq Slot
  /\ \A i \in DOMAIN igmp_delayed_skb :
       igmp_delayed_skb[i] \in [skb : Skb, dev : Port, left : -Check .. SkbTimeout]
  /\ owner \in [Skb -> {"free", "held", "lost"}]

SlotInv == SlotTypes /\ PendingOwned

LEMMA OlderDef ==
  ASSUME NEW t \in Int
  PROVE  /\ Older(t) \in Int /\ Older(t) >= -Check /\ Older(t) >= t - 1
         /\ Older(t) = t - 1 \/ Older(t) = -Check
<1> DEFINE T == {t - 1, -Check}
           m == IF t - 1 >= -Check THEN t - 1 ELSE -Check
<1>1. m \in T /\ \A y \in T : m >= y
  BY IgmpAssumption
<1>2. Max(T) \in T /\ \A y \in T : Max(T) >= y
  BY <1>1, Zenon DEF Max
<1>3. Older(t) = Max(T)
  BY DEF Older
<1> HIDE DEF m
<1> QED  BY <1>2, <1>3, IgmpAssumption

LEMMA InitSlots == Init => SlotInv
BY IgmpAssumption DEF Init, SlotInv, SlotTypes, PendingOwned

LEMMA FreeSlotsInv ==
  ASSUME SlotInv, NEW I \in SUBSET DOMAIN igmp_delayed_skb, NEW Q, FreeSlots(I, Q)
  PROVE  SlotInv' /\ DOMAIN igmp_delayed_skb' \subseteq DOMAIN igmp_delayed_skb
<1> USE DEF SlotInv
<1> DEFINE D == DOMAIN igmp_delayed_skb
           S == {igmp_delayed_skb[i].skb : i \in I}
<1>1. /\ DOMAIN igmp_delayed_skb' = D \ I
      /\ \A i \in D \ I : igmp_delayed_skb'[i] = igmp_delayed_skb[i]
  BY DEF FreeSlots, Restrict
<1>2. owner' = [s \in Skb |-> IF s \in S THEN "free" ELSE owner[s]]
  BY DEF FreeSlots
<1>3. SlotTypes'
  BY <1>1, <1>2 DEF SlotTypes
<1>4. \A i, j \in D \ I : igmp_delayed_skb'[i].skb = igmp_delayed_skb'[j].skb => i = j
  BY <1>1 DEF PendingOwned
<1>5. \A s \in Skb : owner'[s] = "held" <=> owner[s] = "held" /\ s \notin S
  BY <1>2
<1>6. \A s : (\E i \in D \ I : s = igmp_delayed_skb'[i].skb)
             <=> (\E i \in D : s = igmp_delayed_skb[i].skb) /\ s \notin S
  BY <1>1 DEF PendingOwned
<1>7. \A s : (s \in Skb /\ owner[s] = "held") <=> \E i \in D : s = igmp_delayed_skb[i].skb
  BY DEF PendingOwned
<1>8. {s \in Skb : owner'[s] = "held"} = {igmp_delayed_skb'[i].skb : i \in D \ I}
  BY <1>5, <1>6, <1>7
<1>9. PendingOwned'
  BY <1>1, <1>4, <1>8 DEF PendingOwned
<1> QED  BY <1>1, <1>3, <1>9

LEMMA ForwardInv ==
  ASSUME SlotInv, NEW s \in Skb, NEW d \in Port, br_igmp_mc_forward(s, d)
  PROVE  SlotInv'
<1> USE DEF SlotInv
<1> DEFINE D == DOMAIN igmp_delayed_skb
           free == Slot \ D
           m == Min(free)
<1>1. owner[s] = "free"
  BY DEF br_igmp_mc_forward
<1>2. CASE free = {}
  <2>1. igmp_delayed_skb' = igmp_delayed_skb /\ owner' = [owner EXCEPT ![s] = "lost"]
    BY <1>2, Zenon DEF br_igmp_mc_forward
  <2>2. SlotTypes'
    BY <2>1 DEF SlotTypes
  <2>3. \A x \in Skb : owner'[x] = "held" <=> owner[x] = "held"
    BY <1>1, <2>1 DEF SlotTypes
  <2>4. PendingOwned'
    BY <2>1, <2>3 DEF PendingOwned
  <2> QED  BY <2>2, <2>4
<1>3. CASE free # {}
  <2>1. free \in SUBSET Nat
    BY IgmpAssumption DEF Slot
  <2>2. \E x \in free : \A y \in free : x <= y
    BY <1>3, <2>1, LeastElement
  <2>3. m \in free
    BY <2>2, Zenon DEF Min
  <2>4. /\ owner' = [owner EXCEPT ![s] = "held"]
        /\ igmp_delayed_skb' = [i \in D \cup {m} |->
                                  IF i = m THEN [skb |-> s, dev |-> d, left |-> SkbTimeout]
                                  ELSE igmp_delayed_skb[i]]
    BY <1>3, Zenon DEF br_igmp_mc_forward
  <2> HIDE DEF m
  <2>5. /\ DOMAIN igmp_delayed_skb' = D \cup {m}
        /\ igmp_delayed_skb'[m] = [skb |-> s, dev |-> d, left |-> SkbTimeout]
        /\ \A i \in D : igmp_delayed_skb'[i] = igmp_delayed_skb[i]
    BY <2>3, <2>4
  <2>6. [skb |-> s, dev |-> d, left |-> SkbTimeout]
          \in [skb : Skb, dev : Port, left : -Check .. SkbTimeout]
    BY IgmpAssumption
  <2>7. SlotTypes'
    BY <2>3, <2>4, <2>5, <2>6 DEF SlotTypes
  <2>8. \A i \in D : igmp_delayed_skb[i].skb # s
    BY <1>1 DEF PendingOwned
  <2>9. \A i, j \in D \cup {m} : igmp_delayed_skb'[i].skb = igmp_delayed_skb'[j].skb => i = j
    BY <2>3, <2>5, <2>8 DEF PendingOwned
  <2>10. \A x \in Skb : owner'[x] = "held" <=> owner[x] = "held" \/ x = s
    BY <2>4 DEF SlotTypes
  <2>11. \A x : (x \in Skb /\ owner[x] = "held") <=> \E i \in D : x = igmp_delayed_skb[i].skb
    BY DEF PendingOwned
  <2>12. {x \in Skb : owner'[x] = "held"} = {igmp_delayed_skb'[i].skb : i \in D \cup {m}}
    BY <2>3, <2>5, <2>10, <2>11
  <2>13. PendingOwned'
    BY <2>5, <2>9, <2>12 DEF PendingOwned
  <2> QED  BY <2>7, <2>13
<1> QED  BY <1>2, <1>3

LEMMA TickSlots ==
  ASSUME SlotInv, Tick
  PROVE  SlotInv' /\ DOMAIN igmp_delayed_skb' = DOMAIN igmp_delayed_skb
<1> USE DEF SlotInv
<1> DEFINE D == DOMAIN igmp_delayed_skb
<1>1. /\ igmp_delayed_skb' = [i \in D |-> [igmp_delayed_skb[i] EXCEPT !.left = Older(@)]]
      /\ owner' = owner
  BY DEF Tick
<1>2. ASSUME NEW i \in D
      PROVE  /\ igmp_delayed_skb'[i] \in [skb : Skb, dev : Port, left : -Check .. SkbTimeout]
             /\ igmp_delayed_skb'[i].skb = igmp_delayed_skb[i].skb
  <2>1. igmp_delayed_skb[i] \in [skb : Skb, dev : Port, left : -Check .. SkbTimeout]
    BY DEF SlotTypes
  <2> DEFINE o == Older(igmp_delayed_skb[i].left)
  <2>2. o \in -Check .. SkbTimeout
    BY <2>1, OlderDef, IgmpAssumption
  <2>3. igmp_delayed_skb'[i] = [igmp_delayed_skb[i] EXCEPT !.left = o]
    BY <1>1
  <2> HIDE DEF o
  <2> QED  BY <2>1, <2>2, <2>3
<1>3. DOMAIN igmp_delayed_skb' = D
  BY <1>1
<1>4. SlotTypes'
  BY <1>1, <1>2, <1>3 DEF SlotTypes
<1>5. {igmp_delayed_skb'[i].skb : i \in D} = {igmp_delayed_skb[i].skb : i \in D}
  BY <1>2
<1>6. PendingOwned'
  BY <1>1, <1>2, <1>3, <1>5 DEF PendingOwned
<1> QED  BY <1>3, <1>4, <1>6

LEMMA NextCases ==
  ASSUME [Next]_vars
  PROVE  \/ TableStep \/ FreeStep \/ Tick
         \/ \E s \in Skb, d \in Port : br_igmp_mc_forward(s, d)
         \/ TimerExpires \/ mcpd_nl_process_set_admission_control \/ set_igmp_snooping
         \/ UNCHANGED vars
BY Zenon DEF Next, TableStep, FreeStep

LEMMA NextSlots == SlotInv /\ [Next]_vars => SlotInv'
<1> SUFFICES ASSUME SlotInv, [Next]_vars PROVE SlotInv'
  OBVIOUS
<1>1. ASSUME UNCHANGED <<igmp_delayed_skb, owner>> PROVE SlotInv'
  BY <1>1 DEF SlotInv, SlotTypes, PendingOwned
<1>2. CASE TableStep
  BY <1>1, <1>2, TableStepFrame
<1>3. CASE FreeStep
  BY <1>3, FreeStepFrame, FreeSlotsInv
<1>4. CASE Tick
  BY <1>4, TickSlots
<1>5. ASSUME NEW s \in Skb, NEW d \in Port, br_igmp_mc_forward(s, d) PROVE SlotInv'
  BY <1>5, ForwardInv
<1>6. CASE TimerExpires
  BY <1>1, <1>6, Zenon DEF TimerExpires, slotVars
<1>7. CASE mcpd_nl_process_set_admission_control
  BY <1>1, <1>7, Zenon DEF mcpd_nl_process_set_admission_control, slotVars
<1>8. CASE set_igmp_snooping
  BY <1>1, <1>8, Zenon DEF set_igmp_snooping, slotVars
<1>9. CASE UNCHANGED vars
  BY <1>1, <1>9, Zenon DEF vars, slotVars
<1> QED  BY <1>2, <1>3, <1>4, <1>5, <1>6, <1>7, <1>8, <1>9, NextCases

(***************************************************************************)
(* No order of answers, timeouts, device events and changes of admission   *)
(* control leaves a packet in two slots, a freed packet in a slot or a     *)
(* held packet in none: none is freed twice or leaked.                     *)
(***************************************************************************)
THEOREM PendingOwnedHolds == Spec => []PendingOwned
<1>1. SlotInv => PendingOwned
  BY DEF SlotInv
<1> QED  BY <1>1, InitSlots, NextSlots, PTL DEF Spec

LEMMA NextControl ==
  SlotInv /\ NoPendingWithoutControl /\ [Next]_vars => NoPendingWithoutControl'
<1> SUFFICES ASSUME SlotInv, NoPendingWithoutControl, [Next]_vars
             PROVE  NoPendingWithoutControl'
  OBVIOUS
<1> USE DEF NoPendingWithoutControl
<1>1. CASE TableStep
  BY <1>1, TableStepFrame
<1>2. CASE FreeStep
  <2>1. DOMAIN igmp_delayed_skb' \subseteq DOMAIN igmp_delayed_skb
    BY <1>2, FreeStepFrame, FreeSlotsInv
  <2> QED  BY <1>2, <2>1, FreeStepFrame
<1>3. CASE Tick
  <2>1. UNCHANGED <<mcpdControlsIgmpAdmission, mcpd>>
    BY <1>3, Zenon DEF Tick, modeVars
  <2> QED  BY <1>3, <2>1, TickSlots
<1>4. ASSUME NEW s \in Skb, NEW d \in Port, br_igmp_mc_forward(s, d)
      PROVE  NoPendingWithoutControl'
  <2>1. mcpdControlsIgmpAdmission /\ mcpdControlsIgmpAdmission' = mcpdControlsIgmpAdmission
    BY <1>4, Zenon DEF br_igmp_mc_forward, modeVars
  <2> QED  BY <2>1
<1>5. CASE TimerExpires
  BY <1>5, Zenon DEF TimerExpires, slotVars, modeVars
<1>6. CASE mcpd_nl_process_set_admission_control
  <2>1. mcpd' = "wipe"
    BY <1>6 DEF mcpd_nl_process_set_admission_control
  <2> QED  BY <2>1
<1>7. CASE set_igmp_snooping
  BY <1>7, Zenon DEF set_igmp_snooping, slotVars
<1>8. CASE UNCHANGED vars
  BY <1>8, Zenon DEF vars, slotVars, modeVars
<1> QED  BY <1>1, <1>2, <1>3, <1>4, <1>5, <1>6, <1>7, <1>8, NextCases

(***************************************************************************)
(* A packet that arrives while mcpd gives up admission control, before or  *)
(* while the slots are cleared, does not stay behind waiting for an answer *)
(* nobody will give.                                                       *)
(***************************************************************************)
THEOREM NoPendingWithoutControlHolds == Spec => []NoPendingWithoutControl
<1>1. Init => NoPendingWithoutControl
  BY DEF Init, NoPendingWithoutControl
<1> QED  BY <1>1, InitSlots, NextSlots, NextControl, PTL DEF Spec

-----------------------------------------------------------------------------
(* The table of memberships.                                               *)

TableTypes ==
  /\ fdb \subseteq Entry /\ flows \subseteq Entry
  /\ DOMAIN tstamp \subseteq Entry \X Reporter

TableInv == TableTypes /\ FlowsOfEntries

\* The first part of FlowsOfEntries in the form the proofs use.
LEMMA EntryHasReporter ==
  ASSUME NEW D \in SUBSET (Entry \X Reporter)
  PROVE  \A e : (\E p \in D : e = p[1]) <=> \E r \in Reporter : <<e, r>> \in D
<1>1. \A p \in D : p = <<p[1], p[2]>> /\ p[1] \in Entry /\ p[2] \in Reporter
  OBVIOUS
<1> TAKE e
<1>2. ASSUME NEW p \in D, e = p[1] PROVE \E r \in Reporter : <<e, r>> \in D
  BY <1>1, <1>2, Zenon
<1>3. ASSUME NEW r \in Reporter, <<e, r>> \in D PROVE \E p \in D : e = p[1]
  <2>1. e = (<<e, r>>)[1]
    OBVIOUS
  <2> QED  BY <1>3, <2>1, Zenon
<1> QED  BY <1>2, <1>3

LEMMA TableByReporters ==
  ASSUME TableInv
  PROVE  \A e : e \in fdb <=> \E r \in Reporter : <<e, r>> \in DOMAIN tstamp
<1> DEFINE D == DOMAIN tstamp
<1>1. D \in SUBSET (Entry \X Reporter) /\ fdb = {p[1] : p \in D}
  BY DEF TableInv, TableTypes, FlowsOfEntries
<1> HIDE DEF D
<1>2. \A e : e \in fdb <=> \E p \in D : e = p[1]
  BY <1>1
<1>3. \A e : (\E p \in D : e = p[1]) <=> \E r \in Reporter : <<e, r>> \in D
  BY <1>1, EntryHasReporter, Zenon
<1> QED  BY <1>2, <1>3, Zenon DEF D

LEMMA TableAfter ==
  ASSUME NEW D, D = DOMAIN tstamp', D \in SUBSET (Entry \X Reporter),
         \A e : e \in fdb' <=> \E r \in Reporter : <<e, r>> \in D,
         fdb' \subseteq Entry, flows' \subseteq fdb',
         \A e \in fdb' : e[2] # 0 => e \in flows'
  PROVE  TableInv'
<1>1. \A e : (\E p \in D : e = p[1]) <=> \E r \in Reporter : <<e, r>> \in D
  BY EntryHasReporter, Zenon
<1>2. \A e : e \in fdb' <=> \E p \in D : e = p[1]
  BY <1>1, Zenon
<1>3. fdb' = {p[1] : p \in D}
  BY <1>2
<1> QED  BY <1>3 DEF TableInv, TableTypes, FlowsOfEntries

\* br_igmp_mc_fdb_del_entry called for the entries E with reporters of theirs.
LEMMA DelEntryTable ==
  ASSUME TableInv, NEW E, NEW P, \A e, r : <<e, r>> \in P => e \in E,
         br_igmp_mc_fdb_del_entry(E, P)
  PROVE  TableInv'
<1> DEFINE D == DOMAIN tstamp
           kept == D \ P
           gone == {e \in E : \A r \in Reporter : <<e, r>> \notin kept}
<1>1. DOMAIN tstamp' = kept /\ fdb' = fdb \ gone /\ flows' = flows \ gone
  BY DEF br_igmp_mc_fdb_del_entry, Restrict
<1>2. \A e : e \in fdb <=> \E r \in Reporter : <<e, r>> \in D
  BY TableByReporters
<1>3. \A e : e \in fdb \ gone <=> \E r \in Reporter : <<e, r>> \in kept
  <2> TAKE e
  <2>1. ASSUME e \in fdb, e \notin gone PROVE \E r \in Reporter : <<e, r>> \in kept
    BY <1>2, <2>1, Zenon
  <2>2. ASSUME NEW r \in Reporter, <<e, r>> \in kept PROVE e \in fdb \ gone
    BY <1>2, <2>2, Zenon
  <2> QED  BY <2>1, <2>2
<1>4. kept \in SUBSET (Entry \X Reporter)
  BY DEF TableInv, TableTypes
<1> HIDE DEF kept, gone
<1>5. fdb' \subseteq Entry /\ flows' \subseteq fdb' /\ \A e \in fdb' : e[2] # 0 => e \in flows'
  BY <1>1 DEF TableInv, TableTypes, FlowsOfEntries
<1>6. \A e : e \in fdb' <=> \E r \in Reporter : <<e, r>> \in kept
  BY <1>1, <1>3, Zenon
<1> QED  BY <1>1, <1>4, <1>5, <1>6, TableAfter, Zenon

\* The callers of br_igmp_mc_fdb_del_entry.
LEMMA TimeoutTable ==
  ASSUME TableInv, br_igmp_timeout
  PROVE  TableInv'
<1> DEFINE P == {p \in DOMAIN tstamp : tstamp[p] <= 0}
           E == {p[1] : p \in P}
<1>1. \A e, r : <<e, r>> \in P => e \in E
  <2> TAKE e, r
  <2>1. (<<e, r>>)[1] = e
    OBVIOUS
  <2> QED  BY <2>1, Zenon
<1>2. br_igmp_mc_fdb_del_entry(E, P)
  BY Zenon DEF br_igmp_timeout
<1> QED  BY <1>1, <1>2, DelEntryTable, Zenon

LEMMA RemoveTable ==
  ASSUME TableInv,
         \/ \E k \in Key, r \in Reporter : br_igmp_mc_fdb_remove(k, r)
         \/ \E r \in Reporter, d \in Port : br_igmp_wipe_reporter_for_port(r, d)
  PROVE  TableInv'
<1>1. \A E, r : \A e, x : <<e, x>> \in E \X {r} => e \in E
  OBVIOUS
<1>2. ASSUME NEW k \in Key, NEW r \in Reporter, br_igmp_mc_fdb_remove(k, r)
      PROVE  TableInv'
  <2> DEFINE E == {e \in fdb : e[1] = k}
  <2>1. br_igmp_mc_fdb_del_entry(E, E \X {r})
    BY <1>2, Zenon DEF br_igmp_mc_fdb_remove
  <2> HIDE DEF E
  <2> QED  BY <1>1, <2>1, DelEntryTable, Zenon
<1>3. ASSUME NEW r \in Reporter, NEW d \in Port, br_igmp_wipe_reporter_for_port(r, d)
      PROVE  TableInv'
  <2> DEFINE E == {e \in fdb : DstDev[e[1]] = d /\ <<e, r>> \in DOMAIN tstamp}
  <2>1. br_igmp_mc_fdb_del_entry(E, E \X {r})
    BY <1>3, Zenon DEF br_igmp_wipe_reporter_for_port
  <2> HIDE DEF E
  <2> QED  BY <1>1, <2>1, DelEntryTable, Zenon
<1> QED  BY <1>2, <1>3

LEMMA FlushTable ==
  ASSUME TableInv,
         \/ br_igmp_mc_fdb_cleanup
         \/ \E d \in Device : br_igmp_process_if_change(d) \/ FlushDevice(d)
  PROVE  TableInv'
<1>1. ASSUME NEW E, br_igmp_mc_fdb_del_entry(E, AllReporters(E)) PROVE TableInv'
  <2>1. \A e, x : <<e, x>> \in AllReporters(E) => e \in E
    BY DEF AllReporters
  <2> QED  BY <1>1, <2>1, DelEntryTable, Zenon
<1>2. CASE br_igmp_mc_fdb_cleanup
  BY <1>1, <1>2, Zenon DEF br_igmp_mc_fdb_cleanup
<1>3. ASSUME NEW d \in Device, br_igmp_process_if_change(d) PROVE TableInv'
  BY <1>1, <1>3, Zenon DEF br_igmp_process_if_change
<1>4. ASSUME NEW d \in Device, FlushDevice(d) PROVE TableInv'
  BY <1>1, <1>4, Zenon DEF FlushDevice
<1> QED  BY <1>2, <1>3, <1>4

\* The entries that the rules make for a set of keys.
LEMMA ProcessedDef ==
  ASSUME NEW K \in SUBSET Key, NEW act \in [K -> SUBSET (0 .. MaxCopies)]
  PROVE  /\ Processed(act) \subseteq Entry
         /\ Activated(act) \subseteq Processed(act)
         /\ \A e \in Processed(act) :
              /\ e[1] \in K /\ Root(e[1]) \in Processed(act)
              /\ \E f \in Activated(act) : f[1] = e[1]
              /\ e[2] # 0 => e \in Activated(act)
<1> USE IgmpAssumption
<1>1. \A k \in Key, n \in 0 .. MaxCopies : /\ <<k, n>> \in Entry
                                           /\ (<<k, n>>)[1] = k /\ (<<k, n>>)[2] = n
  BY DEF Entry
<1>2. \A k \in K : \A n \in act[k] : <<k, n>> \in Activated(act)
  BY <1>1 DEF Activated
<1>3. \A k \in K : act[k] # {} => Root(k) \in Processed(act)
  BY DEF Processed
<1>4. ASSUME NEW e \in Activated(act)
      PROVE  e \in Entry /\ e[1] \in K /\ act[e[1]] # {}
  BY <1>4 DEF Activated
<1>5. ASSUME NEW e \in Processed(act), e \notin Activated(act)
      PROVE  e[1] \in K /\ act[e[1]] # {} /\ e = Root(e[1]) /\ e[2] = 0 /\ e \in Entry
  <2>1. PICK k \in K : act[k] # {} /\ e = Root(k)
    BY <1>5 DEF Processed
  <2> QED  BY <1>1, <2>1 DEF Root
<1>6. ASSUME NEW e \in Processed(act) PROVE e[1] \in K /\ act[e[1]] # {}
  BY <1>4, <1>5, <1>6
<1>7. ASSUME NEW e \in Processed(act) PROVE \E f \in Activated(act) : f[1] = e[1]
  <2>1. PICK n \in act[e[1]] : TRUE
    BY <1>6
  <2>2. <<e[1], n>> \in Activated(act) /\ (<<e[1], n>>)[1] = e[1]
    BY <1>2, <1>6
  <2> QED  BY <2>2, Zenon
<1> QED  BY <1>3, <1>4, <1>5, <1>6, <1>7 DEF Processed

LEMMA UpdateTable ==
  ASSUME TableInv, NEW k \in Key, NEW r \in Reporter, br_mc_fdb_update(k, r)
  PROVE  TableInv'
<1> DEFINE D == DOMAIN tstamp
<1>1. PICK G \in SUBSET fdb :
        /\ tstamp' = [p \in D \cup {<<e, r>> : e \in G} |->
                        IF p \in {<<e, r>> : e \in G} THEN Membership ELSE tstamp[p]]
        /\ UNCHANGED <<fdb, flows>>
  <2> DEFINE E == {e \in fdb : e[1] = k}
             New == {e \in E : <<e, r>> \notin D}
  <2>1. PICK failed \in SUBSET New :
          /\ tstamp' = [p \in D \cup {<<e, r>> : e \in E \ failed} |->
                          IF p \in {<<e, r>> : e \in E \ failed} THEN Membership ELSE tstamp[p]]
          /\ UNCHANGED <<fdb, flows>>
    BY Zenon DEF br_mc_fdb_update
  <2>2. E \ failed \in SUBSET fdb
    OBVIOUS
  <2> QED  BY <2>1, <2>2, Zenon
<1> DEFINE D1 == D \cup {<<e, r>> : e \in G}
<1>2. D1 = DOMAIN tstamp'
  BY <1>1
<1>3. D1 \in SUBSET (Entry \X Reporter)
  BY <1>1 DEF TableInv, TableTypes
<1>4. \A e : e \in fdb <=> \E x \in Reporter : <<e, x>> \in D
  BY TableByReporters
<1>5. \A e, x : <<e, x>> \in D1 <=> <<e, x>> \in D \/ (e \in G /\ x = r)
  OBVIOUS
<1> HIDE DEF D1
<1>6. \A e : e \in fdb' <=> \E x \in Reporter : <<e, x>> \in D1
  <2> TAKE e
  <2>1. e \in fdb' <=> e \in fdb
    BY <1>1
  <2>2. e \in G => e \in fdb
    OBVIOUS
  <2> QED  BY <1>4, <1>5, <2>1, <2>2, Zenon
<1>7. fdb' \subseteq Entry /\ flows' \subseteq fdb' /\ \A e \in fdb' : e[2] # 0 => e \in flows'
  BY <1>1 DEF TableInv, TableTypes, FlowsOfEntries
<1> QED  BY <1>2, <1>3, <1>6, <1>7, TableAfter, Zenon

LEMMA AddTable ==
  ASSUME TableInv, NEW k \in Key, NEW r \in Reporter, br_igmp_mc_fdb_add(k, r)
  PROVE  TableInv'
<1>1. CASE br_mc_fdb_update(k, r)
  BY <1>1, UpdateTable
<1>2. CASE ~br_mc_fdb_update(k, r)
  <2> DEFINE D == DOMAIN tstamp
  <2>1. PICK rules \in SUBSET (0 .. MaxCopies) :
          LET act == [x \in {k} |-> rules]
              new == Processed(act)
          IN  /\ rules # {}
              /\ fdb' = fdb \cup new
              /\ tstamp' = [p \in D \cup (new \X {r}) |->
                              IF p[1] \in new THEN Membership ELSE tstamp[p]]
              /\ flows' = flows \cup Activated(act)
    BY <1>2, Zenon DEF br_igmp_mc_fdb_add
  <2> DEFINE act == [x \in {k} |-> rules]
             new == Processed(act)
             D1 == D \cup (new \X {r})
  <2>2. act \in [{k} -> SUBSET (0 .. MaxCopies)] /\ {k} \in SUBSET Key
    OBVIOUS
  <2> HIDE DEF act
  <2>3. /\ new \subseteq Entry /\ Activated(act) \subseteq new
        /\ \A e \in new : e[2] # 0 => e \in Activated(act)
    BY <2>2, ProcessedDef
  <2>4. /\ fdb' = fdb \cup new /\ flows' = flows \cup Activated(act)
        /\ D1 = DOMAIN tstamp'
    BY <2>1 DEF act
  <2>5. D1 \in SUBSET (Entry \X Reporter)
    BY <2>3 DEF TableInv, TableTypes
  <2>6. \A e : e \in fdb <=> \E x \in Reporter : <<e, x>> \in D
    BY TableByReporters
  <2>7. \A e, x : <<e, x>> \in D1 <=> <<e, x>> \in D \/ (e \in new /\ x = r)
    OBVIOUS
  <2>8. fdb' \subseteq Entry /\ flows' \subseteq fdb' /\ \A e \in fdb' : e[2] # 0 => e \in flows'
    BY <2>3, <2>4 DEF TableInv, TableTypes, FlowsOfEntries
  <2>9. \A e : e \in fdb' <=> e \in fdb \/ e \in new
    BY <2>4
  <2> HIDE DEF D1, new
  <2>10. \A e : e \in fdb' <=> \E x \in Reporter : <<e, x>> \in D1
    BY <2>6, <2>7, <2>9, Zenon
  <2> QED  BY <2>4, <2>5, <2>8, <2>10, TableAfter, Zenon
<1> QED  BY <1>1, <1>2

\* RootBehindCopies while every reporter could be allocated.
Uniform ==
  \A e \in fdb : /\ Root(e[1]) \in fdb
                 /\ \E f \in flows : f[1] = e[1]
                 /\ \A r \in Reporter :
                      /\ <<e, r>> \in DOMAIN tstamp <=> <<Root(e[1]), r>> \in DOMAIN tstamp
                      /\ <<e, r>> \in DOMAIN tstamp =>
                            tstamp[<<e, r>>] = tstamp[<<Root(e[1]), r>>]

LEMMA RootBehindCopiesDef == RootBehindCopies <=> allocFailed \/ Uniform
BY Zenon DEF RootBehindCopies, Uniform

LEMMA RootDef == \A k : (Root(k))[1] = k /\ (Root(k))[2] = 0 /\ Root((Root(k))[1]) = Root(k)
BY DEF Root

\* The rules of a device are processed anew.
LEMMA VlanTable ==
  ASSUME TableInv, NEW d \in Device, br_mcast_vlan_notify_for_blog_update(d)
  PROVE  TableInv' /\ (Uniform => Uniform') /\ allocFailed' = allocFailed
<1> DEFINE D == DOMAIN tstamp
           On == OnDevice(d)
           roots == {e[1] : e \in {e \in On : e[2] = 0}}
<1>1. PICK act \in [roots -> SUBSET (0 .. MaxCopies)] :
        LET now  == Processed(act)
            kept == {p \in D : p[1] \notin On}
            set  == {p \in now \X Reporter : <<Root(p[1][1]), p[2]>> \in D}
        IN  /\ fdb' = (fdb \ On) \cup now
            /\ tstamp' = [p \in kept \cup set |->
                            IF p \in kept THEN tstamp[p] ELSE tstamp[<<Root(p[1][1]), p[2]>>]]
            /\ flows' = (flows \ On) \cup Activated(act)
  BY Zenon DEF br_mcast_vlan_notify_for_blog_update
<1> DEFINE now == Processed(act)
           kept == {p \in D : p[1] \notin On}
           set == {p \in now \X Reporter : <<Root(p[1][1]), p[2]>> \in D}
           D1 == kept \cup set
<1>2. /\ fdb' = (fdb \ On) \cup now /\ flows' = (flows \ On) \cup Activated(act)
      /\ tstamp' = [p \in D1 |-> IF p \in kept THEN tstamp[p]
                                 ELSE tstamp[<<Root(p[1][1]), p[2]>>]]
  BY <1>1, Zenon
<1>3. fdb \subseteq Entry /\ flows \subseteq fdb /\ D \in SUBSET (Entry \X Reporter)
      /\ \A e \in fdb : e[2] # 0 => e \in flows
  BY DEF TableInv, TableTypes, FlowsOfEntries
<1>4. On \subseteq fdb /\ \A e \in Entry, f \in fdb : e \in On /\ f[1] = e[1] => f \in On
  BY DEF OnDevice
<1> HIDE DEF On
<1>5. roots \in SUBSET Key /\ \A k \in roots : Root(k) \in On
  <2>1. \A e \in Entry : e[1] \in Key /\ (e[2] = 0 => e = Root(e[1]))
    BY DEF Entry, Root
  <2> QED  BY <1>3, <1>4, <2>1
<1> HIDE DEF roots
<1>6. /\ now \subseteq Entry /\ Activated(act) \subseteq now
      /\ \A e \in now : /\ e[1] \in roots /\ Root(e[1]) \in now
                        /\ \E f \in Activated(act) : f[1] = e[1]
                        /\ e[2] # 0 => e \in Activated(act)
  BY <1>5, ProcessedDef
<1> HIDE DEF now
<1>7. \A e : e \in fdb <=> \E r \in Reporter : <<e, r>> \in D
  BY TableByReporters
<1>8. \A e, r : <<e, r>> \in kept <=> <<e, r>> \in D /\ e \notin On
  BY DEF kept
<1>9. \A e, r : <<e, r>> \in set <=> e \in now /\ r \in Reporter /\ <<Root(e[1]), r>> \in D
  BY DEF set
<1>10. D1 = DOMAIN tstamp' /\ D1 \in SUBSET (Entry \X Reporter)
  BY <1>2, <1>3, <1>6
<1>11. \A e, r : <<e, r>> \in D1 <=> \/ <<e, r>> \in D /\ e \notin On
                                     \/ e \in now /\ r \in Reporter /\ <<Root(e[1]), r>> \in D
  BY <1>8, <1>9
<1>12. \A e, r : <<e, r>> \in D1 =>
          tstamp'[<<e, r>>] = IF e \notin On /\ <<e, r>> \in D THEN tstamp[<<e, r>>]
                              ELSE tstamp[<<Root(e[1]), r>>]
  BY <1>2, <1>8
<1> HIDE DEF kept, set, D1
<1>13. \A e : e \in fdb' <=> \E r \in Reporter : <<e, r>> \in D1
  <2> TAKE e
  <2>1. e \in fdb' <=> (e \in fdb /\ e \notin On) \/ e \in now
    BY <1>2
  <2>2. e \in now => \E r \in Reporter : <<Root(e[1]), r>> \in D
    <3>1. e \in now => Root(e[1]) \in fdb
      BY <1>4, <1>5, <1>6, Zenon
    <3> QED  BY <1>7, <3>1, Zenon
  <2> QED  BY <1>7, <1>11, <2>1, <2>2, Zenon
<1>14. fdb' \subseteq Entry /\ flows' \subseteq fdb' /\ \A e \in fdb' : e[2] # 0 => e \in flows'
  BY <1>2, <1>3, <1>6
<1>15. TableInv'
  BY <1>10, <1>13, <1>14, TableAfter, Zenon
<1>16. ASSUME Uniform PROVE Uniform'
  <2> SUFFICES ASSUME NEW e \in fdb'
               PROVE  /\ Root(e[1]) \in fdb'
                      /\ \E f \in flows' : f[1] = e[1]
                      /\ \A r \in Reporter :
                           /\ <<e, r>> \in D1 <=> <<Root(e[1]), r>> \in D1
                           /\ <<e, r>> \in D1 => tstamp'[<<e, r>>] = tstamp'[<<Root(e[1]), r>>]
    BY <1>10, Zenon DEF Uniform
  <2>1. CASE e \in now
    <3>1. Root(e[1]) \in now /\ Root(e[1]) \in On
      BY <1>5, <1>6, <2>1
    <3>2. e \in On \/ e \notin fdb
      <4>1. (Root(e[1]))[1] = e[1] /\ Root(e[1]) \in Entry
        BY <1>6, <3>1, RootDef
      <4> QED  BY <1>4, <3>1, <4>1
    <3>3. \E f \in flows' : f[1] = e[1]
      BY <1>2, <1>6, <2>1
    <3>4. \A r : <<e, r>> \in D => e \in On
      <4>1. \A r : <<e, r>> \in D => r \in Reporter
        BY <1>3
      <4> QED  BY <1>7, <3>2, <4>1, Zenon
    <3>5. \A r \in Reporter : <<e, r>> \in D1 <=> <<Root(e[1]), r>> \in D
      BY <1>11, <2>1, <3>4, Zenon
    <3>6. \A r \in Reporter : <<Root(e[1]), r>> \in D1 <=> <<Root(e[1]), r>> \in D
      BY <1>11, <3>1, RootDef, Zenon
    <3>7. \A r \in Reporter : <<e, r>> \in D1 => tstamp'[<<e, r>>] = tstamp[<<Root(e[1]), r>>]
      BY <1>12, <3>4, Zenon
    <3>8. \A r \in Reporter : <<Root(e[1]), r>> \in D1 =>
             tstamp'[<<Root(e[1]), r>>] = tstamp[<<Root(e[1]), r>>]
      BY <1>12, RootDef
    <3>9. Root(e[1]) \in fdb'
      BY <1>2, <3>1
    <3> QED  BY <3>3, <3>5, <3>6, <3>7, <3>8, <3>9
  <2>2. CASE e \notin now
    <3>1. e \in fdb /\ e \notin On
      BY <1>2, <2>2
    <3>2. Root(e[1]) \in fdb /\ Root(e[1]) \notin On
      <4>1. Root(e[1]) \in fdb /\ e \in Entry
        BY <1>3, <1>16, <3>1 DEF Uniform
      <4>2. (Root(e[1]))[1] = e[1] /\ Root(e[1]) \in Entry
        BY <1>3, <4>1, RootDef
      <4> QED  BY <1>4, <3>1, <4>1, <4>2
    <3>3. Root(e[1]) \notin now
      <4>1. Root(e[1]) \in now => e[1] \in roots
        BY <1>6, RootDef
      <4> QED  BY <1>5, <3>2, <4>1
    <3>4. \E f \in flows' : f[1] = e[1]
      <4>1. PICK f \in flows : f[1] = e[1]
        BY <1>16, <3>1 DEF Uniform
      <4>2. f \notin On
        BY <1>3, <1>4, <3>1, <4>1
      <4> QED  BY <1>2, <4>1, <4>2
    <3>5. \A r \in Reporter : /\ <<e, r>> \in D1 <=> <<e, r>> \in D
                              /\ <<Root(e[1]), r>> \in D1 <=> <<Root(e[1]), r>> \in D
      BY <1>11, <2>2, <3>1, <3>2, <3>3, Zenon
    <3>6. \A r \in Reporter : <<e, r>> \in D1 => tstamp'[<<e, r>>] = tstamp[<<e, r>>]
      BY <1>12, <3>1, <3>5
    <3>7. \A r \in Reporter : <<Root(e[1]), r>> \in D1 =>
             tstamp'[<<Root(e[1]), r>>] = tstamp[<<Root(e[1]), r>>]
      BY <1>12, <3>2, <3>5
    <3>8. Root(e[1]) \in fdb'
      BY <1>2, <3>2
    <3>9. \A r \in Reporter :
             /\ <<e, r>> \in D <=> <<Root(e[1]), r>> \in D
             /\ <<e, r>> \in D => tstamp[<<e, r>>] = tstamp[<<Root(e[1]), r>>]
      BY <1>16, <3>1, Zenon DEF Uniform
    <3> QED  BY <3>4, <3>5, <3>6, <3>7, <3>8, <3>9
  <2> QED  BY <2>1, <2>2
<1>17. allocFailed' = allocFailed
  BY DEF br_mcast_vlan_notify_for_blog_update
<1> QED  BY <1>15, <1>16, <1>17

\* br_igmp_mc_fdb_del_entry, when it treats a root and its copies alike.
LEMMA DelEntryUniform ==
  ASSUME TableInv, Uniform, NEW E, NEW P, \A e, r : <<e, r>> \in P => e \in E,
         \A e \in fdb : \A r \in Reporter :
            <<e, r>> \in DOMAIN tstamp => (<<e, r>> \in P <=> <<Root(e[1]), r>> \in P),
         br_igmp_mc_fdb_del_entry(E, P)
  PROVE  Uniform'
<1> DEFINE D == DOMAIN tstamp
           kept == D \ P
           gone == {e \in E : \A r \in Reporter : <<e, r>> \notin kept}
<1>1. /\ DOMAIN tstamp' = kept /\ fdb' = fdb \ gone /\ flows' = flows \ gone
      /\ \A p \in kept : tstamp'[p] = tstamp[p]
  BY DEF br_igmp_mc_fdb_del_entry, Restrict
<1>2. \A e : e \in fdb <=> \E r \in Reporter : <<e, r>> \in D
  BY TableByReporters
<1>3. \A e : e \in fdb \ gone <=> \E r \in Reporter : <<e, r>> \in kept
  <2> TAKE e
  <2>1. ASSUME e \in fdb, e \notin gone PROVE \E r \in Reporter : <<e, r>> \in kept
    BY <1>2, <2>1, Zenon
  <2>2. ASSUME NEW r \in Reporter, <<e, r>> \in kept PROVE e \in fdb \ gone
    BY <1>2, <2>2, Zenon
  <2> QED  BY <2>1, <2>2
<1>4. \A e \in fdb : \A r \in Reporter : <<e, r>> \in kept <=> <<Root(e[1]), r>> \in kept
  BY Zenon DEF Uniform
<1>5. flows \subseteq fdb
  BY DEF TableInv, FlowsOfEntries
<1> HIDE DEF kept, gone
<1> SUFFICES ASSUME NEW e \in fdb'
             PROVE  /\ Root(e[1]) \in fdb'
                    /\ \E f \in flows' : f[1] = e[1]
                    /\ \A r \in Reporter :
                         /\ <<e, r>> \in kept <=> <<Root(e[1]), r>> \in kept
                         /\ <<e, r>> \in kept => tstamp'[<<e, r>>] = tstamp'[<<Root(e[1]), r>>]
  BY <1>1, Zenon DEF Uniform
<1>6. e \in fdb
  BY <1>1
<1>7. PICK x \in Reporter : <<e, x>> \in kept
  BY <1>1, <1>3, Zenon
<1>8. <<Root(e[1]), x>> \in kept
  BY <1>4, <1>6, <1>7, Zenon
<1>9. Root(e[1]) \in fdb'
  BY <1>1, <1>3, <1>8, Zenon
<1>10. \E f \in flows' : f[1] = e[1]
  <2>1. PICK f \in flows : f[1] = e[1]
    BY <1>6, Zenon DEF Uniform
  <2>2. <<f, x>> \in kept
    <3>1. f \in fdb
      BY <1>5
    <3>2. <<f, x>> \in kept <=> <<Root(f[1]), x>> \in kept
      BY <1>4, <3>1, Zenon
    <3> QED  BY <1>8, <2>1, <3>2
  <2>3. f \notin gone
    BY <1>3, <2>2, Zenon
  <2> QED  BY <1>1, <2>1, <2>3
<1>11. ASSUME NEW r \in Reporter, <<e, r>> \in kept
       PROVE  tstamp'[<<e, r>>] = tstamp'[<<Root(e[1]), r>>]
  <2>1. <<Root(e[1]), r>> \in kept
    BY <1>4, <1>6, <1>11, Zenon
  <2>2. tstamp[<<e, r>>] = tstamp[<<Root(e[1]), r>>]
    <3>1. <<e, r>> \in D
      BY <1>11 DEF kept
    <3> QED  BY <1>6, <3>1, Zenon DEF Uniform
  <2> QED  BY <1>1, <1>11, <2>1, <2>2
<1> QED  BY <1>4, <1>6, <1>9, <1>10, <1>11

LEMMA TimeoutUniform ==
  ASSUME TableInv, Uniform, br_igmp_timeout
  PROVE  Uniform'
<1> DEFINE P == {p \in DOMAIN tstamp : tstamp[p] <= 0}
           E == {p[1] : p \in P}
<1>1. \A e, r : <<e, r>> \in P => e \in E
  <2> TAKE e, r
  <2>1. (<<e, r>>)[1] = e
    OBVIOUS
  <2> QED  BY <2>1, Zenon
<1>2. br_igmp_mc_fdb_del_entry(E, P)
  BY Zenon DEF br_igmp_timeout
<1>3. \A e \in fdb : \A r \in Reporter :
         <<e, r>> \in DOMAIN tstamp => (<<e, r>> \in P <=> <<Root(e[1]), r>> \in P)
  BY DEF Uniform
<1> HIDE DEF E, P
<1> QED  BY <1>1, <1>2, <1>3, DelEntryUniform, Zenon

LEMMA RemoveUniform ==
  ASSUME TableInv, Uniform,
         \/ \E k \in Key, r \in Reporter : br_igmp_mc_fdb_remove(k, r)
         \/ \E r \in Reporter, d \in Port : br_igmp_wipe_reporter_for_port(r, d)
  PROVE  Uniform'
<1>1. ASSUME NEW E \in SUBSET fdb, NEW r \in Reporter,
             br_igmp_mc_fdb_del_entry(E, E \X {r}),
             \A e \in fdb : <<e, r>> \in DOMAIN tstamp => (e \in E <=> Root(e[1]) \in E)
      PROVE  Uniform'
  <2> DEFINE P == E \X {r}
  <2>1. \A e, x : <<e, x>> \in P <=> e \in E /\ x = r
    OBVIOUS
  <2> HIDE DEF P
  <2>2. \A e \in fdb : \A x \in Reporter :
           <<e, x>> \in DOMAIN tstamp => (<<e, x>> \in P <=> <<Root(e[1]), x>> \in P)
    BY <1>1, <2>1
  <2>3. \A e, x : <<e, x>> \in P => e \in E
    BY <2>1, Zenon
  <2>4. br_igmp_mc_fdb_del_entry(E, P)
    BY <1>1 DEF P
  <2> QED  BY <2>2, <2>3, <2>4, DelEntryUniform, Zenon
<1>2. ASSUME NEW k \in Key, NEW r \in Reporter, br_igmp_mc_fdb_remove(k, r)
      PROVE  Uniform'
  <2> DEFINE E == {e \in fdb : e[1] = k}
  <2>1. br_igmp_mc_fdb_del_entry(E, E \X {r})
    BY <1>2, Zenon DEF br_igmp_mc_fdb_remove
  <2>2. \A e \in fdb : e \in E <=> Root(e[1]) \in E
    BY RootDef DEF Uniform
  <2>3. E \in SUBSET fdb
    OBVIOUS
  <2> HIDE DEF E
  <2> QED  BY <1>1, <2>1, <2>2, <2>3, Zenon
<1>3. ASSUME NEW r \in Reporter, NEW d \in Port, br_igmp_wipe_reporter_for_port(r, d)
      PROVE  Uniform'
  <2> DEFINE E == {e \in fdb : DstDev[e[1]] = d /\ <<e, r>> \in DOMAIN tstamp}
  <2>1. br_igmp_mc_fdb_del_entry(E, E \X {r})
    BY <1>3, Zenon DEF br_igmp_wipe_reporter_for_port
  <2>2. \A e \in fdb : e \in E <=> Root(e[1]) \in E
    BY RootDef DEF Uniform
  <2>3. E \in SUBSET fdb
    OBVIOUS
  <2> HIDE DEF E
  <2> QED  BY <1>1, <2>1, <2>2, <2>3, Zenon
<1> QED  BY <1>2, <1>3

LEMMA FlushUniform ==
  ASSUME TableInv, Uniform,
         \/ br_igmp_mc_fdb_cleanup
         \/ \E d \in Device : br_igmp_process_if_change(d) \/ FlushDevice(d)
  PROVE  Uniform'
<1>1. ASSUME NEW E \in SUBSET fdb, br_igmp_mc_fdb_del_entry(E, AllReporters(E)),
             \A e \in fdb : e \in E <=> Root(e[1]) \in E
      PROVE  Uniform'
  <2>1. \A e, x : <<e, x>> \in AllReporters(E) <=> e \in E /\ x \in Reporter
    BY DEF AllReporters
  <2>2. \A e \in fdb : \A x \in Reporter : <<e, x>> \in DOMAIN tstamp =>
           (<<e, x>> \in AllReporters(E) <=> <<Root(e[1]), x>> \in AllReporters(E))
    BY <1>1, <2>1, Zenon
  <2>3. \A e, x : <<e, x>> \in AllReporters(E) => e \in E
    BY <2>1, Zenon
  <2> QED  BY <1>1, <2>2, <2>3, DelEntryUniform, Zenon
<1>2. \A e \in fdb : e \in fdb <=> Root(e[1]) \in fdb
  BY DEF Uniform
<1>3. \A d : OnDevice(d) \in SUBSET fdb
             /\ \A e \in fdb : e \in OnDevice(d) <=> Root(e[1]) \in OnDevice(d)
  BY RootDef DEF Uniform, OnDevice
<1>4. CASE br_igmp_mc_fdb_cleanup
  <2>1. br_igmp_mc_fdb_del_entry(fdb, AllReporters(fdb))
    BY <1>4, Zenon DEF br_igmp_mc_fdb_cleanup
  <2> QED  BY <1>1, <1>2, <2>1
<1>5. ASSUME NEW d \in Device, br_igmp_process_if_change(d) PROVE Uniform'
  <2> DEFINE E == IF d = Bridge THEN fdb ELSE OnDevice(d)
  <2>1. br_igmp_mc_fdb_del_entry(E, AllReporters(E))
    BY <1>5, Zenon DEF br_igmp_process_if_change
  <2>2. CASE d = Bridge
    <3>1. E = fdb
      BY <2>2
    <3> QED  BY <1>1, <1>2, <2>1, <3>1
  <2>3. CASE d # Bridge
    <3>1. E = OnDevice(d)
      BY <2>3
    <3> QED  BY <1>1, <1>3, <2>1, <3>1
  <2> QED  BY <2>2, <2>3
<1>6. ASSUME NEW d \in Device, FlushDevice(d) PROVE Uniform'
  <2>1. br_igmp_mc_fdb_del_entry(OnDevice(d), AllReporters(OnDevice(d)))
    BY <1>6, Zenon DEF FlushDevice
  <2> QED  BY <1>1, <1>3, <2>1
<1> QED  BY <1>4, <1>5, <1>6

LEMMA UpdateUniform ==
  ASSUME TableInv, NEW k \in Key, NEW r \in Reporter, br_mc_fdb_update(k, r)
  PROVE  (allocFailed => allocFailed') /\ (Uniform => Uniform' \/ allocFailed')
<1> DEFINE D == DOMAIN tstamp
           E == {e \in fdb : e[1] = k}
           New == {e \in E : <<e, r>> \notin D}
<1>1. PICK failed \in SUBSET New :
        /\ tstamp' = [p \in D \cup {<<e, r>> : e \in E \ failed} |->
                        IF p \in {<<e, r>> : e \in E \ failed} THEN Membership ELSE tstamp[p]]
        /\ UNCHANGED <<fdb, flows>>
        /\ allocFailed' = (allocFailed \/ failed # {})
  BY Zenon DEF br_mc_fdb_update
<1>2. allocFailed => allocFailed'
  BY <1>1, Zenon
<1>3. CASE failed # {}
  BY <1>1, <1>2, <1>3, Zenon
<1>4. ASSUME failed = {}, Uniform PROVE Uniform'
  <2> DEFINE set == {<<e, r>> : e \in E}
             D1 == D \cup set
  <2>1. E \ failed = E
    BY <1>4
  <2>2. /\ DOMAIN tstamp' = D1
        /\ \A p \in D1 : tstamp'[p] = IF p \in set THEN Membership ELSE tstamp[p]
        /\ fdb' = fdb /\ flows' = flows
    BY <1>1, <2>1
  <2>3. \A e, x : <<e, x>> \in set <=> e \in E /\ x = r
    OBVIOUS
  <2>4. \A e \in fdb : e \in E <=> Root(e[1]) \in E
    BY <1>4, RootDef DEF Uniform
  <2>5. \A e, x : <<e, x>> \in D1 <=> <<e, x>> \in D \/ (e \in E /\ x = r)
    BY <2>3
  <2> HIDE DEF set, D1, E
  <2> SUFFICES ASSUME NEW e \in fdb
               PROVE  /\ Root(e[1]) \in fdb
                      /\ \E f \in flows : f[1] = e[1]
                      /\ \A x \in Reporter :
                           /\ <<e, x>> \in D1 <=> <<Root(e[1]), x>> \in D1
                           /\ <<e, x>> \in D1 => tstamp'[<<e, x>>] = tstamp'[<<Root(e[1]), x>>]
    BY <2>2, Zenon DEF Uniform
  <2>6. /\ Root(e[1]) \in fdb
        /\ \E f \in flows : f[1] = e[1]
        /\ \A x \in Reporter :
             /\ <<e, x>> \in D <=> <<Root(e[1]), x>> \in D
             /\ <<e, x>> \in D => tstamp[<<e, x>>] = tstamp[<<Root(e[1]), x>>]
    BY <1>4, Zenon DEF Uniform
  <2>7. \A x \in Reporter : <<e, x>> \in D1 <=> <<Root(e[1]), x>> \in D1
    BY <2>4, <2>5, <2>6
  <2>8. ASSUME NEW x \in Reporter, <<e, x>> \in D1
        PROVE  tstamp'[<<e, x>>] = tstamp'[<<Root(e[1]), x>>]
    <3>1. <<Root(e[1]), x>> \in D1
      BY <2>7, <2>8
    <3>2. <<e, x>> \in set <=> <<Root(e[1]), x>> \in set
      BY <2>3, <2>4, Zenon
    <3>3. CASE <<e, x>> \in set
      BY <2>2, <2>8, <3>1, <3>2, <3>3
    <3>4. CASE <<e, x>> \notin set
      <4>1. <<e, x>> \in D
        BY <2>8, <3>4 DEF D1
      <4> QED  BY <2>2, <2>6, <2>8, <3>1, <3>2, <3>4, <4>1
    <3> QED  BY <3>3, <3>4
  <2> QED  BY <2>6, <2>7, <2>8
<1> QED  BY <1>2, <1>3, <1>4, Zenon

LEMMA AddUniform ==
  ASSUME TableInv, NEW k \in Key, NEW r \in Reporter, br_igmp_mc_fdb_add(k, r)
  PROVE  (allocFailed => allocFailed') /\ (Uniform => Uniform' \/ allocFailed')
<1>1. CASE br_mc_fdb_update(k, r)
  BY <1>1, UpdateUniform
<1>2. CASE ~br_mc_fdb_update(k, r)
  <2> DEFINE D == DOMAIN tstamp
  <2>1. PICK rules \in SUBSET (0 .. MaxCopies) :
          LET act == [x \in {k} |-> rules]
              new == Processed(act)
          IN  /\ rules # {}
              /\ fdb' = fdb \cup new
              /\ tstamp' = [p \in D \cup (new \X {r}) |->
                              IF p[1] \in new THEN Membership ELSE tstamp[p]]
              /\ flows' = flows \cup Activated(act)
    BY <1>2, Zenon DEF br_igmp_mc_fdb_add
  <2>2. allocFailed' = allocFailed /\ \A e \in fdb : e[1] # k
    BY <1>2, Zenon DEF br_igmp_mc_fdb_add
  <2> DEFINE act == [x \in {k} |-> rules]
             new == Processed(act)
             D1 == D \cup (new \X {r})
  <2>3. act \in [{k} -> SUBSET (0 .. MaxCopies)] /\ {k} \in SUBSET Key
    OBVIOUS
  <2> HIDE DEF act
  <2>4. \A e \in new : /\ e[1] = k /\ Root(e[1]) \in new
                       /\ \E f \in Activated(act) : f[1] = e[1]
    BY <2>3, ProcessedDef
  <2> HIDE DEF new
  <2>5. /\ fdb' = fdb \cup new /\ flows' = flows \cup Activated(act)
        /\ D1 = DOMAIN tstamp'
        /\ \A p \in D1 : tstamp'[p] = IF p[1] \in new THEN Membership ELSE tstamp[p]
    BY <2>1 DEF act, new
  <2>6. \A e, x : <<e, x>> \in D1 <=> <<e, x>> \in D \/ (e \in new /\ x = r)
    OBVIOUS
  <2>7. \A e, x : <<e, x>> \in D1 =>
           tstamp'[<<e, x>>] = IF e \in new THEN Membership ELSE tstamp[<<e, x>>]
    BY <2>5
  <2> HIDE DEF D1
  <2>8. \A e, x : <<e, x>> \in D => e \in fdb /\ e \notin new
    <3>1. \A e : e \in fdb <=> \E x \in Reporter : <<e, x>> \in D
      BY TableByReporters
    <3>2. \A e, x : <<e, x>> \in D => x \in Reporter
      BY DEF TableInv, TableTypes
    <3>3. \A e \in fdb : e \notin new
      BY <2>2, <2>4, Zenon
    <3> QED  BY <3>1, <3>2, <3>3, Zenon
  <2>9. ASSUME Uniform PROVE Uniform'
    <3> SUFFICES ASSUME NEW e \in fdb'
                 PROVE  /\ Root(e[1]) \in fdb'
                        /\ \E f \in flows' : f[1] = e[1]
                        /\ \A x \in Reporter :
                             /\ <<e, x>> \in D1 <=> <<Root(e[1]), x>> \in D1
                             /\ <<e, x>> \in D1 =>
                                   tstamp'[<<e, x>>] = tstamp'[<<Root(e[1]), x>>]
      BY <2>5, Zenon DEF Uniform
    <3>1. CASE e \in new
      <4>1. Root(e[1]) \in new /\ \E f \in Activated(act) : f[1] = e[1]
        BY <2>4, <3>1, Zenon
      <4>2. \A x : /\ <<e, x>> \in D1 <=> x = r
                   /\ <<Root(e[1]), x>> \in D1 <=> x = r
        BY <2>6, <2>8, <3>1, <4>1
      <4> QED  BY <2>5, <2>7, <3>1, <4>1, <4>2
    <3>2. CASE e \notin new
      <4>1. e \in fdb
        BY <2>5, <3>2
      <4>2. /\ Root(e[1]) \in fdb
            /\ \E f \in flows : f[1] = e[1]
            /\ \A x \in Reporter :
                 /\ <<e, x>> \in D <=> <<Root(e[1]), x>> \in D
                 /\ <<e, x>> \in D => tstamp[<<e, x>>] = tstamp[<<Root(e[1]), x>>]
        BY <2>9, <4>1, Zenon DEF Uniform
      <4>3. Root(e[1]) \notin new
        BY <2>2, <2>4, <4>2, Zenon
      <4> QED  BY <2>5, <2>6, <2>7, <3>2, <4>1, <4>2, <4>3
    <3> QED  BY <3>1, <3>2
  <2> QED  BY <2>2, <2>9, Zenon
<1> QED  BY <1>1, <1>2

LEMMA TickTable ==
  ASSUME TableInv, Tick
  PROVE  TableInv' /\ (Uniform => Uniform') /\ allocFailed' = allocFailed
<1>1. /\ DOMAIN tstamp' = DOMAIN tstamp
      /\ \A p \in DOMAIN tstamp : tstamp'[p] = Older(tstamp[p])
      /\ UNCHANGED <<fdb, flows, allocFailed>>
  BY DEF Tick
<1>2. TableInv'
  BY <1>1 DEF TableInv, TableTypes, FlowsOfEntries
<1>3. ASSUME Uniform PROVE Uniform'
  BY <1>1, <1>3 DEF Uniform
<1> QED  BY <1>1, <1>2, <1>3

LEMMA InitTable == Init => TableInv /\ RootBehindCopies
BY DEF Init, TableInv, TableTypes, FlowsOfEntries, RootBehindCopies

\* The steps that leave the table as it is.
LEMMA UnchangedTable ==
  ASSUME UNCHANGED <<fdb, tstamp, flows, allocFailed>>
  PROVE  (TableInv => TableInv') /\ (RootBehindCopies => RootBehindCopies')
BY DEF TableInv, TableTypes, FlowsOfEntries, RootBehindCopies

LEMMA NextTable ==
  TableInv /\ RootBehindCopies /\ [Next]_vars => TableInv' /\ RootBehindCopies'
<1> SUFFICES ASSUME TableInv, RootBehindCopies, [Next]_vars
             PROVE  TableInv' /\ RootBehindCopies'
  OBVIOUS
<1>1. allocFailed \/ Uniform
  BY RootBehindCopiesDef
<1>2. ASSUME TableInv', (Uniform => Uniform') /\ allocFailed' = allocFailed
      PROVE  TableInv' /\ RootBehindCopies'
  BY <1>1, <1>2, Zenon DEF RootBehindCopies, Uniform
<1>3. CASE UNCHANGED <<fdb, tstamp, flows, allocFailed>>
  BY <1>3, UnchangedTable
<1>4. ASSUME NEW k \in Key, NEW r \in Reporter, br_igmp_mc_fdb_add(k, r)
      PROVE  TableInv' /\ RootBehindCopies'
  <2>1. (allocFailed => allocFailed') /\ (Uniform => Uniform' \/ allocFailed')
    BY <1>4, AddUniform
  <2>2. RootBehindCopies'
    BY <1>1, <2>1, Zenon DEF RootBehindCopies, Uniform
  <2> QED  BY <1>4, <2>2, AddTable
<1>5. ASSUME NEW k \in Key, NEW r \in Reporter, br_igmp_mc_fdb_remove(k, r)
      PROVE  TableInv' /\ RootBehindCopies'
  <2>1. allocFailed' = allocFailed
    BY <1>5 DEF br_igmp_mc_fdb_remove
  <2> QED  BY <1>2, <1>5, <2>1, RemoveTable, RemoveUniform
<1>6. ASSUME NEW r \in Reporter, NEW d \in Port, br_igmp_wipe_reporter_for_port(r, d)
      PROVE  TableInv' /\ RootBehindCopies'
  <2>1. allocFailed' = allocFailed
    BY <1>6 DEF br_igmp_wipe_reporter_for_port
  <2> QED  BY <1>2, <1>6, <2>1, RemoveTable, RemoveUniform
<1>7. ASSUME NEW d \in Device, br_igmp_process_if_change(d)
      PROVE  TableInv' /\ RootBehindCopies'
  <2>1. allocFailed' = allocFailed
    BY <1>7 DEF br_igmp_process_if_change
  <2> QED  BY <1>2, <1>7, <2>1, FlushTable, FlushUniform
<1>8. ASSUME NEW d \in Device, FlushDevice(d)
      PROVE  TableInv' /\ RootBehindCopies'
  <2>1. allocFailed' = allocFailed
    BY <1>8 DEF FlushDevice
  <2> QED  BY <1>2, <1>8, <2>1, FlushTable, FlushUniform
<1>9. ASSUME NEW d \in Device, br_mcast_vlan_notify_for_blog_update(d)
      PROVE  TableInv' /\ RootBehindCopies'
  BY <1>2, <1>9, VlanTable
<1>10. CASE br_igmp_mc_fdb_cleanup
  <2>1. allocFailed' = allocFailed
    BY <1>10 DEF br_igmp_mc_fdb_cleanup
  <2> QED  BY <1>2, <1>10, <2>1, FlushTable, FlushUniform
<1>11. CASE br_igmp_timeout
  <2>1. allocFailed' = allocFailed
    BY <1>11 DEF br_igmp_timeout
  <2> QED  BY <1>2, <1>11, <2>1, TimeoutTable, TimeoutUniform
<1>12. CASE Tick
  BY <1>2, <1>12, TickTable
<1>13. ASSUME NEW s \in Skb, NEW d \in Port, br_igmp_mc_forward(s, d)
       PROVE  TableInv' /\ RootBehindCopies'
  BY <1>3, <1>13, Zenon DEF br_igmp_mc_forward, tableVars
<1>14. ASSUME NEW q \in asked, br_igmp_process_admission(q)
       PROVE  TableInv' /\ RootBehindCopies'
  BY <1>3, <1>14, Zenon DEF br_igmp_process_admission, tableVars
<1>15. CASE \/ TimerExpires \/ mcpd_nl_process_set_admission_control \/ set_igmp_snooping
            \/ br_igmp_wipe_pending_skbs \/ br_igmp_process_device_removal
            \/ UNCHANGED vars
  BY <1>3, <1>15, Zenon
     DEF TimerExpires, mcpd_nl_process_set_admission_control, set_igmp_snooping,
         br_igmp_wipe_pending_skbs, br_igmp_process_device_removal, vars, tableVars
<1> QED
  BY <1>4, <1>5, <1>6, <1>7, <1>8, <1>9, <1>10, <1>11, <1>12, <1>13, <1>14, <1>15, Zenon
     DEF Next

(***************************************************************************)
(* An entry is in the table exactly while it has a reporter, and a flow in *)
(* the accelerator always belongs to an entry, through every removal,      *)
(* timeout, flush, change of rules and failed allocation.                  *)
(***************************************************************************)
THEOREM FlowsOfEntriesHolds == Spec => []FlowsOfEntries
<1>1. TableInv => FlowsOfEntries
  BY DEF TableInv
<1> QED  BY <1>1, InitTable, NextTable, PTL DEF Spec

(***************************************************************************)
(* The root entry of a key and its copies have the same reporters with the *)
(* same time left, and one of them has a flow, as long as every reporter   *)
(* could be allocated: whatever deletes some of them deletes all.          *)
(***************************************************************************)
THEOREM RootBehindCopiesHolds == Spec => []RootBehindCopies
BY InitTable, NextTable, PTL DEF Spec

-----------------------------------------------------------------------------
(* The timer.                                                              *)

MaxTimeout == Max({Membership, SkbTimeout})

TimerType == igmp_timer \in {Off} \cup 0 .. MaxTimeout + Check

Ages == \A p \in DOMAIN tstamp : tstamp[p] \in Age

LEMMA MaxTimeoutDef ==
  MaxTimeout \in Nat /\ MaxTimeout >= Membership /\ MaxTimeout >= SkbTimeout
<1> DEFINE T == {Membership, SkbTimeout}
           m == IF Membership >= SkbTimeout THEN Membership ELSE SkbTimeout
<1>1. m \in T /\ \A y \in T : m >= y
  BY IgmpAssumption
<1>2. Max(T) \in T /\ \A y \in T : Max(T) >= y
  BY <1>1, Zenon DEF Max
<1> HIDE DEF m
<1> QED  BY <1>2, IgmpAssumption DEF MaxTimeout

\* br_igmp_set_timer covers every deadline it looks at.
LEMMA SetTimerCovers ==
  ASSUME SlotTypes', Ages', br_igmp_set_timer
  PROVE  TimerType' /\ TimerCovers'
<1> DEFINE M == -Check .. MaxTimeout
<1>1. \A i \in DOMAIN igmp_delayed_skb' :
         igmp_delayed_skb'[i].left \in M /\ igmp_delayed_skb'[i].left \in Deadlines
  <2>1. \A i \in DOMAIN igmp_delayed_skb' : igmp_delayed_skb'[i].left \in -Check .. SkbTimeout
    BY DEF SlotTypes
  <2> QED  BY <2>1, MaxTimeoutDef, IgmpAssumption DEF Deadlines
<1>2. \A p \in DOMAIN tstamp' : tstamp'[p] \in M /\ (igmp_snooping' => tstamp'[p] \in Deadlines)
  <2>1. \A p \in DOMAIN tstamp' : tstamp'[p] \in M
    BY MaxTimeoutDef, IgmpAssumption DEF Ages, Age
  <2>2. \A p \in DOMAIN tstamp' : igmp_snooping' => tstamp'[p] \in Deadlines
    BY DEF Deadlines, Range
  <2> QED  BY <2>1, <2>2, Zenon
<1>3. Deadlines \subseteq M
  BY <1>1, <1>2 DEF Deadlines, Range
<1>4. CASE Deadlines = {}
  <2>1. igmp_timer' = Off
    BY <1>4 DEF br_igmp_set_timer
  <2>2. DOMAIN igmp_delayed_skb' = {} /\ (igmp_snooping' => DOMAIN tstamp' = {})
    BY <1>1, <1>2, <1>4
  <2> QED  BY <2>1, <2>2 DEF TimerType, TimerCovers
<1>5. CASE Deadlines # {}
  <2> DEFINE U == {n \in Nat : n - Check \in Deadlines}
  <2>1. \A x \in Deadlines : x + Check \in U
    <3> TAKE x \in Deadlines
    <3>1. x + Check \in Nat /\ (x + Check) - Check = x
      BY <1>3, MaxTimeoutDef, IgmpAssumption
    <3> QED  BY <3>1
  <2>2. PICK u \in U : \A y \in U : u <= y
    BY <1>5, <2>1, LeastElement
  <2>3. u - Check \in Deadlines /\ \A x \in Deadlines : u - Check <= x
    BY <1>3, <2>1, <2>2, MaxTimeoutDef, IgmpAssumption
  <2> DEFINE m == Min(Deadlines)
  <2>4. m \in Deadlines /\ \A x \in Deadlines : m <= x
    BY <2>3, Zenon DEF Min
  <2>5. igmp_timer' = m + Check
    BY <1>5 DEF br_igmp_set_timer
  <2> HIDE DEF m
  <2>6. igmp_timer' \in 0 .. MaxTimeout + Check /\ igmp_timer' # Off
        /\ \A x \in Deadlines : igmp_timer' <= x + Check
    BY <1>3, <2>4, <2>5, MaxTimeoutDef, IgmpAssumption DEF Off
  <2> QED  BY <1>1, <1>2, <2>6 DEF TimerType, TimerCovers
<1> QED  BY <1>4, <1>5

LEMMA DelEntryAges ==
  ASSUME Ages, NEW E, NEW P, br_igmp_mc_fdb_del_entry(E, P)
  PROVE  Ages'
BY DEF Ages, br_igmp_mc_fdb_del_entry, Restrict

\* Whatever a step on the table does, the times left are old ones or a full
\* membership, and the timer is set unless no time has changed.
LEMMA TableStepTimer ==
  ASSUME Ages, TableStep
  PROVE  /\ Ages'
         /\ \/ br_igmp_set_timer
            \/ /\ UNCHANGED <<igmp_timer, synced>>
               /\ DOMAIN tstamp' = DOMAIN tstamp
               /\ \A p \in DOMAIN tstamp : tstamp'[p] = tstamp[p]
<1> DEFINE Goal == /\ Ages'
                   /\ \/ br_igmp_set_timer
                      \/ /\ UNCHANGED <<igmp_timer, synced>>
                         /\ DOMAIN tstamp' = DOMAIN tstamp
                         /\ \A p \in DOMAIN tstamp : tstamp'[p] = tstamp[p]
<1>a. Membership \in Age
  BY IgmpAssumption DEF Age
<1>1. ASSUME NEW k \in Key, NEW r \in Reporter, br_mc_fdb_update(k, r) PROVE Goal
  <2> DEFINE E == {e \in fdb : e[1] = k}
             New == {e \in E : <<e, r>> \notin DOMAIN tstamp}
  <2>1. PICK failed \in SUBSET New :
          LET set == {<<e, r>> : e \in E \ failed}
          IN  /\ tstamp' = [p \in DOMAIN tstamp \cup set |->
                              IF p \in set THEN Membership ELSE tstamp[p]]
              /\ IF set = {} THEN UNCHANGED timerVars ELSE br_igmp_set_timer
    BY <1>1, Zenon DEF br_mc_fdb_update
  <2> DEFINE set == {<<e, r>> : e \in E \ failed}
  <2>2. /\ tstamp' = [p \in DOMAIN tstamp \cup set |->
                        IF p \in set THEN Membership ELSE tstamp[p]]
        /\ IF set = {} THEN UNCHANGED timerVars ELSE br_igmp_set_timer
    BY <2>1, Zenon
  <2> HIDE DEF set
  <2>3. Ages'
    BY <1>a, <2>2 DEF Ages
  <2>4. CASE set = {}
    <3>1. UNCHANGED <<igmp_timer, synced>>
      BY <2>2, <2>4, Zenon DEF timerVars
    <3> QED  BY <2>2, <2>3, <2>4, <3>1
  <2>5. CASE set # {}
    BY <2>2, <2>3, <2>5, Zenon
  <2> QED  BY <2>4, <2>5
<1>2. ASSUME NEW k \in Key, NEW r \in Reporter, br_igmp_mc_fdb_add(k, r) PROVE Goal
  <2>1. CASE br_mc_fdb_update(k, r)
    BY <1>1, <2>1
  <2>2. CASE ~br_mc_fdb_update(k, r)
    <3>1. /\ br_igmp_set_timer
          /\ \E new : tstamp' = [p \in DOMAIN tstamp \cup (new \X {r}) |->
                                   IF p[1] \in new THEN Membership ELSE tstamp[p]]
      BY <1>2, <2>2, Zenon DEF br_igmp_mc_fdb_add
    <3>2. PICK new : tstamp' = [p \in DOMAIN tstamp \cup (new \X {r}) |->
                                   IF p[1] \in new THEN Membership ELSE tstamp[p]]
      BY <3>1
    <3>3. \A p \in new \X {r} : p[1] \in new
      OBVIOUS
    <3>4. Ages'
      BY <1>a, <3>2, <3>3 DEF Ages
    <3> QED  BY <3>1, <3>4, Zenon
  <2> QED  BY <2>1, <2>2
<1>3. ASSUME NEW k \in Key, NEW r \in Reporter, br_igmp_mc_fdb_remove(k, r) PROVE Goal
  <2>1. br_igmp_set_timer /\ \E E, P : br_igmp_mc_fdb_del_entry(E, P)
    BY <1>3, Zenon DEF br_igmp_mc_fdb_remove
  <2> QED  BY <2>1, DelEntryAges, Zenon
<1>4. ASSUME NEW r \in Reporter, NEW d \in Port, br_igmp_wipe_reporter_for_port(r, d)
      PROVE  Goal
  <2>1. br_igmp_set_timer /\ \E E, P : br_igmp_mc_fdb_del_entry(E, P)
    BY <1>4, Zenon DEF br_igmp_wipe_reporter_for_port
  <2> QED  BY <2>1, DelEntryAges, Zenon
<1>5. ASSUME NEW d \in Device, br_igmp_process_if_change(d) PROVE Goal
  <2>1. br_igmp_set_timer /\ \E E, P : br_igmp_mc_fdb_del_entry(E, P)
    BY <1>5, Zenon DEF br_igmp_process_if_change
  <2> QED  BY <2>1, DelEntryAges, Zenon
<1>6. ASSUME NEW d \in Device, FlushDevice(d) PROVE Goal
  <2>1. br_igmp_set_timer /\ \E E, P : br_igmp_mc_fdb_del_entry(E, P)
    BY <1>6, Zenon DEF FlushDevice
  <2> QED  BY <2>1, DelEntryAges, Zenon
<1>7. ASSUME br_igmp_mc_fdb_cleanup PROVE Goal
  <2>1. br_igmp_set_timer /\ \E E, P : br_igmp_mc_fdb_del_entry(E, P)
    BY <1>7, Zenon DEF br_igmp_mc_fdb_cleanup
  <2> QED  BY <2>1, DelEntryAges, Zenon
<1>8. ASSUME NEW d \in Device, br_mcast_vlan_notify_for_blog_update(d) PROVE Goal
  <2>1. br_igmp_set_timer
    BY <1>8, Zenon DEF br_mcast_vlan_notify_for_blog_update
  <2>2. PICK now :
          LET kept == {p \in DOMAIN tstamp : p[1] \notin OnDevice(d)}
              set  == {p \in now \X Reporter : <<Root(p[1][1]), p[2]>> \in DOMAIN tstamp}
          IN  tstamp' = [p \in kept \cup set |->
                           IF p \in kept THEN tstamp[p] ELSE tstamp[<<Root(p[1][1]), p[2]>>]]
    BY <1>8, Zenon DEF br_mcast_vlan_notify_for_blog_update
  <2>3. Ages'
    BY <2>2 DEF Ages
  <2> QED  BY <2>1, <2>3, Zenon
<1> QED  BY <1>2, <1>3, <1>4, <1>5, <1>6, <1>7, <1>8, Zenon DEF TableStep

TimerInv == Ages /\ TimerType /\ TimerCovers

LEMMA InitTimer == Init => TimerInv
BY MaxTimeoutDef, IgmpAssumption DEF Init, TimerInv, Ages, TimerType, TimerCovers, Off

\* Slots are freed without setting the timer: what remains is still covered.
LEMMA FreeTimer ==
  ASSUME TimerInv, NEW I \in SUBSET DOMAIN igmp_delayed_skb, NEW Q, FreeSlots(I, Q),
         UNCHANGED <<tstamp, igmp_timer, synced, igmp_snooping, firing>>
  PROVE  TimerInv'
BY DEF FreeSlots, Restrict, TimerInv, Ages, TimerType, TimerCovers

LEMMA TickTimer ==
  ASSUME TimerInv, SlotTypes, Tick
  PROVE  TimerInv'
<1> DEFINE D == DOMAIN igmp_delayed_skb
<1>1. /\ igmp_delayed_skb' = [i \in D |-> [igmp_delayed_skb[i] EXCEPT !.left = Older(@)]]
      /\ tstamp' = [p \in DOMAIN tstamp |-> Older(tstamp[p])]
      /\ igmp_timer' = (IF igmp_timer > 0 THEN igmp_timer - 1 ELSE igmp_timer)
      /\ UNCHANGED <<igmp_snooping, synced, firing>>
  BY DEF Tick, modeVars
<1>2. \A p \in DOMAIN tstamp : tstamp[p] \in Age /\ tstamp[p] \in Int
  BY IgmpAssumption DEF TimerInv, Ages, Age
<1>3. Ages'
  <2>1. ASSUME NEW t \in Age  PROVE  Older(t) \in Age
    <3>1. /\ Check \in Nat /\ Membership \in Nat
          /\ t \in Int /\ t <= Membership
      BY IgmpAssumption DEF Age
    <3>2. Older(t) \in Int /\ Older(t) >= -Check /\ (Older(t) = t - 1 \/ Older(t) = -Check)
      BY <3>1, OlderDef
    <3> QED  BY <3>1, <3>2 DEF Age
  <2>2. \A p \in DOMAIN tstamp' : tstamp'[p] = Older(tstamp[p]) /\ tstamp[p] \in Age
    BY <1>1, <1>2
  <2> QED  BY <2>1, <2>2 DEF Ages
<1>4. igmp_timer \in {Off} \cup 0 .. MaxTimeout + Check
  BY DEF TimerInv, TimerType
<1>5. TimerType'
  BY <1>1, <1>4, MaxTimeoutDef, IgmpAssumption DEF TimerType, Off
<1>6. ASSUME NEW t \in Int, t >= -Check, igmp_timer # Off, igmp_timer <= t + Check
      PROVE  igmp_timer' # Off /\ igmp_timer' <= Older(t) + Check
  BY <1>1, <1>4, <1>6, OlderDef, MaxTimeoutDef, IgmpAssumption DEF Off
<1>7. \A i \in D : igmp_delayed_skb[i].left \in Int /\ igmp_delayed_skb[i].left >= -Check
                   /\ igmp_delayed_skb'[i].left = Older(igmp_delayed_skb[i].left)
  <2> TAKE i \in D
  <2>1. igmp_delayed_skb[i] \in [skb : Skb, dev : Port, left : -Check .. SkbTimeout]
    BY DEF SlotTypes
  <2>2. igmp_delayed_skb'[i] = [igmp_delayed_skb[i] EXCEPT !.left = Older(@)]
    BY <1>1
  <2> QED  BY <2>1, <2>2, IgmpAssumption
<1>8. \A p \in DOMAIN tstamp : tstamp[p] >= -Check /\ tstamp'[p] = Older(tstamp[p])
  BY <1>1, <1>2, IgmpAssumption DEF Age
<1>9. DOMAIN igmp_delayed_skb' = D /\ DOMAIN tstamp' = DOMAIN tstamp
  BY <1>1
<1>10. TimerCovers'
  <2>1. CASE firing
    BY <1>1, <2>1 DEF TimerCovers
  <2>2. CASE ~firing
    <3>1. \A i \in D : igmp_timer' # Off /\ igmp_timer' <= igmp_delayed_skb'[i].left + Check
      BY <1>6, <1>7, <2>2 DEF TimerInv, TimerCovers
    <3>2. igmp_snooping /\ synced =>
            \A p \in DOMAIN tstamp : igmp_timer' # Off /\ igmp_timer' <= tstamp'[p] + Check
      BY <1>2, <1>6, <1>8, <2>2 DEF TimerInv, TimerCovers
    <3> QED  BY <1>1, <1>9, <3>1, <3>2 DEF TimerCovers
  <2> QED  BY <2>1, <2>2
<1> QED  BY <1>3, <1>5, <1>10 DEF TimerInv

LEMMA NextTimer == TimerInv /\ SlotInv /\ [Next]_vars => TimerInv'
<1> SUFFICES ASSUME TimerInv, SlotInv, [Next]_vars PROVE TimerInv'
  OBVIOUS
<1>1. SlotTypes /\ SlotTypes'
  BY NextSlots DEF SlotInv
<1>2. ASSUME UNCHANGED <<igmp_delayed_skb, tstamp, igmp_timer, synced, igmp_snooping, firing>>
      PROVE  TimerInv'
  BY <1>2 DEF TimerInv, Ages, TimerType, TimerCovers
<1>3. ASSUME Ages', br_igmp_set_timer PROVE TimerInv'
  BY <1>1, <1>3, SetTimerCovers DEF TimerInv
<1>4. CASE TableStep
  <2>1. /\ Ages'
        /\ \/ br_igmp_set_timer
           \/ /\ UNCHANGED <<igmp_timer, synced>>
              /\ DOMAIN tstamp' = DOMAIN tstamp
              /\ \A p \in DOMAIN tstamp : tstamp'[p] = tstamp[p]
    BY <1>4, TableStepTimer, Zenon DEF TimerInv
  <2>2. CASE br_igmp_set_timer
    BY <1>3, <2>1, <2>2
  <2>3. CASE ~br_igmp_set_timer
    <3>1. UNCHANGED <<igmp_delayed_skb, igmp_snooping, firing>>
      BY <1>4, TableStepFrame
    <3> QED  BY <2>1, <2>3, <3>1 DEF TimerInv, TimerType, TimerCovers
  <2> QED  BY <2>2, <2>3
<1>5. CASE br_igmp_timeout
  <2>1. br_igmp_set_timer /\ \E E, P : br_igmp_mc_fdb_del_entry(E, P)
    BY <1>5, Zenon DEF br_igmp_timeout
  <2> QED  BY <1>3, <2>1, DelEntryAges, Zenon DEF TimerInv
<1>6. CASE br_igmp_wipe_pending_skbs
  <2>1. /\ FreeSlots(DOMAIN igmp_delayed_skb, asked)
        /\ UNCHANGED <<tstamp, igmp_timer, synced, igmp_snooping, firing>>
    BY <1>6, Zenon DEF br_igmp_wipe_pending_skbs, tableVars, timerVars, modeVars
  <2> QED  BY <2>1, FreeTimer
<1>7. CASE br_igmp_process_device_removal
  <2> DEFINE I == {i \in DOMAIN igmp_delayed_skb : event \in {Bridge, igmp_delayed_skb[i].dev}}
  <2>1. /\ I \in SUBSET DOMAIN igmp_delayed_skb /\ FreeSlots(I, asked)
        /\ UNCHANGED <<tstamp, igmp_timer, synced, igmp_snooping, firing>>
    BY <1>7, Zenon DEF br_igmp_process_device_removal, tableVars, timerVars, modeVars
  <2> QED  BY <2>1, FreeTimer
<1>8. ASSUME NEW q \in asked, br_igmp_process_admission(q) PROVE TimerInv'
  <2> DEFINE I == {i \in DOMAIN igmp_delayed_skb : igmp_delayed_skb[i].skb = q[1]}
  <2>1. /\ I \in SUBSET DOMAIN igmp_delayed_skb /\ FreeSlots(I, asked \ {q})
        /\ UNCHANGED <<tstamp, igmp_timer, synced, igmp_snooping, firing>>
    BY <1>8, Zenon DEF br_igmp_process_admission, tableVars, timerVars, modeVars
  <2> QED  BY <2>1, FreeTimer
<1>9. CASE Tick
  BY <1>1, <1>9, TickTimer
<1>10. ASSUME NEW s \in Skb, NEW d \in Port, br_igmp_mc_forward(s, d) PROVE TimerInv'
  <2>1. /\ UNCHANGED <<tstamp, igmp_snooping, firing>>
        /\ \/ br_igmp_set_timer
           \/ UNCHANGED <<igmp_delayed_skb, igmp_timer, synced>>
    BY <1>10, Zenon DEF br_igmp_mc_forward, tableVars, modeVars, timerVars
  <2>2. Ages'
    BY <2>1 DEF TimerInv, Ages
  <2> QED  BY <1>2, <1>3, <2>1, <2>2, Zenon
<1>11. CASE TimerExpires
  <2>1. firing' = TRUE /\ tstamp' = tstamp /\ igmp_timer' = Off
    BY <1>11, Zenon DEF TimerExpires, tableVars
  <2> QED  BY <2>1 DEF TimerInv, Ages, TimerType, TimerCovers
<1>12. CASE mcpd_nl_process_set_admission_control
  BY <1>2, <1>12, Zenon
     DEF mcpd_nl_process_set_admission_control, tableVars, slotVars, timerVars
<1>13. CASE set_igmp_snooping
  <2>1. /\ igmp_snooping' = ~igmp_snooping /\ synced' = (synced /\ igmp_snooping)
        /\ UNCHANGED <<tstamp, igmp_delayed_skb, igmp_timer, firing>>
    BY <1>13, Zenon DEF set_igmp_snooping, tableVars, slotVars
  <2> QED  BY <2>1 DEF TimerInv, Ages, TimerType, TimerCovers
<1>14. CASE UNCHANGED vars
  BY <1>2, <1>14, Zenon DEF vars, tableVars, slotVars, timerVars, modeVars
<1> QED
  BY <1>4, <1>5, <1>6, <1>7, <1>8, <1>9, <1>10, <1>11, <1>12, <1>13, <1>14, NextCases, Zenon
     DEF FreeStep

(***************************************************************************)
(* Whatever sets, moves or clears the timer and whatever adds and removes  *)
(* deadlines behind its back, it is set for no later than                  *)
(* TIMER_CHECK_TIMEOUT after each deadline it is for, or its handler is    *)
(* about to run: no packet and no membership is forgotten.                 *)
(***************************************************************************)
THEOREM TimerCoversHolds == Spec => []TimerCovers
<1>1. TimerInv => TimerCovers
  BY DEF TimerInv
<1> QED  BY <1>1, InitTimer, NextTimer, InitSlots, NextSlots, PTL DEF Spec

-----------------------------------------------------------------------------
(* Type correctness.                                                       *)

FlagTypes ==
  /\ igmp_snooping \in BOOLEAN /\ mcpdControlsIgmpAdmission \in BOOLEAN
  /\ firing \in BOOLEAN /\ synced \in BOOLEAN /\ allocFailed \in BOOLEAN

ContextTypes ==
  /\ mcpd \in {"idle", "wipe"} /\ event \in Device \cup {NULL}
  /\ asked \subseteq Skb \X (0 .. MaxAge)

LEMMA TypeParts ==
  FlagTypes /\ ContextTypes /\ TableTypes /\ SlotTypes /\ TimerType /\ Ages => TypeOK
BY Zenon DEF FlagTypes, ContextTypes, TableTypes, SlotTypes, TimerType, Ages, MaxTimeout, TypeOK

LEMMA TableStepContext ==
  ASSUME FlagTypes, ContextTypes, TableStep
  PROVE  /\ mcpd' \in {"idle", "wipe"} /\ event' \in Device \cup {NULL}
         /\ synced' \in BOOLEAN /\ allocFailed' \in BOOLEAN
<1> DEFINE Goal == /\ mcpd' \in {"idle", "wipe"} /\ event' \in Device \cup {NULL}
                   /\ synced' \in BOOLEAN /\ allocFailed' \in BOOLEAN
<1>0. /\ mcpd \in {"idle", "wipe"} /\ event \in Device \cup {NULL}
      /\ synced \in BOOLEAN /\ allocFailed \in BOOLEAN
  BY Zenon DEF FlagTypes, ContextTypes
<1>1. ASSUME NEW k \in Key, NEW r \in Reporter, br_igmp_mc_fdb_add(k, r) PROVE Goal
  <2>1. CASE br_mc_fdb_update(k, r)
    <3>1. (\E failed : allocFailed' = (allocFailed \/ failed # {}))
          /\ (synced' = synced \/ synced' = TRUE)
      BY <2>1, Zenon DEF br_mc_fdb_update, timerVars, br_igmp_set_timer
    <3>2. mcpd' = mcpd /\ event' = event
      BY <1>1, Zenon DEF br_igmp_mc_fdb_add
    <3> QED  BY <1>0, <3>1, <3>2, Zenon
  <2>2. CASE ~br_mc_fdb_update(k, r)
    BY <1>0, <1>1, <2>2, Zenon DEF br_igmp_mc_fdb_add, br_igmp_set_timer
  <2> QED  BY <2>1, <2>2, Zenon
<1>2. ASSUME NEW k \in Key, NEW r \in Reporter, br_igmp_mc_fdb_remove(k, r) PROVE Goal
  BY <1>0, <1>2, Zenon DEF br_igmp_mc_fdb_remove, br_igmp_set_timer
<1>3. ASSUME NEW r \in Reporter, NEW d \in Port, br_igmp_wipe_reporter_for_port(r, d)
      PROVE  Goal
  BY <1>0, <1>3, Zenon DEF br_igmp_wipe_reporter_for_port, br_igmp_set_timer
<1>4. ASSUME NEW d \in Device, br_igmp_process_if_change(d) PROVE Goal
  <2>1. /\ synced' = TRUE /\ allocFailed' = allocFailed /\ event' = event
        /\ mcpd' = "wipe" \/ mcpd' = "idle"
    BY <1>4, Zenon DEF br_igmp_process_if_change, br_igmp_set_timer
  <2> QED  BY <1>0, <2>1, Zenon
<1>5. ASSUME NEW d \in Device, FlushDevice(d) PROVE Goal
  BY <1>0, <1>5, Zenon DEF FlushDevice, br_igmp_set_timer
<1>6. ASSUME NEW d \in Device, br_mcast_vlan_notify_for_blog_update(d) PROVE Goal
  BY <1>0, <1>6, Zenon DEF br_mcast_vlan_notify_for_blog_update, br_igmp_set_timer
<1>7. ASSUME br_igmp_mc_fdb_cleanup PROVE Goal
  BY <1>0, <1>7, Zenon DEF br_igmp_mc_fdb_cleanup, br_igmp_set_timer
<1> QED  BY <1>1, <1>2, <1>3, <1>4, <1>5, <1>6, <1>7, Zenon DEF TableStep

\* A question about a packet that left its slot grows older.
LEMMA FreeAsked ==
  ASSUME ContextTypes, NEW I, NEW Q \in SUBSET asked, FreeSlots(I, Q)
  PROVE  asked' \subseteq Skb \X (0 .. MaxAge)
<1>1. \A q \in Q : q[1] \in Skb /\ q[2] \in 0 .. MaxAge
  BY DEF ContextTypes
<1>2. \A age \in 0 .. MaxAge : OlderQuestion(age) \in 0 .. MaxAge
  BY IgmpAssumption DEF OlderQuestion
<1>3. PICK S : asked' = {<<q[1], IF q[1] \in S THEN OlderQuestion(q[2]) ELSE q[2]>> : q \in Q}
  BY Zenon DEF FreeSlots
<1> QED  BY <1>1, <1>2, <1>3

LEMMA NextContext ==
  FlagTypes /\ ContextTypes /\ [Next]_vars => FlagTypes' /\ ContextTypes'
<1> SUFFICES ASSUME FlagTypes, ContextTypes, [Next]_vars PROVE FlagTypes' /\ ContextTypes'
  OBVIOUS
<1> USE DEF FlagTypes, ContextTypes
<1>1. CASE TableStep
  BY <1>1, TableStepFrame, TableStepContext, Zenon
<1>2. CASE FreeStep
  <2>1. asked' \subseteq Skb \X (0 .. MaxAge)
    BY <1>2, FreeStepFrame, FreeAsked, Zenon
  <2>2. UNCHANGED <<igmp_snooping, mcpdControlsIgmpAdmission>>
    BY <1>2, FreeStepFrame, Zenon
  <2>3. /\ firing' = firing \/ firing' = FALSE
        /\ synced' = synced \/ synced' = TRUE
        /\ allocFailed' = allocFailed
        /\ mcpd' = mcpd \/ mcpd' = "idle"
        /\ event' = event \/ event' = NULL
    BY <1>2, Zenon DEF FreeStep, br_igmp_timeout, br_igmp_wipe_pending_skbs,
       br_igmp_process_device_removal, br_igmp_process_admission, br_igmp_set_timer, timerVars
  <2> QED  BY <2>1, <2>2, <2>3, Zenon
<1>3. CASE Tick
  BY <1>3, Zenon DEF Tick, modeVars
<1>4. ASSUME NEW s \in Skb, NEW d \in Port, br_igmp_mc_forward(s, d)
      PROVE  FlagTypes' /\ ContextTypes'
  <2>1. /\ UNCHANGED <<igmp_snooping, mcpdControlsIgmpAdmission, firing, mcpd, event, allocFailed>>
        /\ synced' = synced \/ synced' = TRUE
        /\ asked' = asked \/ asked' = asked \cup {<<s, 0>>}
    BY <1>4, Zenon DEF br_igmp_mc_forward, br_igmp_set_timer, timerVars, modeVars
  <2>2. asked' \subseteq Skb \X (0 .. MaxAge)
    BY <2>1, IgmpAssumption
  <2> QED  BY <2>1, <2>2, Zenon
<1>5. CASE TimerExpires
  BY <1>5, Zenon DEF TimerExpires, slotVars, modeVars
<1>6. CASE mcpd_nl_process_set_admission_control
  BY <1>6, Zenon DEF mcpd_nl_process_set_admission_control, slotVars, timerVars
<1>7. CASE set_igmp_snooping
  BY <1>7, Zenon DEF set_igmp_snooping, slotVars
<1>8. CASE UNCHANGED vars
  BY <1>8, Zenon DEF vars, slotVars, timerVars, modeVars
<1> QED  BY <1>1, <1>2, <1>3, <1>4, <1>5, <1>6, <1>7, <1>8, NextCases, Zenon

(***************************************************************************)
(* Type correctness: the slots in use are slots of the array, the times    *)
(* left and the timer stay within the timeouts, and every reporter belongs *)
(* to a possible entry.                                                    *)
(***************************************************************************)
THEOREM TypeCorrect == Spec => []TypeOK
<1>1. Init => FlagTypes /\ ContextTypes
  BY Zenon DEF Init, FlagTypes, ContextTypes
<1>2. FlagTypes /\ ContextTypes /\ TableInv /\ SlotInv /\ TimerInv => TypeOK
  BY TypeParts, Zenon DEF TableInv, SlotInv, TimerInv
<1> QED
  BY <1>1, <1>2, NextContext, InitTable, NextTable, InitSlots, NextSlots, InitTimer,
     NextTimer, PTL DEF Spec
=============================================================================

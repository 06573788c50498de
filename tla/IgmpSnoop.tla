----------------------------- MODULE IgmpSnoop -----------------------------
(***************************************************************************)
(* IGMP snooping of one bridge: the table of group memberships, the        *)
(* packets that wait for the admission answer of the daemon mcpd, and the  *)
(* one timer that ages both (kernel/linux-3.4rt/net/bridge/br_igmp.c, with *)
(* its callers in br_netlink_mcpd.c and br_mcast.c).                       *)
(*                                                                         *)
(* Everything under br->mcl_lock is one step.  The netlink messages of     *)
(* mcpd are handled one after the other in its own context; packets, the   *)
(* timer and network device events come in between.  Times are the         *)
(* jiffies that remain; they are not followed below -Check, where the      *)
(* timer they ask for is due at once.                                      *)
(***************************************************************************)
EXTENDS Integers, FiniteSets, Functions, FiniteSetsExt

CONSTANTS
  Key,         \* (txGrp, rxGrp, src, filt_mode, from_dev, dst): what add and remove match
  Reporter,    \* rep
  Device,      \* network devices, the bridge itself among them
  Bridge,      \* br->dev
  DstDev,      \* key -> dst->dev, a bridge port
  FromDev,     \* key -> from_dev
  MaxCopies,   \* entries br_mcast_vlan_process may add to the root entry of a key
  Skb,         \* addresses of packets
  MCPD_MAX_DELAYED_SKB_COUNT,
  MaxAsked,    \* questions without an answer; the netlink socket drops what is more
  MaxAge,      \* bound: how far the ages of questions are told apart
  Membership,  \* BR_IGMP_MEMBERSHIP_TIMEOUT
  SkbTimeout,  \* MCPD_NETLINK_SKB_TIMEOUT_MS
  Check,       \* TIMER_CHECK_TIMEOUT
  NULL

ASSUME IgmpAssumption ==
  /\ Bridge \in Device /\ NULL \notin Device
  /\ DstDev \in [Key -> Device \ {Bridge}] /\ FromDev \in [Key -> Device]
  /\ MaxCopies \in Nat
  /\ MCPD_MAX_DELAYED_SKB_COUNT \in Nat /\ MaxAsked \in Nat
  /\ MaxAge \in Nat \ {0}
  /\ Membership \in Nat \ {0} /\ SkbTimeout \in Nat \ {0} /\ Check \in Nat \ {0}

VARIABLES
  fdb,                        \* entries of mc_hash: a key and 0 (the root) or the number of a copy
  tstamp,                     \* the reporters in the entries' rep_list, with the time they have left
  flows,                      \* entries with an activated blog (blog_idx)
  igmp_delayed_skb,           \* used slots: the packet, its device and the time it has left
  owner,                      \* of each packet: "free", "held" in a slot or "lost"
  igmp_snooping,              \* snooping enabled, blocking or not
  mcpdControlsIgmpAdmission,
  igmp_timer,                 \* time left, or Off
  firing,                     \* br_igmp_timeout was started and waits for mcl_lock
  mcpd,                       \* a netlink handler that has yet to clear the slots: "wipe"
  event,                      \* the device whose packets an event has yet to clear, or NULL
  asked,                      \* questions mcpd has not answered: an address and its age, how
                              \*   many packets have left a slot at that address since; 0: the
                              \*   packet that was asked about has not
  synced,                     \* history: br_igmp_set_timer ran since snooping was switched on
  allocFailed                 \* history: br_mc_fdb_update failed to allocate a reporter

tableVars == <<fdb, tstamp, flows>>
slotVars == <<igmp_delayed_skb, owner, asked>>
timerVars == <<igmp_timer, synced>>
modeVars == <<igmp_snooping, mcpdControlsIgmpAdmission>>
vars == <<tableVars, slotVars, timerVars, modeVars, firing, mcpd, event, allocFailed>>

Entry == Key \X (0 .. MaxCopies)
Root(k) == <<k, 0>>
Slot == 1 .. MCPD_MAX_DELAYED_SKB_COUNT
Port == {DstDev[k] : k \in Key}
Off == -1
Age == -Check .. Membership

TypeOK ==
  /\ fdb \subseteq Entry /\ flows \subseteq Entry
  /\ DOMAIN tstamp \subseteq Entry \X Reporter
  /\ \A p \in DOMAIN tstamp : tstamp[p] \in Age
  /\ DOMAIN igmp_delayed_skb \subseteq Slot
  /\ \A i \in DOMAIN igmp_delayed_skb :
       igmp_delayed_skb[i] \in [skb : Skb, dev : Port, left : -Check .. SkbTimeout]
  /\ owner \in [Skb -> {"free", "held", "lost"}]
  /\ igmp_snooping \in BOOLEAN /\ mcpdControlsIgmpAdmission \in BOOLEAN
  /\ igmp_timer \in {Off} \cup 0 .. Max({Membership, SkbTimeout}) + Check
  /\ firing \in BOOLEAN /\ mcpd \in {"idle", "wipe"} /\ event \in Device \cup {NULL}
  /\ asked \subseteq Skb \X (0 .. MaxAge)
  /\ synced \in BOOLEAN /\ allocFailed \in BOOLEAN

Init ==
  /\ fdb = {} /\ tstamp = [p \in {} |-> 0] /\ flows = {}
  /\ igmp_delayed_skb = [i \in {} |-> NULL]
  /\ owner = [s \in Skb |-> "free"]
  /\ igmp_snooping = FALSE /\ mcpdControlsIgmpAdmission = FALSE
  /\ igmp_timer = Off /\ firing = FALSE
  /\ mcpd = "idle" /\ event = NULL /\ asked = {}
  /\ synced = TRUE /\ allocFailed = FALSE

-----------------------------------------------------------------------------
(* The timer.                                                              *)

\* Mutant of Deadlines: with snooping off the packets are left out as well.
MutPendingNeedsSnooping ==
  IF igmp_snooping'
    THEN {igmp_delayed_skb'[i].left : i \in DOMAIN igmp_delayed_skb'} \cup Range(tstamp')
    ELSE {}

\* br_igmp_get_next_timer_expiry, and the reporters when snooping is on.
Deadlines ==
  {igmp_delayed_skb'[i].left : i \in DOMAIN igmp_delayed_skb'}
    \cup (IF igmp_snooping' THEN Range(tstamp') ELSE {})

\* Mutant of br_igmp_set_timer: a timer that is set is not moved forward.
MutTimerKept ==
  /\ igmp_timer' = IF Deadlines = {} THEN Off
                   ELSE IF igmp_timer # Off THEN igmp_timer ELSE Min(Deadlines) + Check
  /\ synced' = TRUE

\* Mutant of br_igmp_set_timer: the slack is added twice.
MutTwiceCheck ==
  /\ igmp_timer' = IF Deadlines = {} THEN Off ELSE Min(Deadlines) + 2 * Check
  /\ synced' = TRUE

br_igmp_set_timer ==
  /\ igmp_timer' = IF Deadlines = {} THEN Off ELSE Min(Deadlines) + Check
  /\ synced' = TRUE

Older(t) == Max({t - 1, -Check})

\* Time passes.
Tick ==
  /\ tstamp' = [p \in DOMAIN tstamp |-> Older(tstamp[p])]
  /\ igmp_delayed_skb' = [i \in DOMAIN igmp_delayed_skb |->
                            [igmp_delayed_skb[i] EXCEPT !.left = Older(@)]]
  /\ igmp_timer' = IF igmp_timer > 0 THEN igmp_timer - 1 ELSE igmp_timer
  /\ UNCHANGED <<fdb, flows, owner, asked, synced, modeVars, firing, mcpd, event, allocFailed>>

\* The timer is due: its handler starts, and the timer may be set anew.
TimerExpires ==
  /\ igmp_timer = 0 /\ ~firing
  /\ igmp_timer' = Off /\ firing' = TRUE
  /\ UNCHANGED <<tableVars, slotVars, synced, modeVars, mcpd, event, allocFailed>>

-----------------------------------------------------------------------------
(* The table of memberships.                                               *)

\* Mutant of br_igmp_mc_fdb_del_entry: the blog is not released.
MutFlowKept(E, P) ==
  LET kept == DOMAIN tstamp \ P
      gone == {e \in E : \A r \in Reporter : <<e, r>> \notin kept}
  IN  /\ tstamp' = Restrict(tstamp, kept)
      /\ fdb' = fdb \ gone
      /\ UNCHANGED flows

\* Called for the entries E: the reporters in P go, and with its last
\* reporter the entry, whose blog is released.
br_igmp_mc_fdb_del_entry(E, P) ==
  LET kept == DOMAIN tstamp \ P
      gone == {e \in E : \A r \in Reporter : <<e, r>> \notin kept}
  IN  /\ tstamp' = Restrict(tstamp, kept)
      /\ fdb' = fdb \ gone
      /\ flows' = flows \ gone

AllReporters(E) == E \X Reporter

OlderQuestion(age) == IF age < MaxAge THEN age + 1 ELSE age

\* Mutant of FreeSlots: the slot keeps its pointer.
MutSlotKept(I, Q) ==
  LET S == {igmp_delayed_skb[i].skb : i \in I}
  IN  /\ UNCHANGED igmp_delayed_skb
      /\ owner' = [s \in Skb |-> IF s \in S THEN "free" ELSE owner[s]]
      /\ asked' = {<<q[1], IF q[1] \in S THEN OlderQuestion(q[2]) ELSE q[2]>> : q \in Q}

\* Packets leave their slots, sent or freed; the questions Q about packets at
\* their addresses grow older.
FreeSlots(I, Q) ==
  LET S == {igmp_delayed_skb[i].skb : i \in I}
  IN  /\ igmp_delayed_skb' = Restrict(igmp_delayed_skb, DOMAIN igmp_delayed_skb \ I)
      /\ owner' = [s \in Skb |-> IF s \in S THEN "free" ELSE owner[s]]
      /\ asked' = {<<q[1], IF q[1] \in S THEN OlderQuestion(q[2]) ELSE q[2]>> : q \in Q}

\* Mutant of br_igmp_timeout: the timer is not set for those that remain.
MutNotRearmed ==
  /\ firing
  /\ LET expired == {p \in DOMAIN tstamp : tstamp[p] <= 0}
     IN  br_igmp_mc_fdb_del_entry({p[1] : p \in expired}, expired)
  /\ FreeSlots({i \in DOMAIN igmp_delayed_skb : igmp_delayed_skb[i].left < 0}, asked)
  /\ UNCHANGED <<timerVars, modeVars, mcpd, event, allocFailed>>
  /\ firing' = FALSE

\* br_igmp_query_timeout, br_igmp_process_timer_check, br_igmp_set_timer.
br_igmp_timeout ==
  /\ firing
  /\ LET expired == {p \in DOMAIN tstamp : tstamp[p] <= 0}
     IN  br_igmp_mc_fdb_del_entry({p[1] : p \in expired}, expired)
  /\ FreeSlots({i \in DOMAIN igmp_delayed_skb : igmp_delayed_skb[i].left < 0}, asked)
  /\ UNCHANGED <<modeVars, mcpd, event, allocFailed>>
  /\ br_igmp_set_timer
  /\ firing' = FALSE

\* Mutant of br_mc_fdb_update: the search ends at the root entry.
MutFirstMatchOnly(k, r) ==
  /\ Root(k) \in fdb
  /\ tstamp' = [p \in DOMAIN tstamp \cup {<<Root(k), r>>} |->
                  IF p = <<Root(k), r>> THEN Membership ELSE tstamp[p]]
  /\ UNCHANGED <<fdb, flows, slotVars, modeVars, allocFailed>>
  /\ br_igmp_set_timer

\* A refresh by br_mc_fdb_update of all entries of the key; where the
\* reporter is new its allocation may fail.
br_mc_fdb_update(k, r) ==
  LET E    == {e \in fdb : e[1] = k}
      New  == {e \in E : <<e, r>> \notin DOMAIN tstamp}
  IN  \E failed \in SUBSET New :
        LET set == {<<e, r>> : e \in E \ failed}
        IN  /\ tstamp' = [p \in DOMAIN tstamp \cup set |->
                             IF p \in set THEN Membership ELSE tstamp[p]]
            /\ UNCHANGED <<fdb, flows, slotVars, modeVars>>
            /\ IF set = {} THEN UNCHANGED timerVars ELSE br_igmp_set_timer
            /\ allocFailed' = (allocFailed \/ failed # {})

\* What br_mcast_blog_process makes of root entries with the reporters P:
\* act[k] are the rules that were activated, the first one for the root and
\* each further one for a copy; a copy that is not activated is deleted, and
\* with no activation at all the root as well.
Activated(act) == {e \in Entry : e[1] \in DOMAIN act /\ e[2] \in act[e[1]]}
Processed(act) == Activated(act) \cup {Root(k) : k \in {k \in DOMAIN act : act[k] # {}}}

\* MCPD_MSG_IGMP_SNOOP_ENTRY, to add: the reporter joins the key.
br_igmp_mc_fdb_add(k, r) ==
  /\ mcpd = "idle"
  /\ \/ /\ \E e \in fdb : e[1] = k
        /\ br_mc_fdb_update(k, r)
     \/ /\ \A e \in fdb : e[1] # k
        /\ \E rules \in SUBSET (0 .. MaxCopies) :
             LET new == Processed([x \in {k} |-> rules])
             IN  /\ rules # {}
                 /\ fdb' = fdb \cup new
                 /\ tstamp' = [p \in DOMAIN tstamp \cup (new \X {r}) |->
                                 IF p[1] \in new THEN Membership ELSE tstamp[p]]
                 /\ flows' = flows \cup Activated([x \in {k} |-> rules])
        /\ UNCHANGED <<slotVars, modeVars, allocFailed>>
        /\ br_igmp_set_timer
  /\ UNCHANGED <<firing, mcpd, event>>

\* MCPD_MSG_IGMP_SNOOP_ENTRY, to clear: the reporter leaves the key.
br_igmp_mc_fdb_remove(k, r) ==
  /\ mcpd = "idle"
  /\ LET E == {e \in fdb : e[1] = k} IN br_igmp_mc_fdb_del_entry(E, E \X {r})
  /\ UNCHANGED <<slotVars, modeVars, firing, mcpd, event, allocFailed>>
  /\ br_igmp_set_timer

\* MCPD_MSG_IGMP_PURGE_REPORTER: the reporter has moved from a port.
br_igmp_wipe_reporter_for_port(r, d) ==
  /\ mcpd = "idle"
  /\ LET E == {e \in fdb : DstDev[e[1]] = d /\ <<e, r>> \in DOMAIN tstamp}
     IN  br_igmp_mc_fdb_del_entry(E, E \X {r})
  /\ UNCHANGED <<slotVars, modeVars, firing, mcpd, event, allocFailed>>
  /\ br_igmp_set_timer

OnDevice(d) == {e \in fdb : d \in {DstDev[e[1]], FromDev[e[1]]}}

\* MCPD_MSG_IF_CHANGE for a device; for the bridge every entry goes, and the
\* slots are cleared afterwards.
br_igmp_process_if_change(d) ==
  /\ mcpd = "idle"
  /\ LET E == IF d = Bridge THEN fdb ELSE OnDevice(d)
     IN  br_igmp_mc_fdb_del_entry(E, AllReporters(E))
  /\ UNCHANGED <<slotVars, modeVars, firing, event, allocFailed>>
  /\ br_igmp_set_timer
  /\ mcpd' = IF d = Bridge THEN "wipe" ELSE "idle"

\* MCPD_MSG_MC_FDB_CLEANUP, which does nothing with snooping off.
br_igmp_mc_fdb_cleanup ==
  /\ mcpd = "idle" /\ igmp_snooping
  /\ br_igmp_mc_fdb_del_entry(fdb, AllReporters(fdb))
  /\ UNCHANGED <<slotVars, modeVars, firing, event, allocFailed>>
  /\ br_igmp_set_timer
  /\ mcpd' = "wipe"

\* A device goes down, changes or leaves the bridge: its entries are flushed.
FlushDevice(d) ==
  /\ event = NULL
  /\ br_igmp_mc_fdb_del_entry(OnDevice(d), AllReporters(OnDevice(d)))
  /\ UNCHANGED <<slotVars, modeVars, firing, mcpd, allocFailed>>
  /\ br_igmp_set_timer
  /\ event' = d

\* The VLAN rules of a device change: its copies are deleted, the blogs of
\* its root entries released and the rules processed anew.
br_mcast_vlan_notify_for_blog_update(d) ==
  /\ event = NULL
  /\ LET roots == {e[1] : e \in {e \in OnDevice(d) : e[2] = 0}}
     IN  \E act \in [roots -> SUBSET (0 .. MaxCopies)] :
           LET now  == Processed(act)
               kept == {p \in DOMAIN tstamp : p[1] \notin OnDevice(d)}
               \* a copy takes over the reporters of its root
               set  == {p \in now \X Reporter : <<Root(p[1][1]), p[2]>> \in DOMAIN tstamp}
           IN  /\ fdb' = (fdb \ OnDevice(d)) \cup now
               /\ tstamp' = [p \in kept \cup set |->
                               IF p \in kept THEN tstamp[p] ELSE tstamp[<<Root(p[1][1]), p[2]>>]]
               /\ flows' = (flows \ OnDevice(d)) \cup Activated(act)
  /\ UNCHANGED <<slotVars, modeVars, firing, mcpd, allocFailed>>
  /\ br_igmp_set_timer
  /\ event' = d

-----------------------------------------------------------------------------
(* Packets that wait for admission.                                        *)

\* An IGMP packet from a LAN port: mcpd is asked, the question may be lost,
\* and the packet goes to the first free slot, if there is one.
br_igmp_mc_forward(s, d) ==
  /\ mcpdControlsIgmpAdmission
  /\ owner[s] = "free"
  /\ \/ /\ Cardinality(asked) < MaxAsked
        /\ asked' = asked \cup {<<s, 0>>}
     \/ UNCHANGED asked
  /\ LET free == Slot \ DOMAIN igmp_delayed_skb
     IN  \/ /\ free # {}
            /\ igmp_delayed_skb' = [i \in DOMAIN igmp_delayed_skb \cup {Min(free)} |->
                                      IF i = Min(free)
                                        THEN [skb |-> s, dev |-> d, left |-> SkbTimeout]
                                        ELSE igmp_delayed_skb[i]]
            /\ owner' = [owner EXCEPT ![s] = "held"]
            /\ UNCHANGED <<tableVars, modeVars>>
            /\ br_igmp_set_timer
         \/ /\ free = {}
            /\ owner' = [owner EXCEPT ![s] = "lost"]
            /\ UNCHANGED <<igmp_delayed_skb, tableVars, modeVars, timerVars>>
  /\ UNCHANGED <<firing, mcpd, event, allocFailed>>

\* The answer of mcpd, yes or no: the packet at that address leaves its slot.
br_igmp_process_admission(q) ==
  /\ mcpd = "idle" /\ q \in asked
  /\ FreeSlots({i \in DOMAIN igmp_delayed_skb : igmp_delayed_skb[i].skb = q[1]}, asked \ {q})
  /\ UNCHANGED <<tableVars, timerVars, modeVars, firing, mcpd, event, allocFailed>>

\* MCPD_MSG_CONTROLS_ADMISSION with a new value; the slots are cleared after.
mcpd_nl_process_set_admission_control ==
  /\ mcpd = "idle"
  /\ mcpdControlsIgmpAdmission' = ~mcpdControlsIgmpAdmission
  /\ mcpd' = "wipe"
  /\ UNCHANGED <<tableVars, slotVars, timerVars, igmp_snooping, firing, event, allocFailed>>

\* Mutant of br_igmp_wipe_pending_skbs: the last slot is left out.
MutLastSlotKept ==
  /\ mcpd = "wipe"
  /\ FreeSlots(DOMAIN igmp_delayed_skb \ {MCPD_MAX_DELAYED_SKB_COUNT}, asked)
  /\ mcpd' = "idle"
  /\ UNCHANGED <<tableVars, timerVars, modeVars, firing, event, allocFailed>>

\* Also br_igmp_process_device_removal of the bridge by a netlink handler.
br_igmp_wipe_pending_skbs ==
  /\ mcpd = "wipe"
  /\ FreeSlots(DOMAIN igmp_delayed_skb, asked)
  /\ mcpd' = "idle"
  /\ UNCHANGED <<tableVars, timerVars, modeVars, firing, event, allocFailed>>

\* The second part of a device event.
br_igmp_process_device_removal ==
  /\ event # NULL
  /\ FreeSlots({i \in DOMAIN igmp_delayed_skb : event \in {Bridge, igmp_delayed_skb[i].dev}},
               asked)
  /\ event' = NULL
  /\ UNCHANGED <<tableVars, timerVars, modeVars, firing, mcpd, allocFailed>>

\* BRCTL_ENABLE_SNOOPING or sysfs: a plain assignment.
set_igmp_snooping ==
  /\ igmp_snooping' = ~igmp_snooping
  /\ synced' = (synced /\ igmp_snooping)
  /\ UNCHANGED <<tableVars, slotVars, igmp_timer, mcpdControlsIgmpAdmission, firing, mcpd,
                 event, allocFailed>>

-----------------------------------------------------------------------------
Next ==
  \/ Tick \/ TimerExpires \/ br_igmp_timeout
  \/ \E k \in Key, r \in Reporter : br_igmp_mc_fdb_add(k, r) \/ br_igmp_mc_fdb_remove(k, r)
  \/ \E r \in Reporter, d \in Port : br_igmp_wipe_reporter_for_port(r, d)
  \/ \E d \in Device : \/ br_igmp_process_if_change(d)
                       \/ FlushDevice(d)
                       \/ br_mcast_vlan_notify_for_blog_update(d)
  \/ br_igmp_mc_fdb_cleanup
  \/ \E s \in Skb, d \in Port : br_igmp_mc_forward(s, d)
  \/ \E q \in asked : br_igmp_process_admission(q)
  \/ mcpd_nl_process_set_admission_control \/ br_igmp_wipe_pending_skbs
  \/ br_igmp_process_device_removal
  \/ set_igmp_snooping

Spec == Init /\ [][Next]_vars

\* Time passes, and a timer that is due is run by the timer interrupt.
FairSpec ==
  Spec /\ WF_vars(Tick) /\ WF_vars(TimerExpires) /\ WF_vars(br_igmp_timeout)

-----------------------------------------------------------------------------
(* Properties.                                                             *)

\* An entry is in the table exactly while it has a reporter, and an
\* activated blog always belongs to an entry: no path of removal, timeout,
\* flush or failed rule leaves an empty entry, or a flow in the accelerator
\* that nobody can release.
FlowsOfEntries ==
  /\ fdb = {p[1] : p \in DOMAIN tstamp}
  /\ flows \subseteq fdb
  /\ \A e \in fdb : e[2] # 0 => e \in flows

\* The root entry of a key and its copies have the same reporters with the
\* same time left, and one of them has a blog: so they go together, and a
\* change of VLAN rules, which deletes the copies, can make them again from
\* the root.  The one exception is a reporter that could not be allocated.
RootBehindCopies ==
  allocFailed \/
    \A e \in fdb : /\ Root(e[1]) \in fdb
                   /\ \E f \in flows : f[1] = e[1]
                   /\ \A r \in Reporter :
                        LET p == <<e, r>>  q == <<Root(e[1]), r>>
                        IN  /\ p \in DOMAIN tstamp <=> q \in DOMAIN tstamp
                            /\ p \in DOMAIN tstamp => tstamp[p] = tstamp[q]

\* The timer is set for no later than TIMER_CHECK_TIMEOUT after the first
\* deadline, or its handler is about to run, although some operations clear
\* slots without setting it and others set it while it fires.  Reporters
\* count while snooping is on and the timer was set since it was switched on.
TimerCovers ==
  LET Covers(t) == igmp_timer # Off /\ igmp_timer <= t + Check
  IN  firing \/ /\ \A i \in DOMAIN igmp_delayed_skb : Covers(igmp_delayed_skb[i].left)
                /\ igmp_snooping /\ synced => \A p \in DOMAIN tstamp : Covers(tstamp[p])

\* A packet that is held is in exactly one slot and a slot holds a packet
\* that was not freed, whichever of the answer, the timeout, the device
\* event and the change of admission control comes first.
PendingOwned ==
  /\ \A i, j \in DOMAIN igmp_delayed_skb :
       igmp_delayed_skb[i].skb = igmp_delayed_skb[j].skb => i = j
  /\ {s \in Skb : owner[s] = "held"} =
       {igmp_delayed_skb[i].skb : i \in DOMAIN igmp_delayed_skb}

\* Once mcpd has given up admission control no packet waits for its answer,
\* although packets keep arriving while the slots are being cleared.
NoPendingWithoutControl ==
  ~mcpdControlsIgmpAdmission /\ mcpd = "idle" => DOMAIN igmp_delayed_skb = {}

\* Every slot in use becomes free again, even if mcpd never answers.
PendingLeaves ==
  \A i \in Slot : i \in DOMAIN igmp_delayed_skb ~> i \notin DOMAIN igmp_delayed_skb

\* A reporter that is not heard of again leaves the table, unless snooping
\* is switched off or was switched on without the timer being set since.
MembershipExpires ==
  \A p \in Entry \X Reporter :
    (p \in DOMAIN tstamp)
      ~> \/ p \notin DOMAIN tstamp \/ tstamp[p] = Membership
         \/ ~igmp_snooping \/ ~synced

\* "Did not find that skb, may have timed out": an answer about a packet
\* that has left its slot, by a timeout or otherwise, leaves every packet that
\* waits alone, one that was allocated at the same address since included,
\* whether or not mcpd was asked about that one as well.
LateAnswerIgnored ==
  [][\A q \in asked : q[2] > 0 /\ br_igmp_process_admission(q)
       => igmp_delayed_skb' = igmp_delayed_skb]_vars
============================================================================

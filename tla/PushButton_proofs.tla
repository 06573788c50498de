-------------------------- MODULE PushButton_proofs --------------------------
(***************************************************************************)
(* Proofs about PushButton, for any hooks, any timeouts and arrays of any  *)
(* size.                                                                   *)
(***************************************************************************)
EXTENDS PushButton, SequenceTheorems, Extrema_proofs

-----------------------------------------------------------------------------
(* The arrays of hooks as sequences.                                       *)

LEMMA ArraysAreSeqs ==
  \A a : a \in Arrays <=> a \in Seq(Entries) /\ Len(a) <= MAX_BTN_HOOKS_PER_TRIG
<1> TAKE a
<1>1. Seq(Entries) = UNION {[1 .. n -> Entries] : n \in Nat}
  BY SeqDef
<1>2. ASSUME a \in Arrays PROVE a \in Seq(Entries) /\ Len(a) <= MAX_BTN_HOOKS_PER_TRIG
  <2>1. PICK n \in 0 .. MAX_BTN_HOOKS_PER_TRIG : a \in [1 .. n -> Entries]
    BY <1>2 DEF Arrays
  <2>2. a \in Seq(Entries)
    BY <1>1, <2>1, PushButtonAssumption
  <2>3. Len(a) = n
    BY <2>1, <2>2, LenProperties, PushButtonAssumption
  <2> QED  BY <2>1, <2>2, <2>3
<1>3. ASSUME a \in Seq(Entries), Len(a) <= MAX_BTN_HOOKS_PER_TRIG PROVE a \in Arrays
  <2>1. Len(a) \in 0 .. MAX_BTN_HOOKS_PER_TRIG /\ a \in [1 .. Len(a) -> Entries]
    BY <1>3, LenProperties, PushButtonAssumption
  <2> QED  BY <2>1 DEF Arrays
<1> QED  BY <1>2, <1>3

LEMMA EntryTimeout == \A e \in Entries : e.timeout \in Nat
BY PushButtonAssumption DEF Entries, Times

LEMMA EntryTimeouts ==
  ASSUME NEW a \in Seq(Entries)
  PROVE  \A k \in 1 .. Len(a) : a[k].timeout \in Nat
BY EntryTimeout, ElementOfSeq

\* What InsertAt and RemoveAt make of a sequence, entry by entry.
LEMMA InsertAtEntries ==
  ASSUME NEW S, NEW s \in Seq(S), NEW i \in 1 .. (Len(s) + 1), NEW e \in S
  PROVE  /\ InsertAt(s, i, e) \in Seq(S)
         /\ Len(InsertAt(s, i, e)) = Len(s) + 1
         /\ \A k \in 1 .. (Len(s) + 1) :
              InsertAt(s, i, e)[k] = IF k < i THEN s[k] ELSE IF k = i THEN e ELSE s[k - 1]
<1> DEFINE p == SubSeq(s, 1, i - 1)
           q == SubSeq(s, i, Len(s))
<1>0. Len(s) \in Nat /\ \A k \in 1 .. Len(s) : s[k] \in S
  BY ElementOfSeq, LenProperties
<1>1. p \in Seq(S) /\ Len(p) = i - 1 /\ \A k \in 1 .. (i - 1) : p[k] = s[k]
  BY <1>0, SubSeqProperties
<1>2. q \in Seq(S) /\ Len(q) = Len(s) - i + 1
      /\ \A k \in 1 .. (Len(s) - i + 1) : q[k] = s[i + k - 1]
  BY <1>0, SubSeqProperties
<1>3. <<e>> \in Seq(S) /\ Len(<<e>>) = 1 /\ <<e>>[1] = e
  OBVIOUS
<1> DEFINE m == p \o <<e>>
           x == <<e>>
<1> HIDE DEF p, q, x
<1>4. m \in Seq(S) /\ Len(m) = i /\ \A k \in 1 .. i : m[k] = IF k <= i - 1 THEN p[k] ELSE e
  BY <1>0, <1>1, <1>3, ConcatProperties DEF x
<1> HIDE DEF m
<1>5. m \o q \in Seq(S) /\ Len(m \o q) = Len(s) + 1
      /\ \A k \in 1 .. (Len(s) + 1) : (m \o q)[k] = IF k <= i THEN m[k] ELSE q[k - i]
  BY <1>0, <1>2, <1>4, ConcatProperties
<1>6. InsertAt(s, i, e) = m \o q
  BY DEF InsertAt, m, p, q, x
<1> QED  BY <1>0, <1>1, <1>2, <1>4, <1>5, <1>6

LEMMA RemoveAtEntries ==
  ASSUME NEW S, NEW s \in Seq(S), NEW i \in 1 .. Len(s)
  PROVE  /\ RemoveAt(s, i) \in Seq(S)
         /\ Len(RemoveAt(s, i)) = Len(s) - 1
         /\ \A k \in 1 .. (Len(s) - 1) :
              RemoveAt(s, i)[k] = IF k < i THEN s[k] ELSE s[k + 1]
<1> DEFINE p == SubSeq(s, 1, i - 1)
           q == SubSeq(s, i + 1, Len(s))
<1>0. Len(s) \in Nat /\ \A k \in 1 .. Len(s) : s[k] \in S
  BY ElementOfSeq, LenProperties
<1>1. p \in Seq(S) /\ Len(p) = i - 1 /\ \A k \in 1 .. (i - 1) : p[k] = s[k]
  BY <1>0, SubSeqProperties
<1>2. q \in Seq(S) /\ Len(q) = Len(s) - i
      /\ \A k \in 1 .. (Len(s) - i) : q[k] = s[i + k]
  BY <1>0, SubSeqProperties
<1> HIDE DEF p, q
<1>3. /\ p \o q \in Seq(S) /\ Len(p \o q) = Len(p) + Len(q)
      /\ \A k \in 1 .. (Len(p) + Len(q)) :
           (p \o q)[k] = IF k <= Len(p) THEN p[k] ELSE q[k - Len(p)]
  BY <1>1, <1>2, ConcatProperties
<1>4. RemoveAt(s, i) = p \o q
  BY DEF RemoveAt, p, q
<1>5. Len(p) + Len(q) = Len(s) - 1
  BY <1>0, <1>1, <1>2
<1>6. ASSUME NEW k \in 1 .. (Len(s) - 1), k < i PROVE (p \o q)[k] = s[k]
  BY <1>0, <1>1, <1>3, <1>5, <1>6
<1>7. ASSUME NEW k \in 1 .. (Len(s) - 1), ~(k < i) PROVE (p \o q)[k] = s[k + 1]
  <2>1. k - Len(p) \in 1 .. (Len(s) - i) /\ i + (k - Len(p)) = k + 1
    BY <1>0, <1>1, <1>7
  <2>2. (p \o q)[k] = q[k - Len(p)]
    BY <1>0, <1>1, <1>3, <1>5, <1>7
  <2> QED  BY <1>2, <2>1, <2>2
<1> QED  BY <1>3, <1>4, <1>5, <1>6, <1>7

\* The first entry after the b-th whose timeout is greater than t, or the end:
\* where the loops of insertToOrderedArray and of doPushButtonHold stop.
LEMMA FirstAbove ==
  ASSUME NEW a \in Seq(Entries), NEW t \in Int, NEW b \in 0 .. Len(a)
  PROVE  \E i \in (b + 1) .. (Len(a) + 1) :
            /\ \A j \in (b + 1) .. (i - 1) : a[j].timeout <= t
            /\ i <= Len(a) => a[i].timeout > t
<1> DEFINE T == {i \in (b + 1) .. (Len(a) + 1) : i <= Len(a) => a[i].timeout > t}
<1>1. Len(a) \in Nat /\ \A k \in 1 .. Len(a) : a[k].timeout \in Nat
  BY LenProperties, EntryTimeouts
<1>2. T \in SUBSET Nat /\ Len(a) + 1 \in T
  BY <1>1
<1>3. PICK m \in T : \A k \in T : m <= k
  BY <1>2, LeastElement
<1>4. \A j \in (b + 1) .. (m - 1) : a[j].timeout <= t
  BY <1>1, <1>2, <1>3
<1> QED  BY <1>3, <1>4

LEMMA InsertIdxDef ==
  ASSUME NEW a \in Seq(Entries), NEW t \in Int
  PROVE  /\ InsertIdx(a, t) \in 1 .. (Len(a) + 1)
         /\ \A j \in 1 .. (InsertIdx(a, t) - 1) : a[j].timeout <= t
         /\ InsertIdx(a, t) <= Len(a) => a[InsertIdx(a, t)].timeout > t
<1>1. 0 \in 0 .. Len(a)
  BY LenProperties
<1>2. \E i \in (0 + 1) .. (Len(a) + 1) :
            /\ \A j \in (0 + 1) .. (i - 1) : a[j].timeout <= t
            /\ i <= Len(a) => a[i].timeout > t
  BY <1>1, FirstAbove
<1>3. \E i \in 1 .. (Len(a) + 1) :
            /\ \A j \in 1 .. (i - 1) : a[j].timeout <= t
            /\ i <= Len(a) => a[i].timeout > t
  BY <1>2
<1> QED  BY <1>3, Zenon DEF InsertIdx

LEMMA DeleteIdxDef ==
  ASSUME NEW a \in Seq(Entries), NEW e
  PROVE  DeleteIdx(a, e) = -1 \/ DeleteIdx(a, e) \in 0 .. (Len(a) - 1)
<1> DEFINE T == {i \in DOMAIN a : a[i] = e}
<1>1. Len(a) \in Nat /\ DOMAIN a = 1 .. Len(a)
  BY LenProperties
<1>2. CASE T = {}
  BY <1>2 DEF DeleteIdx
<1>3. CASE T # {}
  <2>1. T \in SUBSET Nat
    BY <1>1
  <2>2. PICK m \in T : \A k \in T : m <= k
    BY <1>3, <2>1, LeastElement
  <2>3. m \in DOMAIN a /\ a[m] = e /\ \A j \in 1 .. (m - 1) : a[j] # e
    BY <1>1, <2>2
  <2> DEFINE c == CHOOSE i \in DOMAIN a : a[i] = e /\ \A j \in 1 .. (i - 1) : a[j] # e
  <2>4. c \in DOMAIN a
    BY <2>3, Zenon
  <2>5. DeleteIdx(a, e) = c - 1
    BY <2>3, Zenon DEF DeleteIdx
  <2> HIDE DEF c
  <2> QED  BY <1>1, <2>4, <2>5
<1> QED  BY <1>2, <1>3

\* Registering keeps an array an array and in order, the full one included.
LEMMA InsertOrdered ==
  ASSUME NEW a \in Arrays, NEW e \in Entries
  PROVE  /\ insertToOrderedArray(a, e) \in Arrays
         /\ Ordered(a) => Ordered(insertToOrderedArray(a, e))
<1>1. a \in Seq(Entries) /\ Len(a) \in Nat /\ Len(a) <= MAX_BTN_HOOKS_PER_TRIG
  BY ArraysAreSeqs, LenProperties
<1>2. CASE Len(a) < MAX_BTN_HOOKS_PER_TRIG
  <2> DEFINE i == InsertIdx(a, e.timeout)
             r == InsertAt(a, i, e)
  <2>0. e.timeout \in Nat /\ \A k \in 1 .. Len(a) : a[k].timeout \in Nat
    BY <1>1, EntryTimeout, EntryTimeouts
  <2>a. e.timeout \in Int
    BY <2>0
  <2>1. /\ i \in 1 .. (Len(a) + 1)
        /\ \A j \in 1 .. (i - 1) : a[j].timeout <= e.timeout
        /\ i <= Len(a) => a[i].timeout > e.timeout
    BY <1>1, <2>a, InsertIdxDef, Zenon
  <2> HIDE DEF i
  <2>2. /\ r \in Seq(Entries) /\ Len(r) = Len(a) + 1
        /\ \A k \in 1 .. (Len(a) + 1) :
              r[k] = IF k < i THEN a[k] ELSE IF k = i THEN e ELSE a[k - 1]
    BY <1>1, <2>1, InsertAtEntries
  <2>3. insertToOrderedArray(a, e) = r
    BY <1>2 DEF insertToOrderedArray, i
  <2> HIDE DEF r
  <2>4. r \in Arrays
    BY <1>1, <1>2, <2>2, ArraysAreSeqs, PushButtonAssumption
  <2>5. ASSUME Ordered(a) PROVE Ordered(r)
    <3>1. DOMAIN r = 1 .. (Len(a) + 1) /\ DOMAIN a = 1 .. Len(a)
      BY <1>1, <2>2, LenProperties
    <3>2. SUFFICES ASSUME NEW k \in 1 .. (Len(a) + 1), NEW l \in 1 .. (Len(a) + 1), k < l
                   PROVE  r[k].timeout <= r[l].timeout
      BY <3>1 DEF Ordered
    <3>3. \A x, y \in 1 .. Len(a) : x < y => a[x].timeout <= a[y].timeout
      BY <2>5, <3>1 DEF Ordered
    <3>4. CASE l < i
      BY <1>1, <2>0, <2>1, <2>2, <3>2, <3>3, <3>4
    <3>5. CASE l = i
      BY <1>1, <2>0, <2>1, <2>2, <3>2, <3>3, <3>5
    <3>6. CASE l > i
      <4>1. l - 1 \in 1 .. Len(a) /\ r[l] = a[l - 1] /\ a[l - 1].timeout \in Nat
        BY <1>1, <2>0, <2>1, <2>2, <3>6
      <4>2. CASE k < i
        <5>1. k \in 1 .. Len(a) /\ k < l - 1 /\ r[k] = a[k]
          BY <1>1, <2>1, <2>2, <3>6, <4>2
        <5> QED  BY <3>3, <4>1, <5>1
      <4>3. CASE k = i
        <5>1. i <= Len(a) /\ a[i].timeout > e.timeout /\ r[k] = e
          BY <1>1, <2>1, <2>2, <3>6, <4>3
        <5>2. a[i].timeout <= a[l - 1].timeout
          BY <1>1, <2>0, <2>1, <3>3, <3>6, <4>1, <5>1
        <5> QED  BY <2>0, <2>1, <4>1, <5>1, <5>2
      <4>4. CASE k > i
        <5>1. k - 1 \in 1 .. Len(a) /\ r[k] = a[k - 1]
          BY <1>1, <2>1, <2>2, <3>6, <4>4
        <5> QED  BY <3>2, <3>3, <4>1, <5>1
      <4> QED  BY <2>1, <4>2, <4>3, <4>4
    <3> QED  BY <2>1, <3>4, <3>5, <3>6
  <2> QED  BY <2>3, <2>4, <2>5
<1>3. CASE ~(Len(a) < MAX_BTN_HOOKS_PER_TRIG)
  BY <1>3 DEF insertToOrderedArray
<1> QED  BY <1>2, <1>3

LEMMA DeleteOrdered ==
  ASSUME NEW a \in Arrays, NEW e \in Entries
  PROVE  /\ deleteFromOrderedArray(a, e) \in Arrays
         /\ Ordered(a) => Ordered(deleteFromOrderedArray(a, e))
<1>1. a \in Seq(Entries) /\ Len(a) \in Nat /\ Len(a) <= MAX_BTN_HOOKS_PER_TRIG
  BY ArraysAreSeqs, LenProperties
<1> DEFINE d == DeleteIdx(a, e)
<1>2. d = -1 \/ d \in 0 .. (Len(a) - 1)
  BY <1>1, DeleteIdxDef
<1> HIDE DEF d
<1>3. CASE d >= 0
  <2> DEFINE r == RemoveAt(a, d + 1)
  <2>0. d + 1 \in 1 .. Len(a)
    BY <1>1, <1>2, <1>3
  <2>1. /\ r \in Seq(Entries) /\ Len(r) = Len(a) - 1
        /\ \A k \in 1 .. (Len(a) - 1) : r[k] = IF k < d + 1 THEN a[k] ELSE a[k + 1]
    BY <1>1, <2>0, RemoveAtEntries
  <2>2. deleteFromOrderedArray(a, e) = r
    BY <1>3 DEF deleteFromOrderedArray, d
  <2> HIDE DEF r
  <2>3. r \in Arrays
    BY <1>1, <2>1, ArraysAreSeqs, PushButtonAssumption
  <2>4. ASSUME Ordered(a) PROVE Ordered(r)
    <3>1. DOMAIN r = 1 .. (Len(a) - 1) /\ DOMAIN a = 1 .. Len(a)
      BY <1>1, <2>1, LenProperties
    <3>2. SUFFICES ASSUME NEW k \in 1 .. (Len(a) - 1), NEW l \in 1 .. (Len(a) - 1), k < l
                   PROVE  r[k].timeout <= r[l].timeout
      BY <3>1 DEF Ordered
    <3>3. \A x, y \in 1 .. Len(a) : x < y => a[x].timeout <= a[y].timeout
      BY <2>4, <3>1 DEF Ordered
    <3> DEFINE x == IF k < d + 1 THEN k ELSE k + 1
               y == IF l < d + 1 THEN l ELSE l + 1
    <3>4. x \in 1 .. Len(a) /\ y \in 1 .. Len(a) /\ x < y
      BY <1>1, <2>0, <3>2
    <3>5. r[k] = a[x] /\ r[l] = a[y]
      BY <2>1
    <3> HIDE DEF x, y
    <3> QED  BY <3>3, <3>4, <3>5
  <2> QED  BY <2>2, <2>3, <2>4
<1>4. CASE ~(d >= 0)
  BY <1>4 DEF deleteFromOrderedArray, d
<1> QED  BY <1>3, <1>4

-----------------------------------------------------------------------------
(* The arrays stay in order.                                               *)

ArraysInv ==
  /\ btnPressedInfo \in Arrays /\ btnHeldInfo \in Arrays /\ btnReleasedInfo \in Arrays
  /\ OrderedByTimeout

LEMMA InitArrays == Init => ArraysInv
<1> SUFFICES ASSUME Init PROVE ArraysInv
  OBVIOUS
<1>1. <<>> \in Seq(Entries) /\ Len(<<>>) = 0
  OBVIOUS
<1>2. ASSUME NEW a \in Seq(Entries), Len(a) = 0 PROVE a \in Arrays
  <2>1. Len(a) <= MAX_BTN_HOOKS_PER_TRIG
    BY <1>2, PushButtonAssumption
  <2> QED  BY <2>1, ArraysAreSeqs, Zenon
<1>3. ASSUME NEW a \in Seq(Entries), Len(a) = 0 PROVE Ordered(a)
  BY <1>3, LenProperties DEF Ordered
<1>4. <<>> \in Arrays /\ Ordered(<<>>)
  BY <1>1, <1>2, <1>3
<1> QED  BY <1>4 DEF Init, ArraysInv, OrderedByTimeout

LEMMA NextArrays == ArraysInv /\ [Next]_vars => ArraysInv'
<1> SUFFICES ASSUME ArraysInv, [Next]_vars PROVE ArraysInv'
  OBVIOUS
<1> USE DEF ArraysInv, OrderedByTimeout
<1>1. ASSUME NEW h \in Hooks, registerPushButtonPressNotifyHook(h)
                              \/ deregisterPushButtonPressNotifyHook(h)
      PROVE  ArraysInv'
  <2>1. [hook |-> h, timeout |-> 0] \in Entries
    BY PushButtonAssumption DEF Entries, Times
  <2> QED
    BY <1>1, <2>1, InsertOrdered, DeleteOrdered
       DEF registerPushButtonPressNotifyHook, deregisterPushButtonPressNotifyHook
<1>2. ASSUME NEW e \in Entries, registerPushButtonHoldNotifyHook(e)
                                \/ deregisterPushButtonHoldNotifyHook(e)
      PROVE  ArraysInv'
  BY <1>2, InsertOrdered, DeleteOrdered
     DEF registerPushButtonHoldNotifyHook, deregisterPushButtonHoldNotifyHook
<1>3. ASSUME NEW e \in Entries, registerPushButtonReleaseNotifyHook(e)
                                \/ deregisterPushButtonReleaseNotifyHook(e)
      PROVE  ArraysInv'
  BY <1>3, InsertOrdered, DeleteOrdered
     DEF registerPushButtonReleaseNotifyHook, deregisterPushButtonReleaseNotifyHook
<1>4. ASSUME UNCHANGED infoVars PROVE ArraysInv'
  BY <1>4 DEF infoVars
<1>5. CASE doPushButtonPress \/ CallHook \/ UNCHANGED vars
  BY <1>4, <1>5 DEF doPushButtonPress, CallHook, vars
<1>6. ASSUME NEW t \in Times, doPushButtonHold(t) \/ doPushButtonRelease(t) PROVE ArraysInv'
  BY <1>4, <1>6 DEF doPushButtonHold, doPushButtonRelease
<1> QED  BY <1>1, <1>2, <1>3, <1>5, <1>6 DEF Next

(***************************************************************************)
(* The hold and release hooks stay ordered by timeout, whatever is         *)
(* registered and deregistered and when, and also while the button is      *)
(* down: what the loops of doPushButtonHold and doPushButtonRelease rely   *)
(* on.                                                                     *)
(***************************************************************************)
THEOREM OrderedByTimeoutHolds == Spec => []OrderedByTimeout
<1>1. ArraysInv => OrderedByTimeout
  BY DEF ArraysInv
<1> QED  BY <1>1, InitArrays, NextArrays, PTL DEF Spec

-----------------------------------------------------------------------------
(* The index of the next hold hook.                                        *)

LEMMA NextHeldDef ==
  ASSUME ArraysInv, NEW t \in Times, btnHeldIdx \in 0 .. Len(btnHeldInfo)
  PROVE  /\ NextHeld(t) \in (btnHeldIdx + 1) .. (Len(btnHeldInfo) + 1)
         /\ \A j \in (btnHeldIdx + 1) .. (NextHeld(t) - 1) : btnHeldInfo[j].timeout <= t
         /\ NextHeld(t) <= Len(btnHeldInfo) => btnHeldInfo[NextHeld(t)].timeout > t
<1>1. btnHeldInfo \in Seq(Entries)
  BY ArraysAreSeqs DEF ArraysInv
<1>2. t \in Int
  BY PushButtonAssumption DEF Times
<1>3. \E i \in (btnHeldIdx + 1) .. (Len(btnHeldInfo) + 1) :
            /\ \A j \in (btnHeldIdx + 1) .. (i - 1) : btnHeldInfo[j].timeout <= t
            /\ i <= Len(btnHeldInfo) => btnHeldInfo[i].timeout > t
  BY <1>1, <1>2, FirstAbove
<1> QED  BY <1>3, Zenon DEF NextHeld

LEMMA NextHeldIdx ==
  ~HoldChangesWhileDown /\ ArraysInv /\ HeldIdxInRange /\ [Next]_vars => HeldIdxInRange'
<1> SUFFICES ASSUME ~HoldChangesWhileDown, ArraysInv, HeldIdxInRange, [Next]_vars
             PROVE  HeldIdxInRange'
  OBVIOUS
<1> USE DEF HeldIdxInRange
<1>1. ASSUME NEW h \in Hooks, registerPushButtonPressNotifyHook(h)
                              \/ deregisterPushButtonPressNotifyHook(h)
      PROVE  HeldIdxInRange'
  BY <1>1 DEF registerPushButtonPressNotifyHook, deregisterPushButtonPressNotifyHook
<1>2. ASSUME NEW e \in Entries, registerPushButtonHoldNotifyHook(e)
                                \/ deregisterPushButtonHoldNotifyHook(e)
      PROVE  HeldIdxInRange'
  <2>1. held = Up /\ held' = held
    BY <1>2 DEF registerPushButtonHoldNotifyHook, deregisterPushButtonHoldNotifyHook
  <2> QED  BY <2>1 DEF Up
<1>3. ASSUME NEW e \in Entries, registerPushButtonReleaseNotifyHook(e)
                                \/ deregisterPushButtonReleaseNotifyHook(e)
      PROVE  HeldIdxInRange'
  BY <1>3 DEF registerPushButtonReleaseNotifyHook, deregisterPushButtonReleaseNotifyHook
<1>4. CASE doPushButtonPress
  BY <1>4, PushButtonAssumption DEF doPushButtonPress
<1>5. CASE CallHook \/ UNCHANGED vars
  BY <1>5 DEF CallHook, vars
<1>6. ASSUME NEW t \in Times, doPushButtonHold(t) PROVE HeldIdxInRange'
  <2>1. Len(btnHeldInfo) \in 0 .. MAX_BTN_HOOKS_PER_TRIG
    BY ArraysAreSeqs, LenProperties, PushButtonAssumption DEF ArraysInv
  <2>2. btnHeldIdx \in 0 .. MAX_BTN_HOOKS_PER_TRIG
    BY <1>6 DEF doPushButtonHold
  <2>3. CASE btnHeldIdx < Len(btnHeldInfo)
    <3>1. btnHeldIdx \in 0 .. Len(btnHeldInfo)
      BY <2>1, <2>2, <2>3, PushButtonAssumption
    <3>2. NextHeld(t) \in (btnHeldIdx + 1) .. (Len(btnHeldInfo) + 1)
      BY <3>1, NextHeldDef
    <3>3. btnHeldIdx' = IF NextHeld(t) <= Len(btnHeldInfo) THEN NextHeld(t) - 1
                        ELSE MAX_BTN_HOOKS_PER_TRIG
      BY <1>6, <2>3 DEF doPushButtonHold
    <3> QED  BY <2>1, <2>2, <3>2, <3>3, PushButtonAssumption
  <2>4. CASE ~(btnHeldIdx < Len(btnHeldInfo))
    <3>1. btnHeldIdx' = MAX_BTN_HOOKS_PER_TRIG
      BY <1>6, <2>4 DEF doPushButtonHold
    <3> QED  BY <3>1, PushButtonAssumption
  <2> QED  BY <2>3, <2>4
<1>7. ASSUME NEW t \in Times, doPushButtonRelease(t) PROVE HeldIdxInRange'
  BY <1>7 DEF doPushButtonRelease
<1> QED  BY <1>1, <1>2, <1>3, <1>4, <1>5, <1>6, <1>7 DEF Next

(***************************************************************************)
(* While the button is down the index with which doPushButtonHold reads    *)
(* btnHeldInfo is an index of the array or its size, provided that no hold *)
(* hook is registered or deregistered between press and release: the       *)
(* index is neither reset nor bounded by doPushButtonHold itself, and      *)
(* deregistering can move it.                                              *)
(***************************************************************************)
THEOREM HeldIdxInRangeHolds == ~HoldChangesWhileDown /\ Spec => []HeldIdxInRange
<1> SUFFICES ASSUME ~HoldChangesWhileDown PROVE Spec => []HeldIdxInRange
  OBVIOUS
<1>1. Init => HeldIdxInRange
  BY DEF Init, HeldIdxInRange
<1>2. ArraysInv /\ HeldIdxInRange /\ [Next]_vars => HeldIdxInRange'
  BY NextHeldIdx
<1> QED  BY <1>1, <1>2, InitArrays, NextArrays, PTL DEF Spec

-----------------------------------------------------------------------------
(* The loop of doPushButtonRelease.                                        *)

\* The function g describes the loop's first n rounds over the array a.
IsRounds(g, a, t, n) ==
  g = [k \in 0 .. n |-> IF k = 0 THEN <<>> ELSE ChooseReleased(g[k - 1], a[k], t)]

\* The loop can be run for any number of rounds: its recursion is well defined.
LEMMA RoundsExist ==
  ASSUME NEW a, NEW t, NEW N \in Nat
  PROVE  \E g : IsRounds(g, a, t, N)
<1> DEFINE T == {n \in Nat : ~\E g : IsRounds(g, a, t, n)}
<1> SUFFICES ASSUME T # {} PROVE FALSE
  BY Zenon
<1>1. PICK m \in T : \A k \in T : m <= k
  BY LeastElement
<1>2. CASE m = 0
  <2> DEFINE g == [k \in 0 .. 0 |-> <<>>]
  <2>1. \A k \in 0 .. 0 : k = 0
    OBVIOUS
  <2>2. IsRounds(g, a, t, 0)
    BY <2>1 DEF IsRounds
  <2> QED  BY <1>2, <2>2, <1>1
<1>3. CASE m # 0
  <2>1. m - 1 \in Nat /\ m - 1 \notin T
    BY <1>1, <1>3
  <2>2. PICK g : IsRounds(g, a, t, m - 1)
    BY <2>1
  <2> DEFINE h == [k \in 0 .. m |-> IF k = m THEN ChooseReleased(g[m - 1], a[m], t) ELSE g[k]]
  <2>3. ASSUME NEW k \in 0 .. m
        PROVE  h[k] = IF k = 0 THEN <<>> ELSE ChooseReleased(h[k - 1], a[k], t)
    <3>1. CASE k = m
      <4>1. h[k] = ChooseReleased(g[m - 1], a[m], t) /\ h[m - 1] = g[m - 1]
        BY <2>1, <3>1
      <4> QED  BY <1>3, <3>1, <4>1
    <3>2. CASE k # m
      <4>1. k \in 0 .. (m - 1) /\ h[k] = g[k] /\ (k # 0 => h[k - 1] = g[k - 1])
        BY <2>1, <3>2
      <4>2. g[k] = IF k = 0 THEN <<>> ELSE ChooseReleased(g[k - 1], a[k], t)
        BY <2>2, <4>1 DEF IsRounds
      <4> QED  BY <4>1, <4>2
    <3> QED  BY <3>1, <3>2
  <2>4. DOMAIN h = 0 .. m /\ h = [k \in 0 .. m |-> h[k]]
    OBVIOUS
  <2> HIDE DEF h
  <2>5. IsRounds(h, a, t, m)
    BY <2>3, <2>4 DEF IsRounds
  <2> QED  BY <1>1, <2>5
<1> QED  BY <1>2, <1>3

\* The recursive definition of ReleasedRounds therefore is what it says.
LEMMA ReleasedRoundsDef ==
  ASSUME NEW a \in Seq(Entries), NEW t
  PROVE  /\ ReleasedRounds(a, t)[0] = <<>>
         /\ \A k \in 1 .. Len(a) :
              ReleasedRounds(a, t)[k] = ChooseReleased(ReleasedRounds(a, t)[k - 1], a[k], t)
<1>0. Len(a) \in Nat
  BY LenProperties
<1>1. \E g : IsRounds(g, a, t, Len(a))
  BY <1>0, RoundsExist
<1>2. ReleasedRounds(a, t) = CHOOSE g : IsRounds(g, a, t, Len(a))
  BY Zenon DEF ReleasedRounds, IsRounds
<1>3. IsRounds(ReleasedRounds(a, t), a, t, Len(a))
  BY <1>1, <1>2, Zenon
<1> DEFINE r == ReleasedRounds(a, t)
<1> HIDE DEF r
<1>4. r = [k \in 0 .. Len(a) |-> IF k = 0 THEN <<>> ELSE ChooseReleased(r[k - 1], a[k], t)]
  BY <1>3 DEF IsRounds, r
<1>5. r[0] = <<>> /\ \A k \in 1 .. Len(a) : r[k] = ChooseReleased(r[k - 1], a[k], t)
  BY <1>0, <1>4
<1> QED  BY <1>5 DEF r

\* Entries i to j of a are the ones to be called, as far as the first k go.
Latest(a, t, k, i, j) ==
  /\ i \in 1 .. k /\ j \in i .. k
  /\ a[i].timeout <= t
  /\ \A x \in 1 .. k : /\ x < i => a[x].timeout < a[i].timeout
                       /\ x \in i .. j => a[x].timeout = a[i].timeout
                       /\ x > j => a[x].timeout > t

\* What the loop has chosen after its k-th round.
RoundInv(a, t, k, chosen) ==
  \/ chosen = <<>> /\ \A x \in 1 .. k : a[x].timeout > t
  \/ \E i, j \in 1 .. k : Latest(a, t, k, i, j) /\ chosen = SubSeq(a, i, j)

\* One round of the loop over an ordered array.
LEMMA RoundStep ==
  ASSUME NEW a \in Seq(Entries), Ordered(a), NEW t \in Times, NEW k \in 0 .. (Len(a) - 1),
         NEW chosen, RoundInv(a, t, k, chosen)
  PROVE  RoundInv(a, t, k + 1, ChooseReleased(chosen, a[k + 1], t))
<1> DEFINE e == a[k + 1]
           next == ChooseReleased(chosen, e, t)
<1>0. /\ Len(a) \in Nat /\ DOMAIN a = 1 .. Len(a) /\ t \in Nat /\ k + 1 \in 1 .. Len(a)
      /\ \A x \in 1 .. Len(a) : a[x].timeout \in Nat /\ a[x] \in Entries
  BY LenProperties, EntryTimeouts, ElementOfSeq, PushButtonAssumption DEF Times
<1>1. \A x, y \in 1 .. Len(a) : x < y => a[x].timeout <= a[y].timeout
  BY <1>0 DEF Ordered
<1>2. SubSeq(a, k + 1, k + 1) = <<e>>
  <2>1. SubSeq(a, k + 1, k + 1) = <<a[k + 1]>> \o SubSeq(a, k + 2, k + 1)
    BY <1>0, SubSeqRecursiveFirst
  <2>2. SubSeq(a, k + 2, k + 1) = <<>>
    BY <1>0, SubSeqEmpty
  <2>3. <<e>> \in Seq(Entries)
    BY <1>0
  <2> QED  BY <2>1, <2>2, <2>3, ConcatEmptySeq
<1>3. CASE e.timeout > t
  <2>1. next = chosen
    BY <1>3 DEF ChooseReleased
  <2>2. CASE chosen = <<>> /\ \A x \in 1 .. k : a[x].timeout > t
    <3>1. \A x \in 1 .. (k + 1) : a[x].timeout > t
      BY <1>0, <1>3, <2>2
    <3> QED  BY <2>1, <2>2, <3>1 DEF RoundInv
  <2>3. CASE \E i, j \in 1 .. k : Latest(a, t, k, i, j) /\ chosen = SubSeq(a, i, j)
    <3>1. PICK i, j \in 1 .. k : Latest(a, t, k, i, j) /\ chosen = SubSeq(a, i, j)
      BY <2>3
    <3>2. Latest(a, t, k + 1, i, j)
      <4>1. i \in 1 .. (k + 1) /\ j \in i .. (k + 1) /\ a[i].timeout <= t
        BY <1>0, <3>1 DEF Latest
      <4>2. ASSUME NEW x \in 1 .. (k + 1)
            PROVE  /\ x < i => a[x].timeout < a[i].timeout
                   /\ x \in i .. j => a[x].timeout = a[i].timeout
                   /\ x > j => a[x].timeout > t
        <5>1. CASE x = k + 1
          BY <1>0, <1>3, <3>1, <5>1
        <5>2. CASE x \in 1 .. k
          BY <3>1, <5>2 DEF Latest
        <5> QED  BY <1>0, <5>1, <5>2
      <4> QED  BY <4>1, <4>2 DEF Latest
    <3>3. i \in 1 .. (k + 1) /\ j \in 1 .. (k + 1)
      BY <1>0, <3>1
    <3> QED  BY <2>1, <3>1, <3>2, <3>3 DEF RoundInv
  <2> QED  BY <2>2, <2>3 DEF RoundInv
<1>4. CASE ~(e.timeout > t)
  <2>0. e.timeout <= t
    BY <1>0, <1>4
  <2>1. CASE chosen = <<>> /\ \A x \in 1 .. k : a[x].timeout > t
    <3>1. k = 0
      BY <1>0, <1>1, <2>0, <2>1
    <3>2. next = <<e>>
      BY <1>4, <2>1 DEF ChooseReleased
    <3>3. Latest(a, t, k + 1, k + 1, k + 1)
      BY <1>0, <2>0, <3>1 DEF Latest
    <3>4. next = SubSeq(a, k + 1, k + 1)
      BY <1>2, <3>2, Zenon
    <3>5. k + 1 \in 1 .. (k + 1)
      BY <1>0
    <3> QED  BY <3>3, <3>4, <3>5, Zenon DEF RoundInv
  <2>2. CASE \E i, j \in 1 .. k : Latest(a, t, k, i, j) /\ chosen = SubSeq(a, i, j)
    <3>1. PICK i, j \in 1 .. k : Latest(a, t, k, i, j) /\ chosen = SubSeq(a, i, j)
      BY <2>2
    <3>2. j = k
      BY <1>0, <1>1, <2>0, <3>1 DEF Latest
    <3>3. \A x \in i .. j : a[x] \in Entries
      BY <1>0, <3>1
    <3>4. /\ chosen \in Seq(Entries) /\ Len(chosen) = j - i + 1
          /\ \A x \in 1 .. (j - i + 1) : chosen[x] = a[i + x - 1]
      BY <1>0, <3>1, <3>3, SubSeqProperties DEF Latest
    <3>5. chosen # <<>> /\ chosen[1] = a[i]
      BY <1>0, <3>1, <3>4 DEF Latest
    <3>6. a[i].timeout <= e.timeout /\ a[i].timeout \in Nat
      BY <1>0, <1>1, <3>1
    <3>7. CASE e.timeout = a[i].timeout
      <4>1. next = Append(chosen, e)
        BY <1>4, <3>5, <3>7 DEF ChooseReleased
      <4>2. SubSeq(a, i, k + 1) = SubSeq(a, i, k) \o <<e>>
        <5>1. i \in 1 .. Len(a) /\ k + 1 \in i .. Len(a) /\ k + 1 - 1 = k
          BY <1>0, <3>1
        <5> QED  BY <5>1, SubSeqRecursiveSecond
      <4>3. Append(chosen, e) = chosen \o <<e>>
        BY <1>0, <3>4, AppendIsConcat
      <4>4. Latest(a, t, k + 1, i, k + 1)
        BY <1>0, <2>0, <3>1, <3>2, <3>6, <3>7 DEF Latest
      <4>5. next = SubSeq(a, i, k + 1)
        BY <3>1, <3>2, <4>1, <4>2, <4>3, Zenon
      <4>6. i \in 1 .. (k + 1) /\ k + 1 \in 1 .. (k + 1)
        BY <1>0, <3>1
      <4> QED  BY <4>4, <4>5, <4>6 DEF RoundInv
    <3>8. CASE e.timeout # a[i].timeout
      <4>1. e.timeout > a[i].timeout
        BY <1>0, <3>6, <3>8
      <4>2. next = <<e>>
        BY <1>4, <3>5, <3>8, <4>1 DEF ChooseReleased
      <4>3. \A x \in 1 .. k : a[x].timeout < e.timeout
        BY <1>0, <3>1, <3>2, <3>6, <4>1 DEF Latest
      <4>4. Latest(a, t, k + 1, k + 1, k + 1)
        BY <1>0, <2>0, <4>3 DEF Latest
      <4>5. next = SubSeq(a, k + 1, k + 1)
        BY <1>2, <4>2, Zenon
      <4>6. k + 1 \in 1 .. (k + 1)
        BY <1>0
      <4> QED  BY <4>4, <4>5, <4>6, Zenon DEF RoundInv
    <3> QED  BY <3>7, <3>8
  <2> QED  BY <2>1, <2>2 DEF RoundInv
<1> QED  BY <1>3, <1>4

LEMMA AllRounds ==
  ASSUME NEW a \in Seq(Entries), Ordered(a), NEW t \in Times
  PROVE  \A k \in 0 .. Len(a) : RoundInv(a, t, k, ReleasedRounds(a, t)[k])
<1> DEFINE r == ReleasedRounds(a, t)
           T == {k \in 0 .. Len(a) : ~RoundInv(a, t, k, r[k])}
<1>0. Len(a) \in Nat
  BY LenProperties
<1>1. r[0] = <<>> /\ \A k \in 1 .. Len(a) : r[k] = ChooseReleased(r[k - 1], a[k], t)
  BY ReleasedRoundsDef
<1> HIDE DEF r
<1> SUFFICES ASSUME T # {} PROVE FALSE
  BY Zenon DEF r
<1>2. T \in SUBSET Nat
  BY <1>0
<1>3. PICK m \in T : \A k \in T : m <= k
  BY <1>2, LeastElement
<1>4. CASE m = 0
  <2>1. RoundInv(a, t, 0, r[0])
    BY <1>1 DEF RoundInv
  <2> QED  BY <1>3, <1>4, <2>1
<1>5. CASE m # 0
  <2> DEFINE n == m - 1
  <2>1. n \in 0 .. (Len(a) - 1) /\ n + 1 = m /\ n \in 0 .. Len(a) /\ n \notin T
    BY <1>0, <1>2, <1>3, <1>5
  <2>2. RoundInv(a, t, n, r[n])
    BY <2>1
  <2>3. r[m] = ChooseReleased(r[n], a[m], t)
    BY <1>0, <1>1, <1>3, <1>5
  <2> HIDE DEF n
  <2>4. RoundInv(a, t, n + 1, ChooseReleased(r[n], a[n + 1], t))
    BY <2>1, <2>2, RoundStep
  <2> QED  BY <1>3, <2>1, <2>3, <2>4
<1> QED  BY <1>4, <1>5

\* The loop over an ordered array chooses the most recent entries.
LEMMA RoundsMostRecent ==
  ASSUME NEW a \in Seq(Entries), Ordered(a), NEW t \in Times
  PROVE  \E i \in 1 .. (Len(a) + 1), j \in 0 .. Len(a) :
            /\ MostRecent(a, t) = i .. j
            /\ ReleasedRounds(a, t)[Len(a)] = SubSeq(a, i, j)
<1> DEFINE c == ReleasedRounds(a, t)[Len(a)]
<1>0. /\ Len(a) \in Nat /\ DOMAIN a = 1 .. Len(a) /\ t \in Nat
      /\ \A x \in 1 .. Len(a) : a[x].timeout \in Nat
  BY LenProperties, EntryTimeouts, PushButtonAssumption DEF Times
<1>1. RoundInv(a, t, Len(a), c)
  BY <1>0, AllRounds
<1> HIDE DEF c
<1>2. CASE c = <<>> /\ \A x \in 1 .. Len(a) : a[x].timeout > t
  <2>1. MostRecent(a, t) = 1 .. 0
    BY <1>0, <1>2 DEF MostRecent
  <2>2. SubSeq(a, 1, 0) = <<>>
    BY SubSeqEmpty
  <2>3. 1 \in 1 .. (Len(a) + 1) /\ 0 \in 0 .. Len(a)
    BY <1>0
  <2> QED  BY <1>2, <2>1, <2>2, <2>3 DEF c
<1>3. CASE \E i, j \in 1 .. Len(a) : Latest(a, t, Len(a), i, j) /\ c = SubSeq(a, i, j)
  <2>1. PICK i, j \in 1 .. Len(a) : Latest(a, t, Len(a), i, j) /\ c = SubSeq(a, i, j)
    BY <1>3
  <2>2. ASSUME NEW x \in MostRecent(a, t) PROVE x \in i .. j
    BY <1>0, <2>1 DEF MostRecent, Latest
  <2>3. ASSUME NEW x \in i .. j PROVE x \in MostRecent(a, t)
    <3>1. x \in 1 .. Len(a) /\ a[x].timeout = a[i].timeout /\ a[x].timeout <= t
      BY <1>0, <2>1 DEF Latest
    <3>2. ASSUME NEW y \in 1 .. Len(a), a[y].timeout <= t PROVE a[y].timeout <= a[x].timeout
      BY <1>0, <2>1, <3>1, <3>2 DEF Latest
    <3> QED  BY <1>0, <3>1, <3>2 DEF MostRecent
  <2>4. MostRecent(a, t) = i .. j
    BY <2>2, <2>3
  <2>5. i \in 1 .. (Len(a) + 1) /\ j \in 0 .. Len(a)
    BY <1>0, <2>1
  <2> QED  BY <2>1, <2>4, <2>5 DEF c
<1> QED  BY <1>1, <1>2, <1>3 DEF RoundInv

(***************************************************************************)
(* doPushButtonRelease calls the hooks with the greatest timeout that has  *)
(* come, all of them and no other, in the order of the array: the loop is  *)
(* right for arrays of any size, given the order that registering keeps.   *)
(***************************************************************************)
THEOREM MostRecentReleasedHolds == Spec => []MostRecentReleased
<1>1. ArraysInv => MostRecentReleased
  <2> SUFFICES ASSUME ArraysInv PROVE MostRecentReleased
    OBVIOUS
  <2>1. btnReleasedInfo \in Seq(Entries) /\ Ordered(btnReleasedInfo)
    BY ArraysAreSeqs DEF ArraysInv, OrderedByTimeout
  <2> QED  BY <2>1, RoundsMostRecent DEF MostRecentReleased, ReleasedCalls
<1> QED  BY <1>1, InitArrays, NextArrays, PTL DEF Spec

-----------------------------------------------------------------------------
(* Types.                                                                  *)

TypeInv ==
  /\ ArraysInv
  /\ btnHeldIdx \in Int
  /\ held \in Times \cup {Up}
  /\ callInfo \in Seq(Entries) /\ called \in Seq(Entries)

LEMMA InitTypes == Init => TypeInv
<1>1. <<>> \in Seq(Entries)
  BY EmptySeq
<1> QED  BY <1>1, InitArrays DEF Init, TypeInv

LEMMA HoldTypes ==
  ASSUME TypeInv, NEW t \in Times, doPushButtonHold(t)
  PROVE  callInfo' \in Seq(Entries) /\ called' \in Seq(Entries) /\ btnHeldIdx' \in Int
<1> USE DEF TypeInv
<1>1. btnHeldInfo \in Seq(Entries)
  BY ArraysAreSeqs DEF ArraysInv
<1>2. Len(btnHeldInfo) \in Nat /\ \A i \in 1 .. Len(btnHeldInfo) : btnHeldInfo[i] \in Entries
  BY <1>1, LenProperties, ElementOfSeq
<1>3. callInfo' \in Seq(Entries) /\ btnHeldIdx' \in Int
  <2>1. CASE btnHeldIdx < Len(btnHeldInfo)
    <3> DEFINE n == NextHeld(t)
    <3>1. btnHeldIdx \in 0 .. Len(btnHeldInfo)
      BY <1>2, <2>1 DEF doPushButtonHold
    <3>2. n \in (btnHeldIdx + 1) .. (Len(btnHeldInfo) + 1)
      BY <3>1, NextHeldDef
    <3>3. /\ callInfo' = SubSeq(btnHeldInfo, btnHeldIdx + 1, n - 1)
          /\ btnHeldIdx' = IF n <= Len(btnHeldInfo) THEN n - 1 ELSE MAX_BTN_HOOKS_PER_TRIG
      BY <2>1 DEF doPushButtonHold
    <3> HIDE DEF n
    <3>4. btnHeldIdx' \in Int
      BY <1>2, <3>1, <3>2, <3>3, PushButtonAssumption
    <3>5. /\ btnHeldIdx + 1 \in Int /\ n - 1 \in Int
          /\ \A i \in (btnHeldIdx + 1) .. (n - 1) : btnHeldInfo[i] \in Entries
      BY <1>2, <3>1, <3>2
    <3>6. SubSeq(btnHeldInfo, btnHeldIdx + 1, n - 1) \in Seq(Entries)
      BY <3>5, SubSeqProperties
    <3> QED  BY <3>3, <3>4, <3>6
  <2>2. CASE ~(btnHeldIdx < Len(btnHeldInfo))
    <3>1. callInfo' = <<>> /\ btnHeldIdx' = MAX_BTN_HOOKS_PER_TRIG
      BY <2>2 DEF doPushButtonHold
    <3> QED  BY <3>1, EmptySeq, PushButtonAssumption
  <2> QED  BY <2>1, <2>2
<1>4. called' \in Seq(Entries)
  <2>1. called' = called \o callInfo'
    BY DEF doPushButtonHold
  <2> QED  BY <1>3, <2>1, ConcatProperties
<1> QED  BY <1>3, <1>4

LEMMA ReleaseTypes ==
  ASSUME TypeInv, NEW t \in Times
  PROVE  ReleasedCalls(t) \in Seq(Entries)
<1> DEFINE a == btnReleasedInfo
<1>1. a \in Seq(Entries) /\ Ordered(a)
  BY ArraysAreSeqs DEF TypeInv, ArraysInv, OrderedByTimeout
<1>2. Len(a) \in Nat /\ \A i \in 1 .. Len(a) : a[i] \in Entries
  BY <1>1, LenProperties, ElementOfSeq
<1>3. PICK i \in 1 .. (Len(a) + 1), j \in 0 .. Len(a) : ReleasedCalls(t) = SubSeq(a, i, j)
  BY <1>1, RoundsMostRecent DEF ReleasedCalls
<1>4. i \in Int /\ j \in Int /\ \A x \in i .. j : a[x] \in Entries
  BY <1>2
<1> QED  BY <1>3, <1>4, SubSeqProperties

LEMMA NextTypes == TypeInv /\ [Next]_vars => TypeInv'
<1> SUFFICES ASSUME TypeInv, [Next]_vars PROVE TypeInv'
  OBVIOUS
<1>0. ArraysInv'
  BY NextArrays DEF TypeInv
<1> USE DEF TypeInv
<1>1. ASSUME NEW h \in Hooks, registerPushButtonPressNotifyHook(h)
                              \/ deregisterPushButtonPressNotifyHook(h)
      PROVE  TypeInv'
  BY <1>0, <1>1 DEF registerPushButtonPressNotifyHook, deregisterPushButtonPressNotifyHook
<1>2. ASSUME NEW e \in Entries, registerPushButtonHoldNotifyHook(e)
                                \/ deregisterPushButtonHoldNotifyHook(e)
      PROVE  TypeInv'
  BY <1>0, <1>2 DEF registerPushButtonHoldNotifyHook, deregisterPushButtonHoldNotifyHook
<1>3. ASSUME NEW e \in Entries, registerPushButtonReleaseNotifyHook(e)
                                \/ deregisterPushButtonReleaseNotifyHook(e)
      PROVE  TypeInv'
  BY <1>0, <1>3 DEF registerPushButtonReleaseNotifyHook, deregisterPushButtonReleaseNotifyHook
<1>4. CASE doPushButtonPress
  <2>1. btnPressedInfo \in Seq(Entries) /\ <<>> \in Seq(Entries)
    BY ArraysAreSeqs, EmptySeq DEF ArraysInv
  <2>2. held' = 0 /\ btnHeldIdx' = 0 /\ called' = <<>> /\ callInfo' = btnPressedInfo
    BY <1>4 DEF doPushButtonPress
  <2>3. 0 \in Times
    BY PushButtonAssumption DEF Times
  <2> QED  BY <1>0, <2>1, <2>2, <2>3
<1>5. CASE CallHook
  <2>1. callInfo # <<>> /\ callInfo' = Tail(callInfo)
        /\ UNCHANGED <<btnHeldIdx, held, called>>
    BY <1>5 DEF CallHook
  <2>2. Tail(callInfo) \in Seq(Entries)
    BY <2>1, HeadTailProperties
  <2> QED  BY <1>0, <2>1, <2>2
<1>6. ASSUME NEW t \in Times, doPushButtonHold(t) PROVE TypeInv'
  <2>1. held' \in Times \cup {Up}
    BY <1>6 DEF doPushButtonHold, TypeInv
  <2> QED  BY <1>0, <1>6, <2>1, HoldTypes
<1>7. ASSUME NEW t \in Times, doPushButtonRelease(t) PROVE TypeInv'
  <2>1. /\ held' = Up /\ callInfo' = ReleasedCalls(t)
        /\ UNCHANGED <<btnHeldIdx, called>>
    BY <1>7 DEF doPushButtonRelease
  <2>2. ReleasedCalls(t) \in Seq(Entries)
    BY ReleaseTypes
  <2> QED  BY <1>0, <2>1, <2>2
<1>8. CASE UNCHANGED vars
  BY <1>0, <1>8 DEF vars
<1> QED  BY <1>1, <1>2, <1>3, <1>4, <1>5, <1>6, <1>7, <1>8 DEF Next

(***************************************************************************)
(* Type correctness: no array outgrows MAX_BTN_HOOKS_PER_TRIG, and what    *)
(* hold and release choose to call are entries of the arrays, whenever     *)
(* hooks are registered and deregistered.                                  *)
(***************************************************************************)
THEOREM TypeCorrect == Spec => []TypeOK
<1>1. TypeInv => TypeOK
  BY DEF TypeInv, ArraysInv, TypeOK
<1> QED  BY <1>1, InitTypes, NextTypes, PTL DEF Spec

-----------------------------------------------------------------------------
(* The hold hooks called since the press.                                  *)

\* The number of entries before index idx, which may be past the used ones.
Passed(idx, array) == IF idx < Len(array) THEN idx ELSE Len(array)

\* While the button is down, what has been called are the entries that the
\* index has passed; each of them was due at the longest time seen, and the
\* others were not, once there was such a time.
CalledInv ==
  held # Up =>
    /\ btnHeldIdx \in 0 .. MAX_BTN_HOOKS_PER_TRIG
    /\ called = SubSeq(btnHeldInfo, 1, Passed(btnHeldIdx, btnHeldInfo))
    /\ \A i \in 1 .. Passed(btnHeldIdx, btnHeldInfo) : btnHeldInfo[i].timeout <= held
    /\ \A i \in 1 .. Len(btnHeldInfo) :
         i > Passed(btnHeldIdx, btnHeldInfo) => held = 0 \/ btnHeldInfo[i].timeout > held

\* doPushButtonHold calls the hooks that have become due, no matter how much
\* time has passed since it was called last, and none if the time went back.
LEMMA HoldCalls ==
  ASSUME TypeInv, CalledInv, NEW t \in Times, doPushButtonHold(t)
  PROVE  \E n \in 0 .. Len(btnHeldInfo) :
            /\ DueHeld(held') = 1 .. n /\ called' = SubSeq(btnHeldInfo, 1, n)
            /\ Passed(btnHeldIdx', btnHeldInfo) = n
            /\ btnHeldIdx' \in 0 .. MAX_BTN_HOOKS_PER_TRIG
<1> DEFINE a == btnHeldInfo
<1>1. a \in Seq(Entries) /\ Ordered(a) /\ Len(a) <= MAX_BTN_HOOKS_PER_TRIG /\ ArraysInv
  BY ArraysAreSeqs DEF TypeInv, ArraysInv, OrderedByTimeout
<1>2. /\ Len(a) \in Nat /\ DOMAIN a = 1 .. Len(a)
      /\ t \in Nat /\ held \in Nat /\ MAX_BTN_HOOKS_PER_TRIG \in Nat
      /\ \A i \in 1 .. Len(a) : a[i].timeout \in Nat
  BY <1>1, LenProperties, EntryTimeouts, PushButtonAssumption
     DEF TypeInv, Times, doPushButtonHold, Up
<1>3. \A x, y \in 1 .. Len(a) : x < y => a[x].timeout <= a[y].timeout
  BY <1>1, <1>2 DEF Ordered
<1>4. /\ btnHeldIdx \in 0 .. MAX_BTN_HOOKS_PER_TRIG
      /\ called = SubSeq(a, 1, Passed(btnHeldIdx, a))
      /\ \A i \in 1 .. Passed(btnHeldIdx, a) : a[i].timeout <= held
      /\ \A i \in 1 .. Len(a) : i > Passed(btnHeldIdx, a) => held = 0 \/ a[i].timeout > held
  BY DEF CalledInv, doPushButtonHold
<1>4a. held' \in Nat /\ held <= held' /\ t <= held' /\ (held' = t \/ (held' = held /\ held > 0))
  BY <1>2 DEF doPushButtonHold
<1>5. called' = called \o callInfo'
  BY DEF doPushButtonHold
<1>6. CASE btnHeldIdx < Len(a)
  <2> DEFINE n == NextHeld(t) - 1
  <2>1. btnHeldIdx \in 0 .. Len(a) /\ Passed(btnHeldIdx, a) = btnHeldIdx
    BY <1>2, <1>4, <1>6 DEF Passed
  <2>2. /\ NextHeld(t) \in (btnHeldIdx + 1) .. (Len(a) + 1)
        /\ \A j \in (btnHeldIdx + 1) .. (NextHeld(t) - 1) : a[j].timeout <= t
        /\ NextHeld(t) <= Len(a) => a[NextHeld(t)].timeout > t
    BY <1>1, <2>1, NextHeldDef
  <2>3. /\ callInfo' = SubSeq(a, btnHeldIdx + 1, NextHeld(t) - 1)
        /\ btnHeldIdx' = IF NextHeld(t) <= Len(a) THEN NextHeld(t) - 1
                         ELSE MAX_BTN_HOOKS_PER_TRIG
    BY <1>6 DEF doPushButtonHold
  <2>4. /\ n \in btnHeldIdx .. Len(a) /\ n \in 0 .. Len(a)
        /\ \A j \in (btnHeldIdx + 1) .. n : a[j].timeout <= t
        /\ n < Len(a) => a[n + 1].timeout > t
        /\ callInfo' = SubSeq(a, btnHeldIdx + 1, n)
        /\ btnHeldIdx' = IF n < Len(a) THEN n ELSE MAX_BTN_HOOKS_PER_TRIG
    <3> DEFINE h == NextHeld(t)
               L == Len(a)
    <3>1. L \in Nat /\ btnHeldIdx \in 0 .. L /\ h \in (btnHeldIdx + 1) .. (L + 1) /\ n = h - 1
      BY <1>2, <2>1, <2>2
    <3>2. h <= L => a[h].timeout > t
      BY <2>2
    <3>3. btnHeldIdx' = IF h <= L THEN h - 1 ELSE MAX_BTN_HOOKS_PER_TRIG
      BY <2>3
    <3> HIDE DEF h, n, L
    <3>4. /\ n \in btnHeldIdx .. L /\ n \in 0 .. L /\ n + 1 = h
          /\ n < L <=> h <= L
      BY <3>1
    <3>5. /\ n < L => a[n + 1].timeout > t
          /\ btnHeldIdx' = IF n < L THEN n ELSE MAX_BTN_HOOKS_PER_TRIG
      BY <3>1, <3>2, <3>3, <3>4
    <3> QED  BY <2>2, <2>3, <3>4, <3>5 DEF h, n, L
  <2> HIDE DEF n
  <2>5. SubSeq(a, 1, btnHeldIdx) \o SubSeq(a, btnHeldIdx + 1, n) = SubSeq(a, 1, n)
    <3>1. 1 \in 1 .. (Len(a) + 1) /\ btnHeldIdx \in (1 - 1) .. Len(a)
      BY <1>2, <2>1
    <3> QED  BY <1>1, <2>4, <3>1, ConcatAdjacentSubSeq
  <2>6. called' = SubSeq(a, 1, n)
    BY <1>4, <1>5, <2>1, <2>4, <2>5
  <2>7. \A i \in 1 .. n : a[i].timeout <= held'
    <3>0. \A i \in 1 .. btnHeldIdx : a[i].timeout <= held
      BY <1>4, <2>1
    <3> SUFFICES ASSUME NEW i \in 1 .. n PROVE a[i].timeout <= held'
      OBVIOUS
    <3>1. i \in 1 .. Len(a) /\ a[i].timeout \in Nat
      BY <1>2, <2>4
    <3>2. CASE i \in 1 .. btnHeldIdx
      <4>1. a[i].timeout <= held
        BY <3>0, <3>2
      <4> QED  BY <1>2, <1>4a, <3>1, <4>1
    <3>3. CASE i \in (btnHeldIdx + 1) .. n
      <4>1. a[i].timeout <= t
        BY <2>4, <3>3
      <4> QED  BY <1>2, <1>4a, <3>1, <4>1
    <3> QED  BY <1>2, <2>1, <2>4, <3>1, <3>2, <3>3
  <2>8. \A i \in 1 .. Len(a) : i > n => a[i].timeout > held'
    <3> SUFFICES ASSUME NEW i \in 1 .. Len(a), i > n PROVE a[i].timeout > held'
      OBVIOUS
    <3>1. n + 1 \in 1 .. Len(a) /\ a[n + 1].timeout > t
      BY <1>2, <2>4
    <3>2. a[i].timeout > t
      <4>1. CASE i = n + 1
        BY <3>1, <4>1
      <4>2. CASE i # n + 1
        <5>1. a[n + 1].timeout <= a[i].timeout
          BY <1>2, <1>3, <2>4, <3>1, <4>2
        <5> QED  BY <1>2, <3>1, <5>1
      <4> QED  BY <4>1, <4>2
    <3>3. CASE held' = t
      BY <3>2, <3>3
    <3>4. CASE held' = held /\ held > 0
      <4>1. i > btnHeldIdx /\ held # 0
        BY <1>2, <2>1, <2>4, <3>4
      <4>2. i > Passed(btnHeldIdx, a)
        BY <2>1, <4>1
      <4> QED  BY <1>4, <3>4, <4>1, <4>2
    <3> QED  BY <1>4a, <3>3, <3>4
  <2>9. DueHeld(held') = 1 .. n
    <3>1. ASSUME NEW i \in DueHeld(held') PROVE i \in 1 .. n
      <4>1. i \in 1 .. Len(a) /\ a[i].timeout <= held'
        BY <1>2, <3>1 DEF DueHeld
      <4> QED  BY <1>2, <1>4a, <2>4, <2>8, <4>1
    <3>2. ASSUME NEW i \in 1 .. n PROVE i \in DueHeld(held')
      <4>1. i \in DOMAIN a
        BY <1>2, <2>4
      <4> QED  BY <2>7, <4>1 DEF DueHeld
    <3> QED  BY <3>1, <3>2
  <2>10. Passed(btnHeldIdx', a) = n /\ btnHeldIdx' \in 0 .. MAX_BTN_HOOKS_PER_TRIG
    <3> DEFINE N == Len(a)
    <3>1. N \in Nat /\ n \in 0 .. N /\ N <= MAX_BTN_HOOKS_PER_TRIG
      BY <1>1, <1>2, <2>4
    <3>2. btnHeldIdx' = IF n < N THEN n ELSE MAX_BTN_HOOKS_PER_TRIG
      BY <2>4
    <3>3. Passed(btnHeldIdx', a) = IF btnHeldIdx' < N THEN btnHeldIdx' ELSE N
      BY DEF Passed
    <3> HIDE DEF N
    <3> QED  BY <1>2, <3>1, <3>2, <3>3
  <2> QED  BY <2>4, <2>6, <2>9, <2>10
<1>7. CASE ~(btnHeldIdx < Len(a))
  <2>1. Passed(btnHeldIdx, a) = Len(a) /\ called = SubSeq(a, 1, Len(a))
    BY <1>4, <1>7 DEF Passed
  <2>2. callInfo' = <<>> /\ btnHeldIdx' = MAX_BTN_HOOKS_PER_TRIG
    BY <1>7 DEF doPushButtonHold
  <2>3. called' = SubSeq(a, 1, Len(a))
    <3>1. called \in Seq(Entries)
      BY DEF TypeInv
    <3>2. called \o <<>> = called
      BY <3>1, ConcatEmptySeq
    <3> QED  BY <1>5, <2>1, <2>2, <3>2, Zenon
  <2>4. DueHeld(held') = 1 .. Len(a)
    <3>1. \A i \in 1 .. Len(a) : a[i].timeout <= held'
      BY <1>2, <1>4, <1>4a, <2>1
    <3> QED  BY <1>2, <3>1 DEF DueHeld
  <2>5. Passed(btnHeldIdx', a) = Len(a) /\ btnHeldIdx' \in 0 .. MAX_BTN_HOOKS_PER_TRIG
    <3> DEFINE N == Len(a)
    <3>1. N \in Nat /\ N <= MAX_BTN_HOOKS_PER_TRIG
      BY <1>1, <1>2
    <3>2. Passed(btnHeldIdx', a) = IF btnHeldIdx' < N THEN btnHeldIdx' ELSE N
      BY DEF Passed
    <3> HIDE DEF N
    <3>3. Passed(btnHeldIdx', a) = N /\ btnHeldIdx' \in 0 .. MAX_BTN_HOOKS_PER_TRIG
      BY <1>2, <2>2, <3>1, <3>2
    <3> QED  BY <3>3 DEF N
  <2>6. Len(a) \in 0 .. Len(a)
    BY <1>2
  <2> QED  BY <2>3, <2>4, <2>5, <2>6
<1> QED  BY <1>6, <1>7

LEMMA NextCalled ==
  ~HoldChangesWhileDown /\ TypeInv /\ CalledInv /\ [Next]_vars => CalledInv'
<1> SUFFICES ASSUME ~HoldChangesWhileDown, TypeInv, CalledInv, [Next]_vars
             PROVE  CalledInv'
  OBVIOUS
<1>1. ASSUME UNCHANGED <<btnHeldInfo, btnHeldIdx, held, called>> PROVE CalledInv'
  BY <1>1 DEF CalledInv
<1>2. ASSUME NEW h \in Hooks, registerPushButtonPressNotifyHook(h)
                              \/ deregisterPushButtonPressNotifyHook(h)
      PROVE  CalledInv'
  BY <1>1, <1>2 DEF registerPushButtonPressNotifyHook, deregisterPushButtonPressNotifyHook
<1>3. ASSUME NEW e \in Entries, registerPushButtonHoldNotifyHook(e)
                                \/ deregisterPushButtonHoldNotifyHook(e)
      PROVE  CalledInv'
  <2>1. held' = Up
    BY <1>3 DEF registerPushButtonHoldNotifyHook, deregisterPushButtonHoldNotifyHook
  <2> QED  BY <2>1 DEF CalledInv, Up
<1>4. ASSUME NEW e \in Entries, registerPushButtonReleaseNotifyHook(e)
                                \/ deregisterPushButtonReleaseNotifyHook(e)
      PROVE  CalledInv'
  BY <1>1, <1>4 DEF registerPushButtonReleaseNotifyHook, deregisterPushButtonReleaseNotifyHook
<1>5. CASE doPushButtonPress
  <2>1. btnHeldInfo' = btnHeldInfo /\ btnHeldIdx' = 0 /\ called' = <<>> /\ held' = 0
    BY <1>5 DEF doPushButtonPress, infoVars
  <2>2. Len(btnHeldInfo) \in Nat /\ MAX_BTN_HOOKS_PER_TRIG \in Nat
    BY ArraysAreSeqs, LenProperties, PushButtonAssumption DEF TypeInv, ArraysInv
  <2>3. Passed(0, btnHeldInfo) = 0
    BY <2>2 DEF Passed
  <2>4. SubSeq(btnHeldInfo, 1, 0) = <<>>
    BY SubSeqEmpty
  <2> QED  BY <2>1, <2>2, <2>3, <2>4 DEF CalledInv
<1>6. CASE CallHook \/ UNCHANGED vars
  BY <1>1, <1>6 DEF CallHook, vars, infoVars
<1>7. ASSUME NEW t \in Times, doPushButtonHold(t) PROVE CalledInv'
  <2>1. PICK n \in 0 .. Len(btnHeldInfo) :
            /\ DueHeld(held') = 1 .. n /\ called' = SubSeq(btnHeldInfo, 1, n)
            /\ Passed(btnHeldIdx', btnHeldInfo) = n
            /\ btnHeldIdx' \in 0 .. MAX_BTN_HOOKS_PER_TRIG
    BY <1>7, HoldCalls
  <2>2. btnHeldInfo' = btnHeldInfo
    BY <1>7 DEF doPushButtonHold, infoVars
  <2>3. \A i \in 1 .. n : btnHeldInfo[i].timeout <= held'
    BY <2>1 DEF DueHeld
  <2>4. \A i \in 1 .. Len(btnHeldInfo) : i > n => btnHeldInfo[i].timeout > held'
    <3>1. /\ Len(btnHeldInfo) \in Nat /\ DOMAIN btnHeldInfo = 1 .. Len(btnHeldInfo)
          /\ \A i \in 1 .. Len(btnHeldInfo) : btnHeldInfo[i].timeout \in Nat
      BY ArraysAreSeqs, LenProperties, EntryTimeouts DEF TypeInv, ArraysInv
    <3>2. held' \in Nat
      BY <1>7 DEF doPushButtonHold, TypeInv, Times, Up
    <3>3. \A i \in 1 .. Len(btnHeldInfo) : i > n => i \notin DueHeld(held')
      BY <2>1
    <3> QED  BY <3>1, <3>2, <3>3 DEF DueHeld
  <2> QED  BY <2>1, <2>2, <2>3, <2>4 DEF CalledInv
<1>8. ASSUME NEW t \in Times, doPushButtonRelease(t) PROVE CalledInv'
  BY <1>8 DEF doPushButtonRelease, CalledInv
<1> QED  BY <1>2, <1>3, <1>4, <1>5, <1>6, <1>7, <1>8 DEF Next

(***************************************************************************)
(* As long as hold hooks change only while the button is up, every call of *)
(* doPushButtonHold leaves exactly the hooks called that are due at the    *)
(* longest time seen since the press, each once and in order, however many *)
(* have become due at once, when the times go back, and also when the      *)
(* array is full or has been passed.                                       *)
(***************************************************************************)
THEOREM HoldHooksOnceHolds == ~HoldChangesWhileDown /\ Spec => HoldHooksOnce
<1> SUFFICES ASSUME ~HoldChangesWhileDown PROVE Spec => HoldHooksOnce
  OBVIOUS
<1>1. Init => CalledInv
  BY DEF Init, CalledInv
<1>2. TypeInv /\ CalledInv /\ [Next]_vars => CalledInv'
  BY NextCalled
<1>3. TypeInv /\ CalledInv =>
        [\A t \in Times : doPushButtonHold(t) =>
            \E n \in 0 .. Len(btnHeldInfo) :
               DueHeld(held') = 1 .. n /\ called' = SubSeq(btnHeldInfo, 1, n)]_vars
  BY HoldCalls
<1> QED  BY <1>1, <1>2, <1>3, InitTypes, NextTypes, PTL DEF Spec, HoldHooksOnce
=============================================================================

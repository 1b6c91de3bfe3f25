---------------------------- MODULE RegWatchProofs ----------------------------
(***************************************************************************)
(* Proofs about RegWatch for every list of keys and every number of edits  *)
(* and failures.                                                           *)
(***************************************************************************)
EXTENDS RegWatch, FiniteSetTheorems, TLAPS

IInv == TypeOK /\ OneWatchPerKey /\ NeverDeaf

-----------------------------------------------------------------------------
(* Data. *)

LEMMA KeyNumbers ==
  ASSUME NEW k \in Keys
  PROVE  Number(k) \in Nat
  <1>1. \E i \in DOMAIN Targets : Targets[i] = k
    BY DEF Keys, ToSet
  <1>2. Number(k) \in DOMAIN Targets
    BY <1>1 DEF Number
  <1> QED BY <1>2, RegWatchAssumption

LEMMA KeysAreFinite == IsFiniteSet(Keys)
  <1> DEFINE n == Len(Targets)
  <1>1. n \in Nat /\ DOMAIN Targets = 1 .. n
    BY RegWatchAssumption
  <1>2. IsFiniteSet(1 .. n)
    BY <1>1, FS_Interval
  <1>3. Keys = {Targets[i] : i \in 1 .. n}
    BY <1>1 DEF Keys, ToSet
  <1>4. [i \in 1 .. n |-> Targets[i]] \in Surjection(1 .. n, Keys)
    BY <1>3 DEF Surjection
  <1> HIDE DEF n
  <1> QED BY <1>2, <1>4, FS_Surjection, Zenon

LEMMA Counted ==
  ASSUME NEW ks \in SUBSET Keys
  PROVE  Cardinality(ks) \in Nat
  BY KeysAreFinite, FS_Subset, FS_CardinalityType

(* A list in the order of the targets has every key once at most. *)
LEMMA InOrderOnce ==
  ASSUME NEW ks \in SUBSET Keys, NEW s \in InOrder(ks)
  PROVE  /\ s \in Seq(Keys) /\ Len(s) \in Nat /\ DOMAIN s = 1 .. Len(s)
         /\ \A i \in 1 .. Len(s) : s[i] \in ks
         /\ \A i, j \in 1 .. Len(s) : s[i] = s[j] => i = j
  <1>1. Cardinality(ks) \in Nat
    BY Counted
  <1>2. /\ s \in [1 .. Cardinality(ks) -> ks]
        /\ \A i, j \in DOMAIN s : i < j => Number(s[i]) < Number(s[j])
    BY DEF InOrder
  <1>3. /\ s \in Seq(Keys) /\ Len(s) = Cardinality(ks) /\ DOMAIN s = 1 .. Len(s)
        /\ \A i \in 1 .. Len(s) : s[i] \in ks
    BY <1>1, <1>2
  <1>4. ASSUME NEW i \in 1 .. Len(s), NEW j \in 1 .. Len(s), s[i] = s[j], i < j
        PROVE  FALSE
    <2>1. Number(s[i]) < Number(s[j]) /\ Number(s[i]) \in Nat
      BY <1>2, <1>3, <1>4, KeyNumbers
    <2> QED BY <1>4, <2>1
  <1>5. \A i, j \in 1 .. Len(s) : s[i] = s[j] => i = j
    <2> SUFFICES ASSUME NEW i \in 1 .. Len(s), NEW j \in 1 .. Len(s), s[i] = s[j], i # j
                 PROVE  FALSE
      OBVIOUS
    <2>1. i \in Nat /\ j \in Nat
      BY <1>1, <1>3
    <2>2. i < j \/ j < i
      BY <2>1
    <2> QED BY <1>4, <2>2
  <1> QED BY <1>1, <1>3, <1>5

-----------------------------------------------------------------------------
LEMMA InitIInv == Init => IInv
  <1> SUFFICES ASSUME Init PROVE IInv
    OBVIOUS
  <1>1. /\ exists \in SUBSET Keys /\ watches \in InOrder(exists) /\ armed = exists
        /\ dead = {} /\ event = {} /\ pending = {} /\ changed = {} /\ ticks = 0
        /\ current = None /\ edits = 0 /\ failures = 0
    BY DEF Init
  <1>2. /\ watches \in Seq(Keys) /\ Len(watches) \in Nat /\ DOMAIN watches = 1 .. Len(watches)
        /\ \A i \in 1 .. Len(watches) : watches[i] \in exists
        /\ \A i, j \in 1 .. Len(watches) : watches[i] = watches[j] => i = j
    BY <1>1, InOrderOnce
  <1>3. 0 \in 0 .. RecheckEvery - 1 /\ 0 \in 0 .. MaxEdits /\ 0 \in 0 .. MaxFailures
    BY RegWatchAssumption
  <1>4. TypeOK
    BY <1>1, <1>2, <1>3 DEF TypeOK
  <1>5. OneWatchPerKey
    BY <1>2 DEF OneWatchPerKey, IsInjective
  <1>6. NeverDeaf
    BY <1>1, <1>2 DEF NeverDeaf, Watched, ToSet
  <1> QED BY <1>4, <1>5, <1>6 DEF IInv

LEMMA WatchedAreKeys == ASSUME TypeOK PROVE Watched \subseteq Keys
  BY DEF TypeOK, Watched, ToSet

(* The system: the keys and their notifications. *)
LEMMA EditTypes ==
  ASSUME TypeOK, NEW k \in Keys, Edit(k)
  PROVE  edits' \in 0 .. MaxEdits
  <1>1. CASE edits' = edits
    BY <1>1 DEF TypeOK
  <1>2. CASE edits < MaxEdits /\ edits' = edits + 1
    BY <1>2, RegWatchAssumption DEF TypeOK
  <1> QED BY <1>1, <1>2 DEF Edit

LEMMA NotifyIInv ==
  ASSUME IInv, NEW k \in Keys, Edit(k), Notify(k), exists' \subseteq Keys,
         dead \subseteq dead', dead' \subseteq Keys,
         UNCHANGED <<watches, changed, ticks, current, failures>>
  PROVE  IInv'
  <1>1. TypeOK /\ OneWatchPerKey /\ NeverDeaf
    BY DEF IInv
  <1>2. /\ armed' = armed \ {k}
        /\ event' = IF k \in armed THEN event \cup {k} ELSE event
        /\ pending' = IF k \in armed THEN pending \cup {k} ELSE pending
    BY DEF Notify
  <1>3. armed' \subseteq Keys /\ event' \subseteq Keys /\ pending' \subseteq Keys
    BY <1>1, <1>2 DEF TypeOK
  <1>4. TypeOK'
    BY <1>1, <1>3, EditTypes DEF TypeOK
  <1>5. OneWatchPerKey'
    BY <1>1 DEF OneWatchPerKey
  <1>6. Watched' = Watched
    BY DEF Watched
  <1>7. NeverDeaf'
    BY <1>1, <1>2, <1>6 DEF NeverDeaf
  <1> QED BY <1>4, <1>5, <1>7 DEF IInv

LEMMA CreateKeyIInv == ASSUME IInv, NEW k \in Keys, CreateKey(k) PROVE IInv'
  <1>1. TypeOK /\ OneWatchPerKey /\ NeverDeaf
    BY DEF IInv
  <1>2. /\ Edit(k) /\ exists' = exists \cup {k}
        /\ UNCHANGED <<watches, armed, dead, event, pending, changed, ticks, current, failures>>
    BY DEF CreateKey
  <1>3. TypeOK'
    BY <1>1, <1>2, EditTypes DEF TypeOK
  <1>4. OneWatchPerKey' /\ NeverDeaf'
    BY <1>1, <1>2 DEF OneWatchPerKey, NeverDeaf, Watched
  <1> QED BY <1>3, <1>4 DEF IInv

LEMMA TickIInv == ASSUME IInv, Tick PROVE IInv'
  <1>1. TypeOK /\ OneWatchPerKey /\ NeverDeaf
    BY DEF IInv
  <1>2. /\ changed' = {} /\ ticks + 1 < RecheckEvery /\ ticks' = ticks + 1
        /\ UNCHANGED <<exists, edits, watches, armed, dead, event, pending, current, failures>>
    BY DEF Tick, TimeOut, registry
  <1>3. ticks' \in 0 .. RecheckEvery - 1
    BY <1>1, <1>2, RegWatchAssumption DEF TypeOK
  <1>4. TypeOK'
    BY <1>1, <1>2, <1>3 DEF TypeOK
  <1>5. OneWatchPerKey' /\ NeverDeaf'
    BY <1>1, <1>2 DEF OneWatchPerKey, NeverDeaf, Watched
  <1> QED BY <1>4, <1>5 DEF IInv

LEMMA RecheckIInv == ASSUME IInv, Recheck PROVE IInv'
  <1>1. TypeOK /\ OneWatchPerKey /\ NeverDeaf
    BY DEF IInv
  <1>2. /\ changed' = {} /\ ticks' = 0
        /\ UNCHANGED <<exists, edits, dead, event, pending, current>>
    BY DEF Recheck, TimeOut, registry
  <1>3. PICK failed \in SUBSET (exists \ Watched) :
          /\ failures + Cardinality(failed) <= MaxFailures
          /\ failures' = failures + Cardinality(failed)
          /\ \E added \in InOrder((exists \ failed) \ Watched) : watches' = watches \o added
          /\ armed' = armed \cup ((exists \ failed) \ Watched)
    BY DEF Recheck
  <1> DEFINE new == (exists \ failed) \ Watched
  <1>4. PICK added \in InOrder(new) : watches' = watches \o added
    BY <1>3
  <1>5. new \subseteq Keys /\ failed \subseteq Keys /\ new \cap Watched = {}
    BY <1>1 DEF TypeOK
  <1>6. armed' = armed \cup new
    BY <1>3
  <1> HIDE DEF new
  <1>7. /\ added \in Seq(Keys) /\ Len(added) \in Nat /\ DOMAIN added = 1 .. Len(added)
        /\ \A i \in 1 .. Len(added) : added[i] \in new
        /\ \A i, j \in 1 .. Len(added) : added[i] = added[j] => i = j
    BY <1>5, InOrderOnce
  <1>8. /\ watches \in Seq(Keys) /\ Len(watches) \in Nat /\ DOMAIN watches = 1 .. Len(watches)
        /\ \A i \in 1 .. Len(watches) : watches[i] \in Watched
        /\ \A i, j \in 1 .. Len(watches) : watches[i] = watches[j] => i = j
    BY <1>1 DEF TypeOK, OneWatchPerKey, IsInjective, Watched, ToSet
  <1>9. /\ watches' \in Seq(Keys) /\ Len(watches') = Len(watches) + Len(added)
        /\ DOMAIN watches' = 1 .. Len(watches) + Len(added)
        /\ \A i \in 1 .. Len(watches) : watches'[i] = watches[i]
        /\ \A i \in 1 .. Len(watches) + Len(added) :
             i > Len(watches) => watches'[i] = added[i - Len(watches)] /\ i - Len(watches) \in 1 .. Len(added)
    BY <1>4, <1>7, <1>8
  <1>10. failures' \in 0 .. MaxFailures
    BY <1>1, <1>3, <1>5, Counted, RegWatchAssumption DEF TypeOK
  <1>11. TypeOK'
    <2>1. 0 \in 0 .. RecheckEvery - 1 /\ armed' \subseteq Keys
      BY <1>1, <1>5, <1>6, RegWatchAssumption DEF TypeOK
    <2> QED BY <1>1, <1>2, <1>9, <1>10, <2>1 DEF TypeOK
  <1>12. OneWatchPerKey'
    <2> SUFFICES ASSUME NEW i \in DOMAIN watches', NEW j \in DOMAIN watches',
                        watches'[i] = watches'[j]
                 PROVE  i = j
      BY DEF OneWatchPerKey, IsInjective
    <2>1. i \in Nat /\ j \in Nat /\ i >= 1 /\ j >= 1
      BY <1>7, <1>8, <1>9
    <2>2. CASE i <= Len(watches) /\ j <= Len(watches)
      BY <1>8, <1>9, <2>1, <2>2
    <2>3. CASE i > Len(watches) /\ j > Len(watches)
      <3>1. i - Len(watches) = j - Len(watches)
        BY <1>7, <1>9, <2>3
      <3> QED BY <1>8, <2>1, <3>1
    <2>4. CASE i <= Len(watches) /\ j > Len(watches)
      <3>1. watches'[i] \in Watched /\ watches'[j] \in new
        BY <1>7, <1>8, <1>9, <2>1, <2>4
      <3> QED BY <1>5, <3>1
    <2>5. CASE i > Len(watches) /\ j <= Len(watches)
      <3>1. watches'[j] \in Watched /\ watches'[i] \in new
        BY <1>7, <1>8, <1>9, <2>1, <2>5
      <3> QED BY <1>5, <3>1
    <2> QED BY <1>8, <2>1, <2>2, <2>3, <2>4, <2>5
  <1>13. Watched' \subseteq Watched \cup new
    <2> SUFFICES ASSUME NEW i \in DOMAIN watches' PROVE watches'[i] \in Watched \cup new
      BY DEF Watched, ToSet
    <2>1. i \in Nat /\ i >= 1
      BY <1>7, <1>8, <1>9
    <2>2. i <= Len(watches) \/ i > Len(watches)
      BY <1>8, <2>1
    <2> QED BY <1>7, <1>8, <1>9, <2>1, <2>2
  <1>14. NeverDeaf'
    BY <1>1, <1>2, <1>6, <1>13 DEF NeverDeaf
  <1> QED BY <1>11, <1>12, <1>14 DEF IInv

LEMMA TakeChangeIInv == ASSUME IInv, TakeChange PROVE IInv'
  <1>1. TypeOK /\ OneWatchPerKey /\ NeverDeaf
    BY DEF IInv
  <1>2. current = None
        /\ UNCHANGED <<exists, edits, watches, armed, dead, changed, ticks, failures>>
    BY DEF TakeChange, registry
  <1>3. PICK i \in 1 .. Len(watches) :
          event' = event \ {watches[i]} /\ current' = watches[i] /\ pending' = pending \ {watches[i]}
    BY DEF TakeChange
  <1>4. watches[i] \in Keys
    BY <1>1 DEF TypeOK
  <1>5. TypeOK'
    BY <1>1, <1>2, <1>3, <1>4 DEF TypeOK
  <1>6. OneWatchPerKey'
    BY <1>1, <1>2 DEF OneWatchPerKey
  <1>7. Watched' = Watched /\ Watched \subseteq Keys /\ None \notin Keys
    BY <1>1, <1>2, WatchedAreKeys, RegWatchAssumption DEF Watched
  <1>8. NeverDeaf'
    BY <1>1, <1>2, <1>3, <1>7 DEF NeverDeaf
  <1> QED BY <1>5, <1>6, <1>8 DEF IInv

LEMMA RearmIInv == ASSUME IInv, Rearm PROVE IInv'
  <1>1. TypeOK /\ OneWatchPerKey /\ NeverDeaf
    BY DEF IInv
  <1>2. /\ current # None /\ armed' = armed \cup ({current} \ dead) /\ current' = None /\ changed' = {}
        /\ UNCHANGED <<exists, edits, watches, dead, event, pending, ticks, failures>>
    BY DEF Rearm, registry
  <1>3. TypeOK'
    BY <1>1, <1>2 DEF TypeOK
  <1>4. OneWatchPerKey'
    BY <1>1, <1>2 DEF OneWatchPerKey
  <1>5. Watched' = Watched
    BY <1>2 DEF Watched
  <1>6. NeverDeaf'
    BY <1>1, <1>2, <1>5 DEF NeverDeaf
  <1> QED BY <1>3, <1>4, <1>6 DEF IInv

LEMMA NextIInv == IInv /\ [Next]_vars => IInv'
  <1> SUFFICES ASSUME IInv, [Next]_vars PROVE IInv'
    OBVIOUS
  <1>1. TypeOK /\ OneWatchPerKey /\ NeverDeaf
    BY DEF IInv
  <1>2. CASE Tick
    BY <1>2, TickIInv
  <1>3. CASE Recheck
    BY <1>3, RecheckIInv
  <1>4. CASE TakeChange
    BY <1>4, TakeChangeIInv
  <1>5. CASE Rearm
    BY <1>5, RearmIInv
  <1>6. ASSUME NEW k \in Keys, ChangeKey(k) PROVE IInv'
    <2>1. /\ Edit(k) /\ Notify(k)
          /\ UNCHANGED <<exists, watches, dead, changed, ticks, current, failures>>
      BY <1>6 DEF ChangeKey
    <2>2. exists' \subseteq Keys /\ dead \subseteq dead' /\ dead' \subseteq Keys
      BY <1>1, <2>1 DEF TypeOK
    <2> QED BY <2>1, <2>2, NotifyIInv
  <1>7. ASSUME NEW k \in Keys, DeleteKey(k) PROVE IInv'
    <2>1. /\ Edit(k) /\ Notify(k) /\ exists' = exists \ {k} /\ dead' = dead \cup ({k} \cap Watched)
          /\ UNCHANGED <<watches, changed, ticks, current, failures>>
      BY <1>7 DEF DeleteKey
    <2>2. exists' \subseteq Keys /\ dead \subseteq dead' /\ dead' \subseteq Keys
      BY <1>1, <2>1 DEF TypeOK
    <2> QED BY <2>1, <2>2, NotifyIInv
  <1>8. ASSUME NEW k \in Keys, CreateKey(k) PROVE IInv'
    BY <1>8, CreateKeyIInv
  <1>9. CASE \E f \in Files : ChangeFile(f)
    <2>1. PICK f \in Files : ChangeFile(f)
      BY <1>9
    <2>2. /\ changed' = changed \cup {f}
          /\ UNCHANGED <<exists, edits, watches, armed, dead, event, pending, ticks, current, failures>>
      BY <2>1 DEF ChangeFile, registry
    <2>3. TypeOK'
      BY <1>1, <2>2 DEF TypeOK
    <2>4. OneWatchPerKey' /\ NeverDeaf'
      BY <1>1, <2>2 DEF OneWatchPerKey, NeverDeaf, Watched
    <2> QED BY <2>3, <2>4 DEF IInv
  <1>10. CASE UNCHANGED vars
    <2>1. TypeOK'
      BY <1>1, <1>10 DEF vars, TypeOK
    <2>2. OneWatchPerKey' /\ NeverDeaf'
      BY <1>1, <1>10 DEF vars, OneWatchPerKey, NeverDeaf, Watched
    <2> QED BY <2>1, <2>2 DEF IInv
  <1> QED BY <1>2, <1>3, <1>4, <1>5, <1>6, <1>7, <1>8, <1>9, <1>10 DEF Next, Loop

LEMMA Invariance == Spec => []IInv
  BY InitIInv, NextIInv, PTL DEF Spec

-----------------------------------------------------------------------------
(* The lists and sets of the loop have their types (monitor.rs:80-141).     *)
THEOREM TypeCorrect == Spec => []TypeOK
  <1>1. IInv => TypeOK
    BY DEF IInv
  <1> QED BY <1>1, Invariance, PTL

(* ensure_reg_watch adds no second watch for a label, in whatever order the *)
(* keys come and go (monitor.rs:171-184).                                   *)
THEOREM WatchesAreUnique == Spec => []OneWatchPerKey
  <1>1. IInv => OneWatchPerKey
    BY DEF IInv
  <1> QED BY <1>1, Invariance, PTL

(* No watch of an existing key goes deaf between the wait, the re-arming    *)
(* and the recheck (monitor.rs:109-141).                                    *)
THEOREM WatchesHear == Spec => []NeverDeaf
  <1>1. IInv => NeverDeaf
    BY DEF IInv
  <1> QED BY <1>1, Invariance, PTL
=============================================================================

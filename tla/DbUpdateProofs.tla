--------------------------- MODULE DbUpdateProofs ---------------------------
(***************************************************************************)
(* Proofs about DbUpdate for every set of processes, every list of public  *)
(* feeds and every interval.                                               *)
(***************************************************************************)
EXTENDS DbUpdate, TLAPS

(* The mutex exists as long as somebody has a handle of it. *)
Exclusive ==
  /\ handles = {p \in Procs : role[p] # "out"}
  /\ AtMostOneUpdate

-----------------------------------------------------------------------------
(* Types. *)

LEMMA ClockTypes == MaxClock \in Nat /\ Interval \in [Sources -> Nat \ {0}]
                    /\ 0 \in Clock /\ Clock \subseteq Nat
  <1>1. MaxClock \in Nat /\ Interval \in [Sources -> Nat \ {0}]
    BY DbUpdateAssumption, Zenon
  <1> QED BY <1>1 DEF Clock

LEMMA FeedTypes == Public \subseteq Feeds /\ Keyed \subseteq Feeds /\ Feeds \subseteq Sources
  BY DEF Feeds, Sources

LEMMA RunTypes ==
  ASSUME NEW r \in Runs
  PROVE  /\ NoRun \in Runs
         /\ NextStep(r) \in Runs
         /\ \A f, k \in BOOLEAN : [NoRun EXCEPT !.force = f, !.key = k] \in Runs
         /\ \A b \in BOOLEAN : [r EXCEPT !.phase = "replacing", !.saved = b] \in Runs
         /\ [r EXCEPT !.phase = "mark"] \in Runs
         /\ [r EXCEPT !.phase = "mark", !.saved = FALSE] \in Runs
         /\ \A b \in BOOLEAN : [r EXCEPT !.anySuccess = b] \in Runs
         /\ \A a, b \in BOOLEAN : [r EXCEPT !.allOk = a, !.primaryFailed = b] \in Runs
  <1>1. NoRun \in Runs
    BY DEF NoRun, Runs
  <1>2. NextStep(r) \in Runs
    <2>1. r.at + 1 \in Nat \ {0}
      BY DEF Runs
    <2> QED BY <2>1 DEF NextStep, Runs
  <1>3. \A f, k \in BOOLEAN : [NoRun EXCEPT !.force = f, !.key = k] \in Runs
    <2> TAKE f, k \in BOOLEAN
    <2> DEFINE n == NoRun
    <2>1. n \in Runs
      BY <1>1
    <2> HIDE DEF n
    <2>2. [n EXCEPT !.force = f, !.key = k] \in Runs
      BY <2>1 DEF Runs
    <2> QED BY <2>2 DEF n
  <1>4. \A b \in BOOLEAN : [r EXCEPT !.phase = "replacing", !.saved = b] \in Runs
    BY DEF Runs
  <1>5. /\ [r EXCEPT !.phase = "mark"] \in Runs
        /\ [r EXCEPT !.phase = "mark", !.saved = FALSE] \in Runs
    BY DEF Runs
  <1>6. \A b \in BOOLEAN : [r EXCEPT !.anySuccess = b] \in Runs
    BY DEF Runs
  <1>7. \A a, b \in BOOLEAN : [r EXCEPT !.allOk = a, !.primaryFailed = b] \in Runs
    BY DEF Runs
  <1> QED BY <1>1, <1>2, <1>3, <1>4, <1>5, <1>6, <1>7

LEMMA FailedType ==
  ASSUME NEW s, run \in Runs
  PROVE  Failed(s) \in Runs
  <1>1. (run.allOk /\ s \notin Public) \in BOOLEAN /\ (run.primaryFailed \/ s = "threatfox") \in BOOLEAN
    OBVIOUS
  <1> QED BY <1>1, RunTypes DEF Failed

(* What a step does to the history of a source keeps the types. *)
LEMMA OwesType ==
  ASSUME TypeOK, NEW s \in Sources, NEW b, Owes(s, b)
  PROVE  owed' \in SUBSET Sources
  BY DEF Owes, TypeOK

LEMMA FreshType ==
  ASSUME TypeOK, NEW s \in Sources, Fresh(s)
  PROVE  owed' \in SUBSET Sources /\ fetched' \in [Sources -> Clock \cup {NoTime}]
  BY DEF Fresh, TypeOK

LEMMA InitType == Init => TypeOK
  <1> SUFFICES ASSUME Init PROVE TypeOK
    OBVIOUS
  <1>1. run \in Runs
    BY DEF Init, NoRun, Runs
  <1>2. PICK old \in BOOLEAN :
          /\ index = IF old THEN Feeds ELSE {}
          /\ shared = IF old THEN 0 ELSE NoTime
          /\ fetched = [s \in Sources |-> IF old THEN 0 ELSE NoTime]
          /\ own = [s \in Sources |-> IF old /\ s \notin Public \cup Keyed THEN 0 ELSE NoTime]
    BY DEF Init
  <1>3. index \in SUBSET Feeds /\ shared \in Clock \cup {NoTime}
        /\ fetched \in [Sources -> Clock \cup {NoTime}] /\ own \in [Sources -> Clock \cup {NoTime}]
    BY <1>2, ClockTypes
  <1>4. steady \in BOOLEAN
    BY Zenon DEF Init
  <1> QED BY <1>1, <1>3, <1>4, ClockTypes DEF Init, TypeOK

LEMMA GuardType ==
  ASSUME TypeOK, NEW p \in Procs,
         Enter(p) \/ Refused(p) \/ CloseRefused(p) \/ Finish(p) \/ Kill(p)
  PROVE  TypeOK'
  <1> USE DEF TypeOK, files, history
  <1>1. CASE Enter(p)
    <2>1. run' \in Runs
      BY <1>1, RunTypes DEF Enter
    <2> QED BY <1>1, <2>1 DEF Enter
  <1>2. CASE Refused(p) \/ CloseRefused(p)
    BY <1>2 DEF Refused, CloseRefused
  <1>3. CASE Finish(p) \/ Kill(p)
    BY <1>3, RunTypes DEF Finish, Kill
  <1> QED BY <1>1, <1>2, <1>3

(* What is under way: an index that is being replaced is away, and one that *)
(* is about to be stamped was just installed.                               *)
InFlight ==
  /\ run.phase = "replacing" => Here \in Feeds \ index
  /\ run.phase = "mark" /\ steady =>
       Here \in Sources /\ fetched[Here] = clock /\ Here \notin owed

LEMMA SameHere == run'.at = run.at /\ dir' = dir => Here' = Here
  BY DEF Here, Plan

LEMMA NextDecides ==
  ASSUME NEW r \in Runs
  PROVE  NextStep(r).phase = "decide" /\ NextStep(r).at = r.at + 1
         /\ NextStep(r).allOk = r.allOk /\ NextStep(r).saved = FALSE
  BY DEF NextStep, Runs

LEMMA OwnerType ==
  ASSUME TypeOK, InFlight, NEW p \in Procs, OwnerStep(p)
  PROVE  TypeOK'
  <1> USE DEF TypeOK, files, history
  <1>1. CASE Skip(p)
    BY <1>1, RunTypes DEF Skip
  <1>2. CASE Fail(p)
    <2>1. run' \in Runs
      BY <1>2, FailedType, RunTypes DEF Fail
    <2> QED BY <1>2, <2>1, OwesType DEF Fail, AtSource
  <1>3. CASE StartReplace(p)
    <2>1. run' \in Runs
      <3>1. (Here \in index) \in BOOLEAN
        OBVIOUS
      <3>2. run' = [run EXCEPT !.phase = "replacing", !.saved = Here \in index]
        BY <1>3, Zenon DEF StartReplace
      <3> QED BY <3>1, <3>2, RunTypes, Zenon
    <2> QED BY <1>3, <2>1 DEF StartReplace
  <1>4. CASE EndReplace(p)
    <2>1. run' \in Runs /\ owed' \in SUBSET Sources /\ fetched' \in [Sources -> Clock \cup {NoTime}]
      BY <1>4, RunTypes, FreshType DEF EndReplace, AtSource
    <2>2. index' \in SUBSET Feeds
      BY <1>4 DEF EndReplace, InFlight
    <2> QED BY <1>4, <2>1, <2>2 DEF EndReplace
  <1>5. CASE ReplaceFails(p)
    <2>1. run' \in Runs
      BY <1>5, FailedType, RunTypes DEF ReplaceFails
    <2>2. owed' \in SUBSET Sources /\ fetched' \in [Sources -> Clock \cup {NoTime}]
      BY <1>5, OwesType, FreshType DEF ReplaceFails, AtSource
    <2>3. index' \in SUBSET Feeds
      BY <1>5 DEF ReplaceFails, InFlight
    <2> QED BY <1>5, <2>1, <2>2, <2>3 DEF ReplaceFails
  <1>6. CASE ClamUpdated(p)
    <2>1. run' \in Runs /\ owed' \in SUBSET Sources /\ fetched' \in [Sources -> Clock \cup {NoTime}]
      BY <1>6, RunTypes, FreshType DEF ClamUpdated, AtSource
    <2> QED BY <1>6, <2>1 DEF ClamUpdated
  <1>7. CASE Mark(p)
    <2>1. run' \in Runs
      <3>1. (run.anySuccess \/ Here \in Keyed) \in BOOLEAN
        OBVIOUS
      <3>2. run' = NextStep([run EXCEPT !.anySuccess = run.anySuccess \/ Here \in Keyed])
        BY <1>7 DEF Mark
      <3> QED BY <3>1, <3>2, RunTypes, Zenon
    <2>2. own' \in [Sources -> Clock \cup {NoTime}] /\ shared' \in Clock \cup {NoTime}
      BY <1>7 DEF Mark
    <2> QED BY <1>7, <2>1, <2>2 DEF Mark
  <1>8. CASE EndPublic(p)
    <2>1. run' \in Runs /\ shared' \in Clock \cup {NoTime}
      BY <1>8, RunTypes DEF EndPublic
    <2> QED BY <1>8, <2>1 DEF EndPublic
  <1>9. CASE EndKeyed(p)
    <2>1. run' \in Runs /\ shared' \in Clock \cup {NoTime}
      BY <1>9, RunTypes DEF EndKeyed
    <2> QED BY <1>9, <2>1 DEF EndKeyed
  <1>10. CASE Finish(p)
    BY <1>10, GuardType
  <1> QED BY <1>1, <1>2, <1>3, <1>4, <1>5, <1>6, <1>7, <1>8, <1>9, <1>10 DEF OwnerStep

LEMMA ClockType == TypeOK /\ (Tick \/ SetClockBack) => TypeOK'
  <1> SUFFICES ASSUME TypeOK, Tick \/ SetClockBack PROVE TypeOK'
    OBVIOUS
  <1> USE DEF TypeOK, files, history
  <1>1. CASE Tick
    <2>1. clock' \in Clock
      BY <1>1, ClockTypes DEF Tick, Clock
    <2> QED BY <1>1, <2>1 DEF Tick
  <1>2. CASE SetClockBack
    <2>1. clock' \in Clock
      BY <1>2, ClockTypes DEF SetClockBack, Clock
    <2>2. fetched' \in [Sources -> Clock \cup {NoTime}] /\ owed' \in SUBSET Sources /\ steady' \in BOOLEAN
      BY <1>2 DEF SetClockBack
    <2> QED BY <1>2, <2>1, <2>2 DEF SetClockBack
  <1> QED BY <1>1, <1>2

-----------------------------------------------------------------------------
(* The mutex. *)

LEMMA InitExclusive == Init => Exclusive
  BY DEF Init, Exclusive, AtMostOneUpdate

LEMMA OwnerKeepsRole ==
  ASSUME NEW p \in Procs, OwnerStep(p), ~Finish(p)
  PROVE  UNCHANGED <<handles, role>>
  BY DEF OwnerStep, Skip, Fail, StartReplace, EndReplace, ReplaceFails, ClamUpdated,
         Mark, EndPublic, EndKeyed

LEMMA NextExclusive == TypeOK /\ Exclusive /\ [Next]_vars => Exclusive'
  <1> SUFFICES ASSUME TypeOK, Exclusive, [Next]_vars PROVE Exclusive'
    OBVIOUS
  <1> USE DEF TypeOK, Exclusive, AtMostOneUpdate
  <1>1. CASE UNCHANGED <<handles, role>>
    BY <1>1
  <1>2. ASSUME NEW p \in Procs, Enter(p) PROVE Exclusive'
    <2>1. \A q \in Procs : role[q] = "out"
      BY <1>2 DEF Enter
    <2> QED BY <1>2, <2>1 DEF Enter
  <1>3. ASSUME NEW p \in Procs, Refused(p) PROVE Exclusive'
    BY <1>3 DEF Refused
  <1>4. ASSUME NEW p \in Procs, CloseRefused(p) \/ Finish(p) \/ Kill(p) PROVE Exclusive'
    BY <1>4 DEF CloseRefused, Finish, Kill
  <1>5. CASE Tick \/ SetClockBack \/ UNCHANGED vars
    BY <1>1, <1>5 DEF Tick, SetClockBack, vars
  <1> QED BY <1>1, <1>2, <1>3, <1>4, <1>5, OwnerKeepsRole DEF Next

-----------------------------------------------------------------------------
(* Stamps. *)

(* No stamp is newer than the installation it stands for, none is in the    *)
(* future.                                                                  *)
Honest ==
  steady =>
    /\ shared <= clock
    /\ \A s \in Sources : own[s] <= fetched[s] /\ fetched[s] <= clock

StampInv == InFlight /\ Honest

LEMMA InitStampInv == Init => StampInv
  <1> SUFFICES ASSUME Init PROVE StampInv
    OBVIOUS
  <1>1. run.phase = "decide" /\ clock = 0
    BY DEF Init, NoRun
  <1>2. PICK old \in BOOLEAN :
          /\ shared = IF old THEN 0 ELSE NoTime
          /\ fetched = [s \in Sources |-> IF old THEN 0 ELSE NoTime]
          /\ own = [s \in Sources |-> IF old /\ s \notin Public \cup Keyed THEN 0 ELSE NoTime]
    BY DEF Init
  <1>3. shared <= 0 /\ \A s \in Sources : own[s] <= fetched[s] /\ fetched[s] <= 0
    BY <1>2 DEF NoTime
  <1> QED BY <1>1, <1>3 DEF StampInv, InFlight, Honest

(* A step that leaves the files and the clock alone and takes the run to    *)
(* its next decision.                                                       *)
LEMMA DecideKeepsStamps ==
  ASSUME StampInv, run'.phase = "decide", UNCHANGED <<files, clock, steady, fetched>>
  PROVE  StampInv'
  BY DEF StampInv, InFlight, Honest, files

LEMMA GuardKeepsStamps ==
  ASSUME TypeOK, StampInv, NEW p \in Procs,
         Enter(p) \/ Refused(p) \/ CloseRefused(p) \/ Finish(p) \/ Kill(p)
  PROVE  StampInv'
  <1> USE DEF files, history
  <1>1. CASE Enter(p)
    <2>1. run'.phase = "decide"
      <3>1. PICK f, k \in BOOLEAN : run' = [NoRun EXCEPT !.force = f, !.key = k]
        BY <1>1 DEF Enter
      <3> QED BY <3>1 DEF NoRun
    <2> QED BY <1>1, <2>1, DecideKeepsStamps DEF Enter
  <1>2. CASE UNCHANGED <<dir, run, files, clock, history>>
    <2>1. Here' = Here
      BY <1>2, SameHere
    <2> QED BY <1>2, <2>1 DEF StampInv, InFlight, Honest
  <1>3. CASE run' = NoRun /\ UNCHANGED <<files, clock, history>>
    BY <1>3, DecideKeepsStamps DEF NoRun
  <1> QED BY <1>1, <1>2, <1>3 DEF Refused, CloseRefused, Finish, Kill

LEMMA TimeTypes ==
  ASSUME TypeOK
  PROVE  /\ run \in Runs /\ clock \in Nat /\ shared \in Int
         /\ \A s \in Sources : own[s] \in Int /\ fetched[s] \in Int
  <1>1. Clock \cup {NoTime} \subseteq Int /\ Clock \subseteq Nat
    BY ClockTypes DEF NoTime
  <1> QED BY <1>1 DEF TypeOK

LEMMA FreshIsNow ==
  ASSUME TypeOK, NEW s \in Sources, Fresh(s), steady
  PROVE  /\ fetched'[s] = clock /\ s \notin owed'
         /\ \A t \in Sources \ {s} : fetched'[t] = fetched[t]
  BY DEF TypeOK, Fresh

LEMMA OwnerKeepsStamps ==
  ASSUME TypeOK, StampInv, NEW p \in Procs, OwnerStep(p)
  PROVE  StampInv'
  <1> USE DEF files, history
  <1>0. /\ run \in Runs /\ clock \in Nat /\ shared \in Int
        /\ \A s \in Sources : own[s] \in Int /\ fetched[s] \in Int
    BY TimeTypes
  <1>1. CASE Skip(p)
    BY <1>0, <1>1, NextDecides, DecideKeepsStamps DEF Skip
  <1>2. CASE Fail(p)
    BY <1>0, <1>2, FailedType, NextDecides, DecideKeepsStamps DEF Fail
  <1>3. CASE StartReplace(p)
    <2>1. Here' = Here /\ run'.phase = "replacing"
      BY <1>0, <1>3, SameHere DEF StartReplace, Runs
    <2> QED BY <1>3, <2>1 DEF StartReplace, StampInv, InFlight, Honest
  <1>4. CASE EndReplace(p) \/ ClamUpdated(p)
    <2>1. Here' = Here /\ run'.phase = "mark"
      BY <1>0, <1>4, SameHere DEF EndReplace, ClamUpdated, Runs
    <2>2. Here \in Sources /\ Fresh(Here) /\ UNCHANGED <<own, shared, clock, steady>>
      BY <1>4 DEF EndReplace, ClamUpdated, AtSource
    <2>3. InFlight'
      BY <2>1, <2>2, FreshIsNow DEF InFlight
    <2>4. Honest'
      BY <1>0, <2>2, FreshIsNow DEF StampInv, Honest
    <2> QED BY <2>3, <2>4 DEF StampInv
  <1>5. CASE ReplaceFails(p)
    <2>1. run'.phase = "decide"
      BY <1>0, <1>5, FailedType, NextDecides DEF ReplaceFails
    <2>2. Here \in Sources /\ UNCHANGED <<own, shared, clock, steady>>
      BY <1>5 DEF ReplaceFails, AtSource
    <2>3. CASE UNCHANGED fetched
      BY <2>1, <2>2, <2>3 DEF StampInv, InFlight, Honest
    <2>4. CASE Fresh(Here)
      BY <1>0, <2>1, <2>2, <2>4, FreshIsNow DEF StampInv, InFlight, Honest
    <2> QED BY <1>5, <2>3, <2>4 DEF ReplaceFails
  <1>6. CASE Mark(p)
    <2>1. run'.phase = "decide"
      <3>1. PICK b \in BOOLEAN : run' = NextStep([run EXCEPT !.anySuccess = b])
        <4>1. (run.anySuccess \/ Here \in Keyed) \in BOOLEAN
          OBVIOUS
        <4> QED BY <1>6, <4>1 DEF Mark
      <3> QED BY <1>0, <3>1, RunTypes, NextDecides
    <2>2. /\ shared' \in {shared, clock} /\ Here \in Sources
          /\ own' = own \/ own' = [own EXCEPT ![Here] = clock]
          /\ UNCHANGED <<clock, steady, fetched>>
      BY <1>6 DEF Mark, AtSource
    <2>3. steady => fetched[Here] = clock
      BY <1>6 DEF Mark, StampInv, InFlight
    <2> QED BY <1>0, <2>1, <2>2, <2>3 DEF TypeOK, StampInv, InFlight, Honest
  <1>7. CASE EndPublic(p) \/ EndKeyed(p)
    <2>1. run'.phase = "decide"
      <3>1. CASE EndPublic(p)
        BY <1>0, <3>1, NextDecides DEF EndPublic
      <3>2. CASE EndKeyed(p)
        <4>1. [run EXCEPT !.anySuccess = FALSE] \in Runs
          BY <1>0, RunTypes
        <4> QED BY <3>2, <4>1, NextDecides DEF EndKeyed
      <3> QED BY <1>7, <3>1, <3>2
    <2>2. shared' \in {shared, clock} /\ UNCHANGED <<own, clock, steady, fetched>>
      BY <1>7 DEF EndPublic, EndKeyed
    <2> QED BY <1>0, <2>1, <2>2 DEF StampInv, InFlight, Honest
  <1>8. CASE Finish(p)
    BY <1>8, GuardKeepsStamps
  <1> QED BY <1>1, <1>2, <1>3, <1>4, <1>5, <1>6, <1>7, <1>8 DEF OwnerStep

LEMMA ClockKeepsStamps ==
  ASSUME TypeOK, StampInv, Tick \/ SetClockBack
  PROVE  StampInv'
  <1>0. /\ clock \in Nat /\ shared \in Int
        /\ \A s \in Sources : own[s] \in Int /\ fetched[s] \in Int
    BY TimeTypes
  <1>1. CASE Tick
    <2>1. Here' = Here /\ run' = run /\ run.phase # "mark"
      BY <1>1, SameHere DEF Tick
    <2>2. clock' = clock + 1 /\ UNCHANGED <<files, steady, fetched>>
      BY <1>1 DEF Tick, history
    <2> QED BY <1>0, <2>1, <2>2 DEF StampInv, InFlight, Honest, files
  <1>2. CASE SetClockBack
    <2>1. Here' = Here /\ run' = run /\ run.phase # "mark" /\ ~steady' /\ index' = index
      BY <1>2, SameHere DEF SetClockBack, files
    <2> QED BY <2>1 DEF StampInv, InFlight, Honest
  <1> QED BY <1>1, <1>2

-----------------------------------------------------------------------------
(* Retries. *)

(* The stamps that count for a source are old enough, or there is none.  A  *)
(* keyed source that has only the shared stamp is left out.                 *)
Lapsed(s) ==
  IF own[s] # NoTime THEN clock - own[s] >= Interval[s]
  ELSE s \in Public => shared = NoTime \/ clock - shared >= Interval[s]

(* A source that was due and failed has no index or lapsed stamps, also     *)
(* when an index that was moved away is moved back.  What keeps the shared  *)
(* stamp of the public sources old is all_ok: it is false when one of those *)
(* the run has passed is owed.                                              *)
RetryInv ==
  steady =>
    /\ \A s \in owed : s \in Feeds \ index \/ Lapsed(s)
    /\ run.phase = "replacing" /\ run.saved /\ Here \in owed => Lapsed(Here)
    /\ owed \cap Public # {} => dir = "public"
    /\ dir = "public" =>
         \A i \in 1 .. Len(PublicOrder) :
           i < run.at /\ PublicOrder[i] \in owed => ~run.allOk

LEMMA DueLapsed ==
  ASSUME TypeOK, NEW s \in Sources
  PROVE  /\ Due(s) => Lapsed(s)
         /\ Lapsed(s) => Due(s) \/ (s \in Keyed /\ own[s] = NoTime)
  <1>1. clock \in Nat /\ shared \in Int /\ own[s] \in Int /\ Interval[s] \in Nat \ {0}
    BY TimeTypes, ClockTypes
  <1> QED BY <1>1 DEF Due, Age, Stamp, Lapsed, NoTime

(* Time passes, and the shared stamp is written for other sources only. *)
LEMMA LapsedKept ==
  ASSUME TypeOK, TypeOK', NEW s \in Sources, Lapsed(s), own'[s] = own[s], clock' >= clock,
         shared' = shared \/ s \notin Public
  PROVE  Lapsed(s)'
  <1>1. /\ clock \in Nat /\ shared \in Int /\ own[s] \in Int /\ Interval[s] \in Nat \ {0}
        /\ clock' \in Nat /\ shared' \in Int
    <2>1. clock' \in Nat /\ shared' \in Int
      BY ClockTypes DEF TypeOK, NoTime
    <2> QED BY <2>1, TimeTypes, ClockTypes
  <1> QED BY <1>1 DEF Lapsed, NoTime

-----------------------------------------------------------------------------
(* Where in the plan a run is. *)

LEMMA Names ==
  /\ PublicOrder \in Seq(STRING)
  /\ \A s \in Public : s \notin Keyed /\ s \notin {"youslist", "clamav", "public end", "keyed end", "compat", "end"}
  <1>1. PublicOrder \in Seq(STRING)
    BY DbUpdateAssumption, Zenon
  <1>2. Public \cap (Keyed \cup {"youslist", "clamav", "public end", "keyed end", "compat", "end"}) = {}
    BY DbUpdateAssumption, Zenon
  <1> QED BY <1>1, <1>2

LEMMA PublicFeeds ==
  /\ Len(PublicOrder) \in Nat
  /\ \A i \in 1 .. Len(PublicOrder) : i \in Nat /\ ~(i < 1) /\ PublicOrder[i] \in Public
  <1>1. PublicOrder \in Seq(STRING)
    BY Names
  <1>2. Len(PublicOrder) \in Nat
    BY <1>1
  <1>3. \A i \in 1 .. Len(PublicOrder) : PublicOrder[i] \in Public
    BY <1>1 DEF Public
  <1> QED BY <1>2, <1>3

LEMMA RunAt == TypeOK => run.at \in Nat \ {0} /\ run.at \in Nat
  BY DEF TypeOK, Runs

(* A list with one more element. *)
LEMMA Extended ==
  ASSUME NEW S, NEW q \in Seq(S), NEW e \in S
  PROVE  /\ Len(q) \in Nat
         /\ Len(q \o <<e>>) = Len(q) + 1
         /\ \A i \in 1 .. Len(q) : (q \o <<e>>)[i] = q[i]
         /\ (q \o <<e>>)[Len(q) + 1] = e
  OBVIOUS

LEMMA Widened == ASSUME NEW S, NEW R, NEW q \in Seq(S) PROVE q \in Seq(S \cup R)
  OBVIOUS

LEMMA PublicPlan ==
  ASSUME dir = "public"
  PROVE  /\ Len(PublicOrder) \in Nat
         /\ Len(Plan) = Len(PublicOrder) + 1
         /\ \A i \in 1 .. Len(PublicOrder) : Plan[i] = PublicOrder[i]
         /\ Plan[Len(PublicOrder) + 1] = "public end"
  <1> DEFINE S == STRING \cup {"public end"}
  <1>1. Plan = PublicOrder \o <<"public end">>
    BY DEF Plan, Order
  <1>2. PublicOrder \in Seq(S)
    BY Names, Widened, Zenon
  <1>3. "public end" \in S
    OBVIOUS
  <1> HIDE DEF S
  <1> QED BY <1>1, <1>2, <1>3, Extended

(* Before, at, or after the step that follows the n feeds. *)
LEMMA Position ==
  ASSUME NEW n \in Nat, NEW a \in Nat, a # 0
  PROVE  /\ a \in 1 .. n \/ a = n + 1 \/ a > n + 1
         /\ a \in 1 .. n => ~(a > n + 1) /\ ~(a > n) /\ a <= n + 1
         /\ a = n + 1 => a > n /\ a \notin 1 .. n /\ ~(a > n + 1)
         /\ a > n + 1 => a > n /\ a \notin 1 .. n /\ ~(a <= n + 1)
  OBVIOUS

LEMMA PlanPublic ==
  ASSUME TypeOK, dir = "public"
  PROVE  /\ run.at \in 1 .. Len(PublicOrder) => Here = PublicOrder[run.at] /\ Here \in Public
         /\ Here = "public end" => run.at > Len(PublicOrder)
         /\ Here \in Public => run.at \in 1 .. Len(PublicOrder)
         /\ run.at <= Len(Plan) => Plan[run.at] # "compat"
         /\ Here # "keyed end"
  <1> DEFINE a == run.at
             n == Len(PublicOrder)
  <1>1. n \in Nat /\ a \in Nat /\ a # 0 /\ Len(Plan) = n + 1
    BY PublicPlan, RunAt
  <1>2. /\ \A i \in 1 .. n : Plan[i] = PublicOrder[i] /\ PublicOrder[i] \in Public
        /\ Plan[n + 1] = "public end"
    BY PublicFeeds, PublicPlan
  <1>3. \A s \in Public : s # "compat" /\ s # "public end" /\ s # "keyed end" /\ s # "end"
    BY Names
  <1>0. Here = IF a > n + 1 THEN "end" ELSE IF Plan[a] = "compat" THEN "threatfox" ELSE Plan[a]
    BY <1>1 DEF Here
  <1> HIDE DEF a, n
  <1>4. CASE a \in 1 .. n
    <2>1. Here = PublicOrder[a] /\ Here \in Public /\ Plan[a] # "compat"
      BY <1>0, <1>1, <1>2, <1>3, <1>4, Position
    <2> QED BY <1>1, <1>3, <1>4, <2>1, Position DEF a, n
  <1>5. CASE a = n + 1
    <2>1. Here = "public end" /\ Plan[a] # "compat"
      BY <1>0, <1>1, <1>2, <1>5, Position
    <2>2. Here \notin Public /\ a > n /\ a \notin 1 .. n
      BY <1>1, <1>3, <1>5, <2>1, Position
    <2> QED BY <2>1, <2>2 DEF a, n
  <1>6. CASE a > n + 1
    <2>1. Here = "end" /\ Here \notin Public
      BY <1>0, <1>3, <1>6
    <2>2. a > n /\ a \notin 1 .. n /\ ~(a <= Len(Plan))
      BY <1>1, <1>6, Position
    <2> QED BY <2>1, <2>2 DEF a, n
  <1> QED BY <1>1, <1>4, <1>5, <1>6, Position

LEMMA PlanOther ==
  ASSUME TypeOK, dir # "public"
  PROVE  Here \notin Public /\ Here # "public end"
  <1>1. run.at \in Nat /\ run.at # 0
    BY RunAt
  <1>2. dir = "keyed" \/ dir = "regional" \/ dir = "clamav"
    BY DEF TypeOK, Order
  <1>3. CASE dir = "keyed"
    <2>1. Plan = <<"threatfox", "urlhaus", "keyed end", "compat">>
      BY <1>3 DEF Plan, Order
    <2>2. Len(Plan) = 4 /\ Plan[1] = "threatfox" /\ Plan[2] = "urlhaus" /\ Plan[3] = "keyed end" /\ Plan[4] = "compat"
      BY <2>1
    <2>3. run.at > 4 \/ run.at = 1 \/ run.at = 2 \/ run.at = 3 \/ run.at = 4
      BY <1>1
    <2>4. Here \in {"threatfox", "urlhaus", "keyed end", "end"}
      BY <2>2, <2>3 DEF Here
    <2> QED BY <2>4, Names DEF Keyed
  <1>4. CASE dir = "regional" \/ dir = "clamav"
    <2>1. PICK e \in {"youslist", "clamav"} : Plan = <<e>>
      <3>1. CASE dir = "regional"
        BY <3>1 DEF Plan, Order
      <3>2. CASE dir = "clamav"
        BY <3>2 DEF Plan, Order
      <3> QED BY <1>4, <3>1, <3>2
    <2>2. Len(Plan) = 1 /\ Plan[1] = e
      BY <2>1
    <2>3. run.at > 1 \/ run.at = 1
      BY <1>1
    <2>4. Here \in {e, "end"}
      BY <2>1, <2>2, <2>3 DEF Here
    <2> QED BY <2>1, <2>4, Names
  <1> QED BY <1>2, <1>3, <1>4

-----------------------------------------------------------------------------
LEMMA PlanLength == ASSUME TypeOK PROVE Len(Plan) \in Nat
  <1>1. CASE dir = "public"
    <2>1. Len(PublicOrder) + 1 \in Nat
      BY PublicFeeds
    <2> QED BY <1>1, <2>1, PublicPlan
  <1>2. CASE dir = "keyed"
    BY <1>2 DEF Plan, Order
  <1>3. CASE dir = "regional"
    BY <1>3 DEF Plan, Order
  <1>4. CASE dir = "clamav"
    BY <1>4 DEF Plan, Order
  <1>5. dir \in {"public", "keyed", "regional", "clamav"}
    BY DEF TypeOK, Order
  <1> QED BY <1>1, <1>2, <1>3, <1>4, <1>5

LEMMA InitRetry == Init => RetryInv
  BY DEF Init, RetryInv

LEMMA GuardKeepsRetry ==
  ASSUME TypeOK, RetryInv, NEW p \in Procs,
         Enter(p) \/ Refused(p) \/ CloseRefused(p) \/ Finish(p) \/ Kill(p)
  PROVE  RetryInv'
  <1> USE DEF files, history
  <1>0. \A i \in 1 .. Len(PublicOrder) : ~(i < 1)
    BY PublicFeeds
  <1>1. CASE run'.at = 1 /\ run'.phase = "decide" /\ UNCHANGED <<dir, files, clock, history>>
    BY <1>0, <1>1 DEF RetryInv, Lapsed
  <1>2. CASE UNCHANGED <<dir, run, files, clock, history>>
    <2>1. Here' = Here
      BY <1>2, SameHere
    <2> QED BY <1>2, <2>1 DEF RetryInv, Lapsed
  <1>3. CASE Enter(p)
    <2>1. PICK f, k \in BOOLEAN : run' = [NoRun EXCEPT !.force = f, !.key = k]
      BY <1>3 DEF Enter
    <2>2. run'.at = 1 /\ run'.phase = "decide"
      BY <2>1 DEF NoRun
    <2> QED BY <1>1, <1>3, <2>2 DEF Enter
  <1>4. CASE run' = NoRun /\ UNCHANGED <<dir, files, clock, history>>
    BY <1>1, <1>4 DEF NoRun
  <1> QED BY <1>2, <1>3, <1>4 DEF Refused, CloseRefused, Finish, Kill

(* A step to the next decision that owes at most its own source, and that   *)
(* one only after a failure.                                                *)
LEMMA NextKeepsPublic ==
  ASSUME TypeOK, RetryInv, StampInv, steady, steady',
         dir' = dir, run'.at = run.at + 1,
         owed' \subseteq owed \cup {Here},
         run'.allOk => run.allOk /\ ~(Here \in owed' /\ Here \in Public)
  PROVE  /\ owed' \cap Public # {} => dir' = "public"
         /\ dir' = "public" =>
              \A i \in 1 .. Len(PublicOrder) :
                i < run'.at /\ PublicOrder[i] \in owed' => ~run'.allOk
  <1>1. owed' \cap Public # {} => dir' = "public"
    BY PlanOther DEF RetryInv
  <1>2. ASSUME dir = "public", NEW i \in 1 .. Len(PublicOrder), i < run.at + 1,
               PublicOrder[i] \in owed', run'.allOk
        PROVE  FALSE
    <2>1. i \in Nat /\ run.at \in Nat
      BY PublicFeeds, RunAt
    <2>2. CASE i = run.at
      <3>1. Here = PublicOrder[i] /\ Here \in Public
        BY <1>2, <2>2, PlanPublic
      <3> QED BY <1>2, <3>1
    <2>3. CASE i < run.at
      <3>1. PublicOrder[i] \notin owed
        BY <1>2, <2>3 DEF RetryInv
      <3>2. PublicOrder[i] = Here
        BY <1>2, <3>1
      <3>3. Here \in Public
        BY <3>2, PublicFeeds
      <3> QED BY <1>2, <3>2, <3>3
    <2> QED BY <1>2, <2>1, <2>2, <2>3
  <1> QED BY <1>1, <1>2

(* A failure of a public source is remembered in all_ok. *)
LEMMA FailedStep ==
  ASSUME run \in Runs, NEW s, run' = NextStep(Failed(s))
  PROVE  /\ run'.phase = "decide" /\ run'.at = run.at + 1
         /\ run'.allOk => run.allOk /\ s \notin Public
  <1>1. Failed(s) \in Runs /\ Failed(s).at = run.at /\ (Failed(s).allOk => run.allOk /\ s \notin Public)
    <2>1. Failed(s) \in Runs
      BY FailedType
    <2>2. Failed(s).at = run.at /\ (Failed(s).allOk <=> (run.allOk /\ s \notin Public))
      BY DEF Failed, Runs
    <2> QED BY <2>1, <2>2
  <1> QED BY <1>1, NextDecides

LEMMA SkipKeepsRetry ==
  ASSUME TypeOK, RetryInv, StampInv, NEW p \in Procs, Skip(p)
  PROVE  RetryInv'
  <1> SUFFICES ASSUME steady, steady' PROVE RetryInv'
    BY DEF Skip, history, RetryInv
  <1> USE DEF files, history
  <1>1. /\ run' = NextStep(run) /\ run \in Runs /\ Here \in Sources
        /\ UNCHANGED <<dir, index, own, shared, clock, steady, owed>>
    BY DEF Skip, AtSource, TypeOK
  <1>2. run'.phase = "decide" /\ run'.at = run.at + 1 /\ run'.allOk = run.allOk
    BY <1>1, NextDecides
  <1>3. Here \in Public => Here \notin owed
    <2> SUFFICES ASSUME Here \in Public, Here \in owed PROVE FALSE
      OBVIOUS
    <2>1. Here \notin Keyed /\ Here # "clamav" /\ dir = "public"
      BY Names, PlanOther
    <2>2. Possible /\ Called
      <3>1. run.at <= Len(Plan)
        <4>1. run.at \in 1 .. Len(PublicOrder) /\ Len(Plan) = Len(PublicOrder) + 1
          BY <2>1, PlanPublic, PublicPlan
        <4> QED BY <4>1, PublicFeeds, RunAt
      <3> QED BY <2>1, <3>1, PlanPublic DEF Possible, Called
    <2>3. Stale(Here)
      <3>1. Here \in Feeds \ index \/ Lapsed(Here)
        BY DEF RetryInv
      <3> QED BY <1>1, <2>1, <3>1, DueLapsed DEF Stale, Missing
    <2> QED BY <2>1, <2>2, <2>3 DEF Skip, Wanted
  <1>4. \A s \in owed' : s \in Feeds \ index' \/ Lapsed(s)'
    BY <1>1 DEF RetryInv, Lapsed
  <1>5. /\ owed' \cap Public # {} => dir' = "public"
        /\ dir' = "public" =>
             \A i \in 1 .. Len(PublicOrder) :
               i < run'.at /\ PublicOrder[i] \in owed' => ~run'.allOk
    BY <1>1, <1>2, <1>3, NextKeepsPublic
  <1> QED BY <1>2, <1>4, <1>5 DEF RetryInv

LEMMA FailKeepsRetry ==
  ASSUME TypeOK, RetryInv, StampInv, NEW p \in Procs, Fail(p)
  PROVE  RetryInv'
  <1> SUFFICES ASSUME steady, steady' PROVE RetryInv'
    BY DEF Fail, RetryInv
  <1> USE DEF files
  <1>1. /\ run' = NextStep(Failed(Here)) /\ run \in Runs /\ Here \in Sources
        /\ UNCHANGED <<dir, index, own, shared, clock, steady>>
        /\ owed' = IF Stale(Here) THEN owed \cup {Here} ELSE owed
    BY DEF Fail, AtSource, TypeOK, Owes
  <1>2. /\ run'.phase = "decide" /\ run'.at = run.at + 1
        /\ run'.allOk => run.allOk /\ Here \notin Public
    BY <1>1, FailedStep
  <1>3. \A s \in owed' : s \in Feeds \ index' \/ Lapsed(s)'
    <2>1. Stale(Here) => Here \in Feeds \ index \/ Lapsed(Here)
      BY <1>1, DueLapsed DEF Stale, Missing
    <2> QED BY <1>1, <2>1 DEF RetryInv, Lapsed
  <1>4. owed' \subseteq owed \cup {Here}
    BY <1>1
  <1>5. /\ owed' \cap Public # {} => dir' = "public"
        /\ dir' = "public" =>
             \A i \in 1 .. Len(PublicOrder) :
               i < run'.at /\ PublicOrder[i] \in owed' => ~run'.allOk
    BY <1>1, <1>2, <1>4, NextKeepsPublic
  <1> QED BY <1>2, <1>3, <1>5 DEF RetryInv

LEMMA StartKeepsRetry ==
  ASSUME TypeOK, RetryInv, StampInv, NEW p \in Procs, StartReplace(p)
  PROVE  RetryInv'
  <1> SUFFICES ASSUME steady, steady' PROVE RetryInv'
    BY DEF StartReplace, history, RetryInv
  <1> USE DEF files, history
  <1>1. /\ run \in Runs /\ Here \in Feeds
        /\ run' = [run EXCEPT !.phase = "replacing", !.saved = Here \in index]
        /\ index' = index \ {Here}
        /\ UNCHANGED <<dir, own, shared, clock, steady, owed>>
    BY DEF StartReplace, TypeOK
  <1>2. run'.at = run.at /\ run'.allOk = run.allOk /\ (run'.saved <=> Here \in index)
    BY <1>1 DEF Runs
  <1>3. Here' = Here
    BY <1>1, <1>2, SameHere
  <1> QED BY <1>1, <1>2, <1>3 DEF RetryInv, Lapsed

LEMMA FreshKeepsRetry ==
  ASSUME TypeOK, RetryInv, StampInv, NEW p \in Procs, EndReplace(p) \/ ClamUpdated(p)
  PROVE  RetryInv'
  <1> SUFFICES ASSUME steady, steady' PROVE RetryInv'
    BY DEF EndReplace, ClamUpdated, RetryInv
  <1> USE DEF files
  <1>1. /\ run \in Runs /\ Here \in Sources
        /\ index' = index \/ index' = index \cup {Here}
        /\ owed' = owed \ {Here}
        /\ UNCHANGED <<dir, own, shared, clock, steady>>
    BY DEF EndReplace, ClamUpdated, AtSource, TypeOK, Fresh
  <1>2. run'.at = run.at /\ run'.allOk = run.allOk /\ run'.phase = "mark"
    BY <1>1 DEF EndReplace, ClamUpdated, Runs
  <1> QED BY <1>1, <1>2 DEF RetryInv, Lapsed

LEMMA ReplaceFailsKeepsRetry ==
  ASSUME TypeOK, RetryInv, StampInv, NEW p \in Procs, ReplaceFails(p)
  PROVE  RetryInv'
  <1> SUFFICES ASSUME steady, steady' PROVE RetryInv'
    BY DEF ReplaceFails, RetryInv
  <1> USE DEF files
  <1>1. /\ run' = NextStep(Failed(Here)) /\ run \in Runs /\ Here \in Sources
        /\ run.phase = "replacing" /\ Here \in Feeds \ index
        /\ UNCHANGED <<dir, own, shared, clock, steady>>
    BY DEF ReplaceFails, AtSource, TypeOK, StampInv, InFlight
  <1>2. /\ run'.phase = "decide" /\ run'.at = run.at + 1
        /\ run'.allOk => run.allOk /\ Here \notin Public
    BY <1>1, FailedStep
  <1>3. /\ owed' \subseteq owed \cup {Here}
        /\ \A s \in owed' : s \in Feeds \ index' \/ Lapsed(s)'
    <2>1. CASE run.saved /\ index' = index \cup {Here} /\ Owes(Here, Due(Here))
      <3>1. Here \in owed \/ Due(Here) => Lapsed(Here)
        BY <1>1, <2>1, DueLapsed DEF RetryInv
      <3> QED BY <1>1, <2>1, <3>1 DEF RetryInv, Lapsed, Owes
    <2>2. CASE Owes(Here, TRUE) /\ index' = index
      BY <1>1, <2>2 DEF RetryInv, Lapsed, Owes
    <2>3. CASE index' = index \cup {Here} /\ Fresh(Here)
      BY <1>1, <2>3 DEF RetryInv, Lapsed, Fresh
    <2> QED BY <2>1, <2>2, <2>3 DEF ReplaceFails
  <1>4. /\ owed' \cap Public # {} => dir' = "public"
        /\ dir' = "public" =>
             \A i \in 1 .. Len(PublicOrder) :
               i < run'.at /\ PublicOrder[i] \in owed' => ~run'.allOk
    BY <1>1, <1>2, <1>3, NextKeepsPublic
  <1> QED BY <1>2, <1>3, <1>4 DEF RetryInv

(* The three steps that write a stamp. *)
LEMMA StampKeepsRetry ==
  ASSUME TypeOK, TypeOK', RetryInv, StampInv,
         NEW p \in Procs, Mark(p) \/ EndPublic(p) \/ EndKeyed(p)
  PROVE  RetryInv'
  <1> SUFFICES ASSUME steady, steady' PROVE RetryInv'
    BY DEF Mark, EndPublic, EndKeyed, history, RetryInv
  <1> USE DEF files, history
  <1>1. run \in Runs /\ UNCHANGED <<dir, index, clock, steady, owed>>
    BY DEF Mark, EndPublic, EndKeyed, TypeOK
  <1>2. run'.phase = "decide" /\ run'.at = run.at + 1 /\ run'.allOk = run.allOk
    <2>1. \E b \in BOOLEAN : run' = NextStep([run EXCEPT !.anySuccess = b])
      <3>1. CASE Mark(p)
        <4>1. (run.anySuccess \/ Here \in Keyed) \in BOOLEAN
          OBVIOUS
        <4> QED BY <3>1, <4>1 DEF Mark
      <3>2. CASE EndPublic(p)
        <4>1. run = [run EXCEPT !.anySuccess = run.anySuccess] /\ run.anySuccess \in BOOLEAN
          BY <1>1 DEF Runs
        <4> QED BY <3>2, <4>1, Zenon DEF EndPublic
      <3>3. CASE EndKeyed(p)
        BY <3>3 DEF EndKeyed
      <3> QED BY <3>1, <3>2, <3>3
    <2>2. PICK b \in BOOLEAN : run' = NextStep([run EXCEPT !.anySuccess = b])
      BY <2>1
    <2>3. [run EXCEPT !.anySuccess = b] \in Runs
      BY <1>1, RunTypes
    <2>4. [run EXCEPT !.anySuccess = b].at = run.at /\ [run EXCEPT !.anySuccess = b].allOk = run.allOk
      BY <1>1 DEF Runs
    <2> QED BY <2>2, <2>3, <2>4, NextDecides
  <1>3. Here \notin owed \cap Public
    <2>1. Mark(p) => Here \notin owed
      BY DEF Mark, StampInv, InFlight
    <2>2. EndPublic(p) \/ EndKeyed(p) => Here \notin Public
      BY Names DEF EndPublic, EndKeyed
    <2> QED BY <2>1, <2>2
  <1>4. \A s \in owed : own'[s] = own[s] /\ (shared' = shared \/ s \notin Public)
    <2>1. CASE Mark(p)
      <3>1. Here \in Sources /\ Here \notin owed /\ (own' = own \/ own' = [own EXCEPT ![Here] = clock])
        BY <2>1 DEF Mark, AtSource, StampInv, InFlight
      <3>2. Here # "end"
        BY <3>1, Names DEF Sources, Feeds, Keyed
      <3>3. run.at <= Len(Plan)
        <4>1. run.at \in Nat /\ Len(Plan) \in Nat /\ ~(run.at > Len(Plan))
          <5>1. Len(Plan) \in Nat
            BY PlanLength
          <5> QED BY <3>2, <5>1, RunAt DEF Here
        <4> QED BY <4>1
      <3>4. dir = "public" => shared' = shared
        BY <2>1, <3>3, PlanPublic DEF Mark
      <3>5. \A s \in owed : own'[s] = own[s]
        BY <3>1 DEF TypeOK
      <3> QED BY <3>4, <3>5 DEF RetryInv
    <2>2. CASE EndPublic(p)
      <3>1. dir = "public" /\ run.at > Len(PublicOrder)
        BY <2>2, PlanOther, PlanPublic DEF EndPublic
      <3>2. run.allOk => owed \cap Public = {}
        <4> SUFFICES ASSUME run.allOk, NEW s \in owed \cap Public PROVE FALSE
          OBVIOUS
        <4>1. PICK i \in DOMAIN PublicOrder : s = PublicOrder[i]
          BY DEF Public
        <4>2. i \in 1 .. Len(PublicOrder)
          <5>1. PublicOrder \in Seq(STRING)
            BY Names
          <5> QED BY <5>1
        <4>3. i < run.at
          BY <3>1, <4>2, PublicFeeds, RunAt
        <4> QED BY <3>1, <4>1, <4>2, <4>3 DEF RetryInv
      <3>3. own' = own /\ (~run.allOk => shared' = shared)
        BY <2>2 DEF EndPublic
      <3> QED BY <3>2, <3>3
    <2>3. CASE EndKeyed(p)
      <3>1. dir # "public"
        BY <2>3, PlanPublic DEF EndKeyed
      <3> QED BY <2>3, <3>1 DEF EndKeyed, RetryInv
    <2> QED BY <2>1, <2>2, <2>3
  <1>5. \A s \in owed' : s \in Feeds \ index' \/ Lapsed(s)'
    <2> SUFFICES ASSUME NEW s \in owed, s \notin Feeds \ index PROVE Lapsed(s)'
      BY <1>1
    <2>1. Lapsed(s) /\ s \in Sources
      BY DEF RetryInv, TypeOK
    <2>2. clock' >= clock
      BY <1>1, TimeTypes
    <2> QED BY <1>4, <2>1, <2>2, LapsedKept
  <1>6. /\ owed' \cap Public # {} => dir' = "public"
        /\ dir' = "public" =>
             \A i \in 1 .. Len(PublicOrder) :
               i < run'.at /\ PublicOrder[i] \in owed' => ~run'.allOk
    BY <1>1, <1>2, <1>3, NextKeepsPublic
  <1> QED BY <1>2, <1>5, <1>6 DEF RetryInv

LEMMA ClockKeepsRetry ==
  ASSUME TypeOK, TypeOK', RetryInv, Tick \/ SetClockBack
  PROVE  RetryInv'
  <1>1. CASE Tick
    <2>1. clock' >= clock
      BY <1>1, TimeTypes DEF Tick
    <2>2. Here' = Here /\ UNCHANGED <<dir, run, files, history>>
      BY <1>1, SameHere DEF Tick
    <2>3. \A s \in Sources : Lapsed(s) => Lapsed(s)'
      BY <2>1, <2>2, LapsedKept DEF files
    <2>4. owed \subseteq Sources
      BY DEF TypeOK
    <2> QED BY <2>2, <2>3, <2>4 DEF RetryInv, files, history
  <1>2. CASE SetClockBack
    BY <1>2 DEF SetClockBack, RetryInv
  <1> QED BY <1>1, <1>2

-----------------------------------------------------------------------------
IInv == TypeOK /\ Exclusive /\ StampInv /\ RetryInv

LEMMA InitIInv == Init => IInv
  BY InitType, InitExclusive, InitStampInv, InitRetry DEF IInv

LEMMA NextIInv == IInv /\ [Next]_vars => IInv'
  <1> SUFFICES ASSUME IInv, [Next]_vars PROVE IInv'
    OBVIOUS
  <1>1. TypeOK /\ Exclusive /\ StampInv /\ RetryInv /\ InFlight /\ Exclusive'
    BY NextExclusive DEF IInv, StampInv
  <1>2. CASE UNCHANGED vars
    <2>1. Here' = Here
      BY <1>2, SameHere DEF vars
    <2>2. TypeOK' /\ StampInv' /\ RetryInv'
      BY <1>1, <1>2, <2>1
      DEF vars, files, history, TypeOK, StampInv, InFlight, Honest, RetryInv, Lapsed
    <2> QED BY <1>1, <2>2 DEF IInv
  <1>3. CASE Tick \/ SetClockBack
    BY <1>1, <1>3, ClockType, ClockKeepsStamps, ClockKeepsRetry DEF IInv
  <1>4. ASSUME NEW p \in Procs,
               Enter(p) \/ Refused(p) \/ CloseRefused(p) \/ Finish(p) \/ Kill(p)
        PROVE  IInv'
    BY <1>1, <1>4, GuardType, GuardKeepsStamps, GuardKeepsRetry DEF IInv
  <1>5. ASSUME NEW p \in Procs, OwnerStep(p) PROVE IInv'
    <2>1. TypeOK' /\ StampInv'
      BY <1>1, <1>5, OwnerType, OwnerKeepsStamps
    <2>2. RetryInv'
      BY <1>1, <1>5, <2>1, GuardKeepsRetry, SkipKeepsRetry, FailKeepsRetry, StartKeepsRetry,
         FreshKeepsRetry, ReplaceFailsKeepsRetry, StampKeepsRetry DEF OwnerStep
    <2> QED BY <1>1, <2>1, <2>2 DEF IInv
  <1> QED BY <1>2, <1>3, <1>4, <1>5 DEF Next

LEMMA Invariance == Spec => []IInv
  BY InitIInv, NextIInv, PTL DEF Spec

(* The variables keep their types. *)
THEOREM TypeCorrect == Spec => []TypeOK
  <1>1. IInv => TypeOK
    BY DEF IInv
  <1> QED BY <1>1, Invariance, PTL

(* However many processes call update_all, are refused, killed and started  *)
(* again, at most one of them updates (data_update.rs:29-37, 83-94).        *)
THEOREM SingleUpdate == Spec => []AtMostOneUpdate
  <1>1. IInv => AtMostOneUpdate
    BY DEF IInv, Exclusive
  <1> QED BY <1>1, Invariance, PTL

(* A source's own stamp is never newer than the index it is about, whatever *)
(* fails and whenever the process is killed (intel.rs:71-90, 163-165).      *)
THEOREM StampsAreHonest == Spec => []StampHonest
  <1>1. IInv => StampHonest
    BY DEF IInv, StampInv, Honest, StampHonest
  <1> QED BY <1>1, Invariance, PTL

(* A failed source that was due is refreshed by the next run, whatever the  *)
(* list of public feeds and the intervals are: the shared stamp is not      *)
(* written as long as a public source is owed (intel.rs:93-104).            *)
THEOREM FailuresAreRetried == Spec => []FailedIsRetried
  <1>1. IInv => FailedIsRetried
    <2> SUFFICES ASSUME IInv, steady, NEW s \in owed
                 PROVE  Stale(s) \/ (s \in Keyed \cap index /\ own[s] = NoTime)
      BY DEF FailedIsRetried
    <2>1. s \in Sources /\ (s \in Feeds \ index \/ Lapsed(s))
      BY DEF IInv, RetryInv, TypeOK
    <2>2. CASE s \in Feeds \ index
      BY <2>2 DEF Stale, Missing
    <2>3. CASE Lapsed(s) /\ s \notin Feeds \ index
      <3>1. Due(s) \/ (s \in Keyed /\ own[s] = NoTime)
        BY <2>1, <2>3, DueLapsed DEF IInv
      <3>2. s \in Keyed => s \in index
        BY <2>3, FeedTypes
      <3> QED BY <3>1, <3>2 DEF Stale
    <2> QED BY <2>1, <2>2, <2>3
  <1> QED BY <1>1, Invariance, PTL
=============================================================================

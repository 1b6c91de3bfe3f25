--------------------------- MODULE FeedIndexProofs ---------------------------
(***************************************************************************)
(* Proofs about FeedIndex for every list of feeds, every hash function,    *)
(* every set of hosts and lists and every length of the files.             *)
(***************************************************************************)
EXTENDS FeedIndex, TLAPS

(* Every file is sorted, the open one, too. *)
AllSorted == Sorted(open) /\ \A f \in FeedSet : Sorted(records[f])

(* The records outside of the interval are not the one that is sought. *)
Bracket ==
  pc = "search" =>
    \A i \in 1 .. Len(open) : (i <= low => open[i] < Target) /\ (i > high => open[i] > Target)

(* What is read has been there since the call. *)
SeenIsRead ==
  /\ \A f \in present : Recs(records[f]) \subseteq seen[f]
  /\ pc = "search" => Recs(open) \subseteq seen[Here]

(* A complete index has the hash of everything that is meant to be in it,   *)
(* and a feed that was left alone is read as it is.                         *)
CalmIsComplete ==
  /\ \A f \in FeedSet : \A d \in listed[f] : d \in Domains => Hash(d) \in Recs(records[f])
  /\ pc = "search" /\ Here \in calm => open = records[Here]

(* The parent number k has been looked up in the feed number i. *)
Done(k, i) == pc = "idle" \/ k < start \/ (k = start /\ i < feed)

(* What has been looked up in a feed that was left alone is a hit if it is  *)
(* listed.                                                                  *)
DoneIsHit ==
  \A k \in 1 .. Len(host) - 1 : \A i \in 1 .. Len(Feeds) :
    Done(k, i) /\ Feeds[i] \in calm \cap present /\ Parent(host, k) \in listed[Feeds[i]] =>
      \E n \in DOMAIN hits : hits[n] = <<Feeds[i], Parent(host, k)>>

IInv ==
  /\ TypeOK
  /\ AllSorted
  /\ Bracket
  /\ SeenIsRead
  /\ CalmIsComplete
  /\ HitsAreListed
  /\ DoneIsHit

-----------------------------------------------------------------------------
(* Data. *)

LEMMA FeedNumbers ==
  /\ Len(Feeds) \in Nat \ {0}
  /\ \A i \in 1 .. Len(Feeds) : Feeds[i] \in FeedSet
  /\ \A f \in FeedSet : \E i \in 1 .. Len(Feeds) : f = Feeds[i]
  BY FeedIndexAssumption DEF FeedSet

LEMMA HostParents ==
  ASSUME NEW h \in Hosts
  PROVE  /\ Len(h) \in Nat /\ Len(h) >= 2
         /\ \A k \in 1 .. Len(h) - 1 : Parent(h, k) \in Domains /\ Hash(Parent(h, k)) \in Nat
  <1>1. Len(h) \in Nat /\ Len(h) >= 2 /\ \A k \in 1 .. Len(h) - 1 : Parent(h, k) \in Domains
    BY FeedIndexAssumption, Zenon
  <1>2. \A d \in Domains : Hash(d) \in Nat
    BY FeedIndexAssumption, Zenon
  <1> QED BY <1>1, <1>2, Zenon

LEMMA FilesAreSequences ==
  ASSUME NEW s \in Files
  PROVE  /\ Len(s) \in Nat /\ Len(s) <= MaxRecords
         /\ DOMAIN s = 1 .. Len(s)
         /\ \A i \in 1 .. Len(s) : s[i] \in Hashes /\ s[i] \in Nat
  <1>1. PICK n \in 0 .. MaxRecords : s \in [1 .. n -> Hashes]
    BY DEF Files
  <1>2. n \in Nat /\ n <= MaxRecords
    BY <1>1, FeedIndexAssumption
  <1>3. Len(s) = n
    BY <1>1, <1>2
  <1>4. Hashes \subseteq Nat
    BY FeedIndexAssumption DEF Hashes
  <1> QED BY <1>1, <1>2, <1>3, <1>4

LEMMA EmptyFile == <<>> \in Files /\ Sorted(<<>>) /\ Recs(<<>>) = {}
  <1>1. <<>> \in [1 .. 0 -> Hashes] /\ 0 \in 0 .. MaxRecords
    BY FeedIndexAssumption
  <1>2. Sorted(<<>>) /\ Recs(<<>>) = {}
    BY DEF Sorted, Recs
  <1> QED BY <1>1, <1>2 DEF Files

(* The first records of an index. *)
LEMMA Prefix ==
  ASSUME NEW s \in Files, Sorted(s), NEW n \in 0 .. Len(s)
  PROVE  /\ SubSeq(s, 1, n) \in Files
         /\ Sorted(SubSeq(s, 1, n))
         /\ n = Len(s) => Recs(SubSeq(s, 1, n)) = {s[i] : i \in DOMAIN s}
  <1> DEFINE t == SubSeq(s, 1, n)
  <1>1. Len(s) \in Nat /\ DOMAIN s = 1 .. Len(s) /\ (\A i \in 1 .. Len(s) : s[i] \in Hashes) /\ Len(s) <= MaxRecords
    BY FilesAreSequences
  <1>2. n \in Nat /\ n <= Len(s) /\ MaxRecords \in Nat
    BY <1>1, FeedIndexAssumption
  <1>3. t = [i \in 1 .. n |-> s[i]]
    BY <1>1, <1>2
  <1> HIDE DEF t
  <1>4. t \in [1 .. n -> Hashes] /\ n \in 0 .. MaxRecords
    BY <1>1, <1>2, <1>3
  <1>5. t \in Files
    BY <1>4 DEF Files
  <1>6. Sorted(t)
    BY <1>1, <1>2, <1>3 DEF Sorted
  <1>7. n = Len(s) => Recs(t) = {s[i] : i \in DOMAIN s}
    BY <1>1, <1>3 DEF Recs
  <1> QED BY <1>5, <1>6, <1>7 DEF t

(* The tokens of a line that are taken are at least the domains in front of *)
(* a comment (intel.rs:183-217).                                            *)
LEMMA MeantIsListed == ASSUME NEW list \in Lists PROVE Meant(list) \subseteq Listed(list)
  <1> SUFFICES ASSUME NEW line \in list, NEW j \in DOMAIN line, line[j].kind = "domain",
                      "comment" \notin {line[c].kind : c \in 1 .. j}
               PROVE  line[j].name \in DomainsFromLine(line)
    BY DEF Meant, Listed
  <1>1. DOMAIN line = 1 .. Len(line) /\ Len(line) \in Nat
    BY FeedIndexAssumption, Zenon
  <1>2. j \in Nat /\ 1 <= j /\ j <= Len(line)
    BY <1>1
  <1>3. j \in Start(line) .. Len(line)
    <2>1. j = 1 => Start(line) = 1
      BY DEF Start
    <2>2. Start(line) = 1 \/ Start(line) = 2
      BY DEF Start
    <2> QED BY <1>2, <2>1, <2>2
  <1>4. \A c \in 1 .. j - 1 : line[c].kind # "comment"
    BY <1>2
  <1> QED BY <1>3, <1>4 DEF DomainsFromLine

LEMMA MeantAreDomains == ASSUME NEW list \in Lists PROVE Meant(list) \subseteq Domains
  <1> SUFFICES ASSUME NEW line \in list, NEW j \in DOMAIN line, line[j].kind = "domain"
               PROVE  line[j].name \in Domains
    BY DEF Meant
  <1> QED BY FeedIndexAssumption, Zenon

(* What an update installs: a sorted file, complete if it is all there.     *)
LEMMA Installed ==
  ASSUME NEW list \in Lists, NEW whole \in Indexes[list], NEW n \in 0 .. Len(whole)
  PROVE  /\ SubSeq(whole, 1, n) \in Files /\ Sorted(SubSeq(whole, 1, n))
         /\ n = Len(whole) => \A d \in Meant(list) : Hash(d) \in Recs(SubSeq(whole, 1, n))
  <1>1. whole \in Files /\ Sorted(whole) /\ {whole[i] : i \in DOMAIN whole} = {Hash(d) : d \in Listed(list)}
    BY DEF Indexes, IsIndexOf
  <1>2. \A d \in Meant(list) : Hash(d) \in {whole[i] : i \in DOMAIN whole}
    BY <1>1, MeantIsListed
  <1> QED BY <1>1, <1>2, Prefix

(* The middle of an interval that is not empty is in it and halves it. *)
LEMMA Halves ==
  ASSUME NEW a \in Nat, NEW b \in Nat, a < b
  PROVE  LET m == a + (b - a) \div 2
         IN  /\ m \in Nat /\ a <= m /\ m < b
             /\ 2 * (b - (m + 1)) <= b - a /\ 2 * (m - a) <= b - a
  <1> DEFINE d == b - a
  <1>1. d \in Nat /\ d > 0 /\ b = a + d
    OBVIOUS
  <1>2. /\ d \div 2 \in Nat /\ 2 * (d \div 2) <= d /\ d < 2 * (d \div 2) + 2
    BY <1>1
  <1> QED BY <1>1, <1>2

-----------------------------------------------------------------------------
LEMMA InitIInv == Init => IInv
  <1> SUFFICES ASSUME Init PROVE IInv
    OBVIOUS
  <1>1. /\ present = {} /\ pc = "idle" /\ host \in Hosts /\ start = 1 /\ feed = 1
        /\ open = <<>> /\ low = 0 /\ high = 0 /\ hits = <<>> /\ calm = {}
        /\ records = [f \in FeedSet |-> <<>>] /\ listed = [f \in FeedSet |-> {}]
        /\ seen = [f \in FeedSet |-> {}]
    BY DEF Init
  <1>2. 1 \in 1 .. Len(host) - 1 /\ 1 \in DOMAIN Feeds
    BY <1>1, HostParents, FeedIndexAssumption
  <1>3. Len(<<>>) = 0 /\ DOMAIN <<>> = {} /\ hits \in Seq(Pairs)
    BY <1>1
  <1>4. TypeOK
    BY <1>1, <1>2, <1>3, EmptyFile DEF TypeOK
  <1>5. AllSorted /\ Bracket /\ SeenIsRead /\ CalmIsComplete /\ DoneIsHit
    BY <1>1, EmptyFile DEF AllSorted, Bracket, SeenIsRead, CalmIsComplete, DoneIsHit
  <1>6. HitsAreListed
    BY <1>1, <1>3 DEF HitsAreListed
  <1> QED BY <1>4, <1>5, <1>6 DEF IInv

(* What a step of the lookup is about. *)
LEMMA Position ==
  ASSUME TypeOK
  PROVE  /\ Len(host) \in Nat /\ start \in Nat /\ 1 <= start /\ start <= Len(host) - 1
         /\ Len(Feeds) \in Nat /\ feed \in Nat /\ 1 <= feed /\ feed <= Len(Feeds)
         /\ Here \in FeedSet /\ Candidate \in Domains /\ Target \in Nat
         /\ <<Here, Candidate>> \in Pairs
  <1>1. Len(host) \in Nat /\ start \in 1 .. Len(host) - 1 /\ host \in Hosts
    BY HostParents DEF TypeOK
  <1>2. start \in Nat /\ 1 <= start /\ start <= Len(host) - 1
    BY <1>1
  <1>3. Len(Feeds) \in Nat /\ feed \in 1 .. Len(Feeds)
    BY FeedIndexAssumption DEF TypeOK
  <1>4. Here \in FeedSet
    BY <1>3, FeedNumbers DEF Here
  <1>5. Candidate \in Domains /\ Target \in Nat
    BY <1>1, HostParents DEF Candidate, Target
  <1> QED BY <1>1, <1>2, <1>3, <1>4, <1>5 DEF Pairs

(* The file that is open, and the interval in it. *)
LEMMA Interval ==
  ASSUME TypeOK
  PROVE  /\ Len(open) \in Nat /\ DOMAIN open = 1 .. Len(open)
         /\ \A i \in 1 .. Len(open) : open[i] \in Nat
         /\ low \in Nat /\ high \in Nat /\ low <= high /\ high <= Len(open)
  <1>1. Len(open) \in Nat /\ DOMAIN open = 1 .. Len(open) /\ \A i \in 1 .. Len(open) : open[i] \in Nat
    BY FilesAreSequences DEF TypeOK
  <1>2. low \in 0 .. Len(open) /\ high \in low .. Len(open)
    BY DEF TypeOK
  <1> QED BY <1>1, <1>2

(* The record in the middle. *)
LEMMA MiddleIsRead ==
  ASSUME TypeOK, low < high
  PROVE  /\ Middle \in Nat /\ low <= Middle /\ Middle < high
         /\ Middle + 1 \in 1 .. Len(open) /\ Read = open[Middle + 1] /\ Read \in Recs(open)
         /\ 2 * (high - (Middle + 1)) <= high - low /\ 2 * (Middle - low) <= high - low
  <1>1. /\ Middle \in Nat /\ low <= Middle /\ Middle < high
        /\ 2 * (high - (Middle + 1)) <= high - low /\ 2 * (Middle - low) <= high - low
    BY Interval, Halves DEF Middle
  <1>2. Middle + 1 \in 1 .. Len(open)
    BY <1>1, Interval
  <1> QED BY <1>1, <1>2, Interval DEF Read, Recs

(* Where Advance goes, and what has been looked up there. *)
LEMMA AdvanceGoes ==
  ASSUME TypeOK, Advance, host' = host
  PROVE  /\ pc' \in {"open", "idle"} /\ open' = <<>> /\ low' = 0 /\ high' = 0
         /\ start' \in 1 .. Len(host) - 1 /\ feed' \in DOMAIN Feeds
         /\ \A k \in 1 .. Len(host) - 1 : \A i \in 1 .. Len(Feeds) :
              Done(k, i)' => Done(k, i) \/ (k = start /\ i = feed)
  <1>0. DOMAIN Feeds = 1 .. Len(Feeds)
    BY FeedIndexAssumption
  <1>1. CASE feed < Len(Feeds)
    <2>1. start' = start /\ feed' = feed + 1 /\ pc' = "open" /\ open' = <<>> /\ low' = 0 /\ high' = 0
      BY <1>1 DEF Advance
    <2> QED BY <1>0, <1>1, <2>1, Position DEF Done
  <1>2. CASE ~(feed < Len(Feeds)) /\ start < Len(host) - 1
    <2>1. start' = start + 1 /\ feed' = 1 /\ pc' = "open" /\ open' = <<>> /\ low' = 0 /\ high' = 0
      BY <1>2 DEF Advance
    <2> QED BY <1>0, <1>2, <2>1, Position DEF Done
  <1>3. CASE ~(feed < Len(Feeds)) /\ ~(start < Len(host) - 1)
    <2>1. start' = start /\ feed' = feed /\ pc' = "idle" /\ open' = <<>> /\ low' = 0 /\ high' = 0
      BY <1>3 DEF Advance
    <2> QED BY <1>0, <1>3, <2>1, Position DEF Done
  <1> QED BY <1>1, <1>2, <1>3

-----------------------------------------------------------------------------
(* A step that ends the search in one index: with a hit, with a miss in a   *)
(* complete index, or without an index that was left alone.                 *)
LEMMA AdvanceIInv ==
  ASSUME IInv, Advance, pc # "idle",
         UNCHANGED <<present, records, host, listed, seen>>, calm' \subseteq calm,
         \/ hits' = hits
         \/ hits' = Append(hits, <<Here, Candidate>>) /\ Target \in seen[Here],
         Here \in calm' \cap present /\ Candidate \in listed[Here] =>
           hits' = Append(hits, <<Here, Candidate>>)
  PROVE  IInv'
  <1>1. TypeOK /\ AllSorted /\ SeenIsRead /\ CalmIsComplete /\ HitsAreListed /\ DoneIsHit
    BY DEF IInv
  <1>2. /\ pc' \in {"open", "idle"} /\ open' = <<>> /\ low' = 0 /\ high' = 0
        /\ start' \in 1 .. Len(host) - 1 /\ feed' \in DOMAIN Feeds
        /\ \A k \in 1 .. Len(host) - 1 : \A i \in 1 .. Len(Feeds) :
             Done(k, i)' => Done(k, i) \/ (k = start /\ i = feed)
    BY <1>1, AdvanceGoes
  <1>3. hits \in Seq(Pairs) /\ <<Here, Candidate>> \in Pairs
    BY <1>1, Position DEF TypeOK
  <1>4. /\ hits' \in Seq(Pairs)
        /\ \A n \in DOMAIN hits : n \in DOMAIN hits' /\ hits'[n] = hits[n]
        /\ hits' # hits => \E n \in DOMAIN hits' : hits'[n] = <<Here, Candidate>>
        /\ \A n \in DOMAIN hits' : n \in DOMAIN hits \/ hits'[n] = <<Here, Candidate>>
        /\ hits' = Append(hits, <<Here, Candidate>>) => \E n \in DOMAIN hits' : hits'[n] = <<Here, Candidate>>
    <2>1. CASE hits' = hits
      <3>1. hits # Append(hits, <<Here, Candidate>>)
        BY <1>3
      <3> QED BY <1>3, <2>1, <3>1
    <2>2. CASE hits' = Append(hits, <<Here, Candidate>>)
      <3>1. /\ Len(hits) \in Nat /\ Len(hits') = Len(hits) + 1 /\ hits' \in Seq(Pairs)
            /\ DOMAIN hits = 1 .. Len(hits) /\ DOMAIN hits' = 1 .. Len(hits) + 1
            /\ hits'[Len(hits) + 1] = <<Here, Candidate>>
            /\ \A n \in 1 .. Len(hits) : hits'[n] = hits[n]
        BY <1>3, <2>2
      <3>2. Len(hits) + 1 \in DOMAIN hits' /\ \A n \in DOMAIN hits' : n \in DOMAIN hits \/ n = Len(hits) + 1
        BY <3>1
      <3>3. \A n \in DOMAIN hits : n \in DOMAIN hits'
        BY <3>1
      <3> QED BY <3>1, <3>2, <3>3
    <2> QED BY <2>1, <2>2
  <1>5. TypeOK'
    <2>1. calm' \in SUBSET FeedSet
      BY <1>1 DEF TypeOK
    <2>2. low' \in 0 .. Len(open') /\ high' \in low' .. Len(open')
      BY <1>2
    <2> QED BY <1>1, <1>2, <1>4, <2>1, <2>2, EmptyFile DEF TypeOK
  <1>6. AllSorted' /\ Bracket' /\ SeenIsRead' /\ CalmIsComplete'
    BY <1>1, <1>2, EmptyFile DEF AllSorted, Bracket, SeenIsRead, CalmIsComplete
  <1>7. HitsAreListed'
    <2> SUFFICES ASSUME NEW n \in DOMAIN hits' PROVE Hash(hits'[n][2]) \in seen[hits'[n][1]]
      BY DEF HitsAreListed
    <2>1. CASE n \in DOMAIN hits
      BY <1>1, <1>4, <2>1 DEF HitsAreListed
    <2>2. CASE n \notin DOMAIN hits
      <3>1. hits'[n] = <<Here, Candidate>> /\ hits' # hits
        BY <1>4, <2>2
      <3>2. Target \in seen[Here]
        BY <3>1
      <3> QED BY <3>1, <3>2 DEF Target
    <2> QED BY <2>1, <2>2
  <1>8. DoneIsHit'
    <2> SUFFICES ASSUME NEW k \in 1 .. Len(host) - 1, NEW i \in 1 .. Len(Feeds), Done(k, i)',
                        Feeds[i] \in calm' \cap present, Parent(host, k) \in listed[Feeds[i]]
                 PROVE  \E n \in DOMAIN hits' : hits'[n] = <<Feeds[i], Parent(host, k)>>
      BY DEF DoneIsHit
    <2>1. CASE Done(k, i)
      <3>1. PICK n \in DOMAIN hits : hits[n] = <<Feeds[i], Parent(host, k)>>
        BY <1>1, <2>1 DEF DoneIsHit
      <3> QED BY <1>4, <3>1
    <2>2. CASE k = start /\ i = feed
      <3>1. Feeds[i] = Here /\ Parent(host, k) = Candidate
        BY <2>2 DEF Here, Candidate
      <3> QED BY <1>4, <3>1
    <2> QED BY <1>2, <2>1, <2>2
  <1> QED BY <1>5, <1>6, <1>7, <1>8 DEF IInv

LEMMA CallIInv == ASSUME IInv, Call PROVE IInv'
  <1>1. TypeOK /\ AllSorted /\ CalmIsComplete
    BY DEF IInv
  <1>2. /\ host' \in Hosts /\ pc' = "open" /\ start' = 1 /\ feed' = 1 /\ hits' = <<>> /\ calm' = FeedSet
        /\ seen' = [f \in FeedSet |-> IF f \in present THEN Recs(records[f]) ELSE {}]
        /\ UNCHANGED <<present, records, open, low, high, listed>>
    BY DEF Call
  <1>3. 1 \in 1 .. Len(host') - 1 /\ 1 \in DOMAIN Feeds
    BY <1>2, HostParents, FeedIndexAssumption
  <1>4. hits' \in Seq(Pairs) /\ DOMAIN hits' = {}
    BY <1>2
  <1>5. seen' \in [FeedSet -> SUBSET Hashes]
    <2>1. \A f \in FeedSet : Recs(records[f]) \subseteq Hashes
      <3> SUFFICES ASSUME NEW f \in FeedSet PROVE Recs(records[f]) \subseteq Hashes
        OBVIOUS
      <3>1. records[f] \in Files
        BY <1>1 DEF TypeOK
      <3> QED BY <3>1, FilesAreSequences DEF Recs
    <2> QED BY <1>2, <2>1
  <1>6. TypeOK'
    BY <1>1, <1>2, <1>3, <1>4, <1>5 DEF TypeOK
  <1>7. AllSorted' /\ Bracket' /\ CalmIsComplete'
    BY <1>1, <1>2 DEF AllSorted, Bracket, CalmIsComplete
  <1>8. SeenIsRead'
    <2>1. present \subseteq FeedSet
      BY <1>1 DEF TypeOK
    <2> QED BY <1>2, <2>1 DEF SeenIsRead
  <1>9. HitsAreListed'
    BY <1>4 DEF HitsAreListed
  <1>10. DoneIsHit'
    <2> SUFFICES ASSUME NEW k \in 1 .. Len(host') - 1, NEW i \in 1 .. Len(Feeds), Done(k, i)'
                 PROVE  FALSE
      BY DEF DoneIsHit
    <2>1. Len(host') \in Nat /\ Len(Feeds) \in Nat
      BY <1>2, HostParents, FeedNumbers
    <2> QED BY <1>2, <2>1 DEF Done
  <1> QED BY <1>6, <1>7, <1>8, <1>9, <1>10 DEF IInv

LEMMA OpenIndexIInv == ASSUME IInv, OpenIndex PROVE IInv'
  <1>1. TypeOK /\ AllSorted /\ SeenIsRead /\ CalmIsComplete /\ HitsAreListed /\ DoneIsHit
    BY DEF IInv
  <1>2. /\ pc = "open" /\ Here \in present /\ open' = records[Here] /\ low' = 0
        /\ high' = Len(records[Here]) /\ pc' = "search"
        /\ UNCHANGED <<present, records, host, start, feed, hits, listed, calm, seen>>
    BY DEF OpenIndex
  <1>3. Here \in FeedSet /\ Here' = Here /\ Candidate' = Candidate /\ Target' = Target
    BY <1>1, <1>2, Position DEF Here, Candidate, Target
  <1>4. open' \in Files /\ Sorted(open')
    BY <1>1, <1>2, <1>3 DEF TypeOK, AllSorted
  <1>5. Len(open') \in Nat
    BY <1>4, FilesAreSequences
  <1>6. TypeOK'
    <2>1. low' \in 0 .. Len(open') /\ high' \in low' .. Len(open')
      BY <1>2, <1>5
    <2> QED BY <1>1, <1>2, <1>4, <2>1 DEF TypeOK
  <1>7. AllSorted'
    BY <1>1, <1>2, <1>4 DEF AllSorted
  <1>8. Bracket'
    BY <1>2, <1>5 DEF Bracket
  <1>9. SeenIsRead' /\ CalmIsComplete' /\ HitsAreListed'
    BY <1>1, <1>2, <1>3 DEF SeenIsRead, CalmIsComplete, HitsAreListed
  <1>10. DoneIsHit'
    BY <1>1, <1>2 DEF DoneIsHit, Done
  <1> QED BY <1>6, <1>7, <1>8, <1>9, <1>10 DEF IInv

(* A step of the binary search: the interval shrinks, nothing else changes. *)
LEMMA SearchIInv ==
  ASSUME IInv, pc = "search", Bracket', low' \in 0 .. Len(open), high' \in low' .. Len(open),
         UNCHANGED <<present, records, pc, host, start, feed, open, hits, listed, calm, seen>>
  PROVE  IInv'
  <1>1. TypeOK /\ AllSorted /\ SeenIsRead /\ CalmIsComplete /\ HitsAreListed /\ DoneIsHit
    BY DEF IInv
  <1>2. TypeOK'
    BY <1>1 DEF TypeOK
  <1>3. AllSorted' /\ SeenIsRead' /\ CalmIsComplete' /\ HitsAreListed'
    BY <1>1 DEF AllSorted, SeenIsRead, CalmIsComplete, HitsAreListed, Here
  <1>4. DoneIsHit'
    BY <1>1 DEF DoneIsHit, Done
  <1> QED BY <1>2, <1>3, <1>4 DEF IInv

LEMMA GoRightIInv == ASSUME IInv, GoRight PROVE IInv'
  <1>1. TypeOK /\ Sorted(open) /\ Bracket
    BY DEF IInv, AllSorted
  <1>2. /\ pc = "search" /\ low < high /\ Read < Target /\ low' = Middle + 1
        /\ UNCHANGED <<present, records, pc, host, start, feed, open, high, hits, listed, calm, seen>>
    BY DEF GoRight
  <1>3. Target' = Target /\ Target \in Nat
    BY <1>1, <1>2, Position DEF Target, Candidate
  <1>4. Bracket'
    <2> SUFFICES ASSUME NEW i \in 1 .. Len(open)
                 PROVE  (i <= low' => open[i] < Target) /\ (i > high => open[i] > Target)
      BY <1>2, <1>3 DEF Bracket
    <2>1. i > high => open[i] > Target
      BY <1>1, <1>2 DEF Bracket
    <2>2. /\ Middle + 1 \in 1 .. Len(open) /\ open[Middle + 1] < Target /\ Middle \in Nat
          /\ DOMAIN open = 1 .. Len(open) /\ open[i] \in Nat /\ open[Middle + 1] \in Nat /\ Len(open) \in Nat
      BY <1>1, <1>2, MiddleIsRead, Interval
    <2>3. i < Middle + 1 => open[i] < open[Middle + 1]
      BY <1>1, <2>2 DEF Sorted
    <2>4. i <= low' => open[i] < Target
      BY <1>2, <1>3, <2>2, <2>3
    <2> QED BY <2>1, <2>4
  <1>5. low' \in 0 .. Len(open) /\ high' \in low' .. Len(open)
    BY <1>1, <1>2, MiddleIsRead, Interval
  <1> QED BY <1>2, <1>4, <1>5, SearchIInv

LEMMA GoLeftIInv == ASSUME IInv, GoLeft PROVE IInv'
  <1>1. TypeOK /\ Sorted(open) /\ Bracket
    BY DEF IInv, AllSorted
  <1>2. /\ pc = "search" /\ low < high /\ Read > Target /\ high' = Middle
        /\ UNCHANGED <<present, records, pc, host, start, feed, open, low, hits, listed, calm, seen>>
    BY DEF GoLeft
  <1>3. Target' = Target /\ Target \in Nat
    BY <1>1, <1>2, Position DEF Target, Candidate
  <1>4. Bracket'
    <2> SUFFICES ASSUME NEW i \in 1 .. Len(open)
                 PROVE  (i <= low => open[i] < Target) /\ (i > high' => open[i] > Target)
      BY <1>2, <1>3 DEF Bracket
    <2>1. i <= low => open[i] < Target
      BY <1>1, <1>2 DEF Bracket
    <2>2. /\ Middle + 1 \in 1 .. Len(open) /\ open[Middle + 1] > Target /\ Middle \in Nat
          /\ DOMAIN open = 1 .. Len(open) /\ open[i] \in Nat /\ open[Middle + 1] \in Nat /\ Len(open) \in Nat
      BY <1>1, <1>2, MiddleIsRead, Interval
    <2>3. Middle + 1 < i => open[Middle + 1] < open[i]
      BY <1>1, <2>2 DEF Sorted
    <2>4. i > high' => open[i] > Target
      BY <1>2, <1>3, <2>2, <2>3
    <2> QED BY <2>1, <2>4
  <1>5. low' \in 0 .. Len(open) /\ high' \in low' .. Len(open)
    BY <1>1, <1>2, MiddleIsRead, Interval
  <1> QED BY <1>2, <1>4, <1>5, SearchIInv

(* The bracket around nothing: what is sought is nowhere in the file. *)
LEMMA EmptyIntervalIsAbsence ==
  ASSUME TypeOK, Bracket, pc = "search", low = high
  PROVE  Target \notin Recs(open)
  <1> SUFFICES ASSUME NEW i \in 1 .. Len(open), open[i] = Target PROVE FALSE
    BY Interval DEF Recs
  <1>1. open[i] \in Nat /\ low \in Nat /\ i \in Nat
    BY Interval
  <1>2. (i <= low => open[i] < Target) /\ (i > low => open[i] > Target)
    BY DEF Bracket
  <1> QED BY <1>1, <1>2

LEMMA OpenFailsIInv == ASSUME IInv, OpenFails PROVE IInv'
  BY AdvanceIInv DEF OpenFails

LEMMA ReadFailsIInv == ASSUME IInv, ReadFails PROVE IInv'
  <1>1. Advance /\ pc # "idle" /\ calm' = calm \ {Here} /\ hits' = hits
        /\ UNCHANGED <<present, records, host, listed, seen>>
    BY DEF ReadFails
  <1>2. calm' \subseteq calm /\ Here \notin calm'
    BY <1>1
  <1> QED BY <1>1, <1>2, AdvanceIInv

LEMMA MissIInv == ASSUME IInv, Miss PROVE IInv'
  <1>1. TypeOK /\ Bracket /\ CalmIsComplete
    BY DEF IInv
  <1>2. /\ pc = "search" /\ low = high /\ Advance
        /\ UNCHANGED <<present, records, host, hits, listed, calm, seen>>
    BY DEF Miss
  <1>3. Target \notin Recs(open)
    BY <1>1, <1>2, EmptyIntervalIsAbsence
  <1>4. Here \in FeedSet /\ Candidate \in Domains
    BY <1>1, Position
  <1>5. ~(Here \in calm /\ Candidate \in listed[Here])
    <2> SUFFICES ASSUME Here \in calm, Candidate \in listed[Here] PROVE FALSE
      OBVIOUS
    <2>1. open = records[Here] /\ Hash(Candidate) \in Recs(records[Here])
      BY <1>1, <1>2, <1>4 DEF CalmIsComplete
    <2> QED BY <1>3, <2>1 DEF Target
  <1> QED BY <1>2, <1>5, AdvanceIInv

LEMMA HitIInv == ASSUME IInv, Hit PROVE IInv'
  <1>1. TypeOK /\ SeenIsRead
    BY DEF IInv
  <1>2. /\ pc = "search" /\ low < high /\ Read = Target /\ Advance
        /\ hits' = Append(hits, <<Here, Candidate>>)
        /\ UNCHANGED <<present, records, host, listed, calm, seen>>
    BY DEF Hit
  <1>3. Target \in seen[Here]
    BY <1>1, <1>2, MiddleIsRead DEF SeenIsRead
  <1> QED BY <1>2, <1>3, AdvanceIInv

LEMMA MoveAwayIInv == ASSUME IInv, NEW f \in FeedSet, MoveAway(f) PROVE IInv'
  <1>1. TypeOK /\ AllSorted /\ Bracket /\ SeenIsRead /\ CalmIsComplete /\ HitsAreListed /\ DoneIsHit
    BY DEF IInv
  <1>2. /\ present' = present \ {f} /\ calm' = calm \ {f}
        /\ UNCHANGED <<records, pc, host, start, feed, open, low, high, hits, listed, seen>>
    BY DEF MoveAway, search
  <1>3. TypeOK'
    <2>1. present' \in SUBSET FeedSet /\ calm' \in SUBSET FeedSet
      BY <1>1, <1>2 DEF TypeOK
    <2> QED BY <1>1, <1>2, <2>1 DEF TypeOK
  <1>4. AllSorted' /\ Bracket' /\ SeenIsRead' /\ CalmIsComplete' /\ HitsAreListed'
    BY <1>1, <1>2 DEF AllSorted, Bracket, SeenIsRead, CalmIsComplete, HitsAreListed, Here, Candidate, Target
  <1>5. DoneIsHit'
    BY <1>1, <1>2 DEF DoneIsHit, Done
  <1> QED BY <1>3, <1>4, <1>5 DEF IInv

LEMMA PutIInv == ASSUME IInv, NEW f \in FeedSet, Put(f) PROVE IInv'
  <1>1. TypeOK /\ AllSorted /\ Bracket /\ SeenIsRead /\ CalmIsComplete /\ HitsAreListed /\ DoneIsHit
    BY DEF IInv
  <1>2. /\ f \notin present /\ present' = present \cup {f} /\ calm' = calm \ {f}
        /\ seen' = [seen EXCEPT ![f] = @ \cup Recs(records'[f])]
        /\ UNCHANGED <<pc, host, start, feed, open, low, high, hits>>
    BY DEF Put, search
  <1>3. PICK list \in Lists : \E whole \in Indexes[list] : \E n \in 0 .. Len(whole) :
          /\ records' = [records EXCEPT ![f] = SubSeq(whole, 1, n)]
          /\ listed' = [listed EXCEPT ![f] = IF n = Len(whole) THEN Meant(list) ELSE {}]
    BY DEF Put
  <1>3a. PICK whole \in Indexes[list] : \E n \in 0 .. Len(whole) :
          /\ records' = [records EXCEPT ![f] = SubSeq(whole, 1, n)]
          /\ listed' = [listed EXCEPT ![f] = IF n = Len(whole) THEN Meant(list) ELSE {}]
    BY <1>3
  <1>4. PICK n \in 0 .. Len(whole) :
          /\ records' = [records EXCEPT ![f] = SubSeq(whole, 1, n)]
          /\ listed' = [listed EXCEPT ![f] = IF n = Len(whole) THEN Meant(list) ELSE {}]
    BY <1>3a
  <1> DEFINE new == SubSeq(whole, 1, n)
             now == IF n = Len(whole) THEN Meant(list) ELSE {}
  <1>5. new \in Files /\ Sorted(new) /\ now \subseteq Domains /\ \A d \in now : Hash(d) \in Recs(new)
    BY Installed, MeantAreDomains
  <1> HIDE DEF new, now
  <1>6. records' = [records EXCEPT ![f] = new] /\ listed' = [listed EXCEPT ![f] = now]
    BY <1>4 DEF new, now
  <1>7. records \in [FeedSet -> Files] /\ listed \in [FeedSet -> SUBSET Domains] /\ seen \in [FeedSet -> SUBSET Hashes]
    BY <1>1 DEF TypeOK
  <1>8. /\ records' \in [FeedSet -> Files] /\ records'[f] = new
        /\ \A g \in FeedSet \ {f} : records'[g] = records[g]
        /\ listed' \in [FeedSet -> SUBSET Domains] /\ listed'[f] = now
        /\ \A g \in FeedSet \ {f} : listed'[g] = listed[g]
    BY <1>5, <1>6, <1>7
  <1>9. Recs(new) \subseteq Hashes
    BY <1>5, FilesAreSequences DEF Recs
  <1>10. /\ seen' \in [FeedSet -> SUBSET Hashes] /\ seen'[f] = seen[f] \cup Recs(new)
         /\ \A g \in FeedSet \ {f} : seen'[g] = seen[g]
    BY <1>2, <1>7, <1>8, <1>9
  <1>11. TypeOK'
    <2>1. present' \in SUBSET FeedSet /\ calm' \in SUBSET FeedSet
      BY <1>1, <1>2 DEF TypeOK
    <2> QED BY <1>1, <1>2, <1>8, <1>10, <2>1 DEF TypeOK
  <1>12. AllSorted'
    BY <1>1, <1>2, <1>5, <1>8 DEF AllSorted
  <1>13. Bracket'
    BY <1>1, <1>2 DEF Bracket, Target, Candidate
  <1>14. Here' = Here /\ Here \in FeedSet
    BY <1>1, <1>2, Position DEF Here
  <1>15. SeenIsRead'
    <2>1. \A g \in present' : Recs(records'[g]) \subseteq seen'[g]
      <3> SUFFICES ASSUME NEW g \in present' PROVE Recs(records'[g]) \subseteq seen'[g]
        OBVIOUS
      <3>1. CASE g = f
        BY <1>8, <1>10, <3>1
      <3>2. CASE g # f
        <4>1. g \in present /\ g \in FeedSet
          BY <1>1, <1>2, <3>2 DEF TypeOK
        <4> QED BY <1>1, <1>8, <1>10, <3>2, <4>1 DEF SeenIsRead
      <3> QED BY <3>1, <3>2
    <2>2. pc = "search" => Recs(open) \subseteq seen'[Here]
      BY <1>1, <1>10, <1>14 DEF SeenIsRead
    <2>3. Recs(open') = Recs(open) /\ pc' = pc
      BY <1>2
    <2> QED BY <1>14, <2>1, <2>2, <2>3 DEF SeenIsRead
  <1>16. CalmIsComplete'
    <2>1. \A g \in FeedSet : \A d \in listed'[g] : d \in Domains => Hash(d) \in Recs(records'[g])
      BY <1>1, <1>5, <1>8 DEF CalmIsComplete
    <2>2. pc = "search" /\ Here \in calm' => open = records'[Here]
      BY <1>1, <1>2, <1>8, <1>14 DEF CalmIsComplete
    <2> QED BY <1>2, <1>14, <2>1, <2>2 DEF CalmIsComplete
  <1>17. HitsAreListed'
    <2> SUFFICES ASSUME NEW nr \in DOMAIN hits PROVE Hash(hits[nr][2]) \in seen'[hits[nr][1]]
      BY <1>2 DEF HitsAreListed
    <2>1. hits \in Seq(Pairs)
      BY <1>1 DEF TypeOK
    <2>2. hits[nr] \in Pairs
      BY <2>1
    <2>3. hits[nr][1] \in FeedSet
      BY <2>2 DEF Pairs
    <2>4. Hash(hits[nr][2]) \in seen[hits[nr][1]]
      BY <1>1 DEF HitsAreListed
    <2>5. \A g \in FeedSet : seen[g] \subseteq seen'[g]
      BY <1>10
    <2> QED BY <2>3, <2>4, <2>5
  <1>18. DoneIsHit'
    <2> SUFFICES ASSUME NEW k \in 1 .. Len(host) - 1, NEW i \in 1 .. Len(Feeds), Done(k, i),
                        Feeds[i] \in calm' \cap present', Parent(host, k) \in listed'[Feeds[i]]
                 PROVE  \E m \in DOMAIN hits : hits[m] = <<Feeds[i], Parent(host, k)>>
      BY <1>2 DEF DoneIsHit, Done
    <2>1. Feeds[i] \in FeedSet \ {f} /\ Feeds[i] \in calm \cap present
      BY <1>2, FeedNumbers
    <2>2. Parent(host, k) \in listed[Feeds[i]]
      BY <1>8, <2>1
    <2> QED BY <1>1, <2>1, <2>2 DEF DoneIsHit
  <1> QED BY <1>11, <1>12, <1>13, <1>15, <1>16, <1>17, <1>18 DEF IInv

LEMMA NextIInv == IInv /\ [Next]_vars => IInv'
  <1> SUFFICES ASSUME IInv, [Next]_vars PROVE IInv'
    OBVIOUS
  <1>1. CASE Call
    BY <1>1, CallIInv
  <1>2. CASE OpenIndex
    BY <1>2, OpenIndexIInv
  <1>3. CASE OpenFails
    BY <1>3, OpenFailsIInv
  <1>4. CASE GoRight
    BY <1>4, GoRightIInv
  <1>5. CASE GoLeft
    BY <1>5, GoLeftIInv
  <1>6. CASE Hit
    BY <1>6, HitIInv
  <1>7. CASE Miss
    BY <1>7, MissIInv
  <1>8. CASE ReadFails
    BY <1>8, ReadFailsIInv
  <1>9. CASE \E f \in FeedSet : MoveAway(f)
    BY <1>9, MoveAwayIInv
  <1>10. CASE \E f \in FeedSet : Put(f)
    BY <1>10, PutIInv
  <1>11. CASE UNCHANGED vars
    <2>1. TypeOK /\ AllSorted /\ Bracket /\ SeenIsRead /\ CalmIsComplete /\ HitsAreListed /\ DoneIsHit
      BY DEF IInv
    <2>2. UNCHANGED <<present, records, pc, host, start, feed, open, low, high, hits, listed, calm, seen>>
      BY <1>11 DEF vars, search
    <2>3. TypeOK'
      BY <2>1, <2>2 DEF TypeOK
    <2>4. AllSorted' /\ Bracket' /\ SeenIsRead' /\ CalmIsComplete' /\ HitsAreListed'
      BY <2>1, <2>2 DEF AllSorted, Bracket, SeenIsRead, CalmIsComplete, HitsAreListed, Here, Candidate, Target
    <2>5. DoneIsHit'
      BY <2>1, <2>2 DEF DoneIsHit, Done
    <2> QED BY <2>3, <2>4, <2>5 DEF IInv
  <1> QED BY <1>1, <1>2, <1>3, <1>4, <1>5, <1>6, <1>7, <1>8, <1>9, <1>10, <1>11 DEF Next, LookupStep

LEMMA Invariance == Spec => []IInv
  BY InitIInv, NextIInv, PTL DEF Spec

-----------------------------------------------------------------------------
(* The variables have their types: the interval of a search lies in the     *)
(* open file, whatever is done to the files (intel.rs:237-257).             *)
THEOREM TypeCorrect == Spec => []TypeOK
  <1>1. IInv => TypeOK
    BY DEF IInv
  <1> QED BY <1>1, Invariance, PTL

(* The binary search says no only to what is not in the file, for every     *)
(* file an update can install (intel.rs:237-257).                           *)
THEOREM MissesAreAbsent == Spec => []MissIsAbsence
  <1>1. IInv => MissIsAbsence
    BY EmptyIntervalIsAbsence DEF IInv, MissIsAbsence
  <1> QED BY <1>1, Invariance, PTL

(* A lookup reports exactly what is listed, up to equal hashes and feeds    *)
(* that are replaced during it (intel.rs:129-149).                          *)
THEOREM HitsAreExactly == Spec => []HitsAreExact
  <1>1. IInv => HitsAreExact
    <2> SUFFICES ASSUME IInv PROVE HitsAreListed /\ ListedIsHit
      BY DEF HitsAreExact
    <2>1. HitsAreListed /\ DoneIsHit /\ TypeOK
      BY DEF IInv
    <2>2. ListedIsHit
      <3> SUFFICES ASSUME pc = "idle", NEW f \in calm \cap present, NEW k \in 1 .. Len(host) - 1,
                          Parent(host, k) \in listed[f]
                   PROVE  \E n \in DOMAIN hits : hits[n] = <<f, Parent(host, k)>>
        BY DEF ListedIsHit
      <3>1. f \in FeedSet
        BY <2>1 DEF TypeOK
      <3>2. PICK i \in 1 .. Len(Feeds) : f = Feeds[i]
        BY <3>1, FeedNumbers
      <3> QED BY <2>1, <3>2 DEF DoneIsHit, Done
    <2> QED BY <2>1, <2>2
  <1> QED BY <1>1, Invariance, PTL

(* Every read halves what is left to search at least (intel.rs:246-257).    *)
THEOREM SearchIsFast == Spec => SearchHalves
  <1>1. IInv /\ [Next]_vars =>
          [pc = "search" /\ pc' = "search" /\ search' # search => 2 * (high' - low') <= high - low]_vars
    <2> SUFFICES ASSUME IInv, Next, pc = "search", pc' = "search", search' # search
                 PROVE  2 * (high' - low') <= high - low
      OBVIOUS
    <2>1. TypeOK
      BY DEF IInv
    <2>2. CASE GoRight
      <3>1. low < high /\ low' = Middle + 1 /\ high' = high
        BY <2>2 DEF GoRight
      <3> QED BY <2>1, <3>1, MiddleIsRead
    <2>3. CASE GoLeft
      <3>1. low < high /\ low' = low /\ high' = Middle
        BY <2>3 DEF GoLeft
      <3> QED BY <2>1, <3>1, MiddleIsRead
    <2>4. CASE Hit \/ Miss \/ ReadFails
      <3>1. Advance /\ host' = host
        BY <2>4 DEF Hit, Miss, ReadFails
      <3> QED BY <2>1, <3>1, AdvanceGoes
    <2>5. CASE Call \/ OpenIndex \/ OpenFails
      BY <2>5 DEF Call, OpenIndex, OpenFails
    <2>6. CASE \E f \in FeedSet : MoveAway(f) \/ Put(f)
      BY <2>6 DEF MoveAway, Put
    <2> QED BY <2>2, <2>3, <2>4, <2>5, <2>6 DEF Next, LookupStep
  <1> QED BY <1>1, Invariance, PTL DEF Spec, SearchHalves
=============================================================================

----------------------------- MODULE FeedIndex -----------------------------
(***************************************************************************)
(* The index files of the feeds and lookup_domain of src/src/intel.rs,     *)
(* which keyed_intel.rs and regional_intel.rs repeat: an index is the      *)
(* sorted list of the hashes of the listed domains, and a scan asks for a  *)
(* host and all its parent domains in every index by a binary search in    *)
(* the file.                                                               *)
(*                                                                         *)
(* A scan does not take the mutex of the update: while it looks up a host, *)
(* another process may move an index away, put a new one there or, where   *)
(* a rename is refused, copy it record by record (InstallFile).  A file    *)
(* that is open stays what it was for the one who opened it; a copy only   *)
(* grows.                                                                  *)
(*                                                                         *)
(* The lookup of regional_intel.rs has one index and stops at the first    *)
(* parent that is listed; the others, which are modelled, go through all   *)
(* parents.                                                                *)
(*                                                                         *)
(* A domain is its sequence of labels; a token of a list that is no domain *)
(* (normalize_domain returns None) is of the kind "ip" or "junk".          *)
(***************************************************************************)
EXTENDS Integers, Sequences

CONSTANTS
  Feeds,      \* FEEDS, in their order
  Hosts,      \* the hosts that are looked up
  Domains,    \* the domains in the lists, the hosts and their parents
  Hash(_),    \* fnv1a64; two domains may have the same hash
  Lists,      \* raw contents of a download: sets of lines
  MaxRecords  \* bound of the length of an index

FeedSet == {Feeds[i] : i \in DOMAIN Feeds}
Hashes == {Hash(d) : d \in Domains}

(* labels[start..]: the host without its first start - 1 labels. *)
Parent(h, start) == SubSeq(h, start, Len(h))

ASSUME FeedIndexAssumption ==
  /\ Len(Feeds) \in Nat \ {0}
  /\ DOMAIN Feeds = 1 .. Len(Feeds)
  /\ \A d \in Domains : Hash(d) \in Nat
  /\ \A h \in Hosts :
       /\ Len(h) \in Nat /\ Len(h) >= 2
       /\ \A k \in 1 .. Len(h) - 1 : Parent(h, k) \in Domains
  /\ \A list \in Lists : \A line \in list :
       /\ Len(line) \in Nat /\ DOMAIN line = 1 .. Len(line)
       /\ \A i \in DOMAIN line : line[i].kind = "domain" => line[i].name \in Domains
  /\ MaxRecords \in Nat

-----------------------------------------------------------------------------
(* build_index. *)

(* Mutant: the name after the address is taken for the address. *)
Start_AlwaysFirst(line) == 2

(* A line of a hosts file begins with an address, others do not. *)
Start(line) == IF line # <<>> /\ line[1].kind = "ip" THEN 2 ELSE 1

(* domains_from_line: what is behind # is a comment, ||domain^ one domain. *)
DomainsFromLine(line) ==
  {line[i].name : i \in {j \in Start(line) .. Len(line) :
     /\ line[j].kind = "domain"
     /\ \A c \in 1 .. j - 1 : line[c].kind # "comment"}}

Listed(list) == UNION {DomainsFromLine(line) : line \in list}

(* What the author of a list means by it: every domain in front of a #. *)
Meant(list) ==
  UNION {{line[i].name : i \in {j \in DOMAIN line :
            line[j].kind = "domain" /\ "comment" \notin {line[c].kind : c \in 1 .. j}}} :
         line \in list}

(* Mutant: the records are left in the order of the list. *)
Sorted_NotAtAll(s) == TRUE

Sorted(s) == \A i, j \in DOMAIN s : i < j => s[i] < s[j]

Files == UNION {[1 .. n -> Hashes] : n \in 0 .. MaxRecords}

(* sort_unstable and dedup. *)
IsIndexOf(s, domains) ==
  /\ Sorted(s)
  /\ {s[i] : i \in DOMAIN s} = {Hash(d) : d \in domains}

Indexes == [list \in Lists |-> {s \in Files : IsIndexOf(s, Listed(list))}]

-----------------------------------------------------------------------------

VARIABLES
  present,    \* feeds whose index is there
  records,    \* the records of each index, read or written last
  pc,         \* of the lookup
  host,
  start,      \* of the parent that is looked up
  feed,       \* number of the feed
  open,       \* records of the opened index
  low, high,  \* bounds of the binary search
  hits,       \* <<feed, parent>> in the order they are found
  listed,     \* history: the domains that are meant to be in a complete index
  calm,       \* history: feeds left alone and read without error since the call
  seen        \* history: the hashes in each index since the call

search == <<host, start, feed, open, low, high>>
vars == <<present, records, pc, search, hits, listed, calm, seen>>

Pairs == {<<f, d>> : f \in FeedSet, d \in Domains}

TypeOK ==
  /\ present \in SUBSET FeedSet
  /\ records \in [FeedSet -> Files]
  /\ pc \in {"idle", "open", "search"}
  /\ host \in Hosts
  /\ start \in 1 .. Len(host) - 1
  /\ feed \in DOMAIN Feeds
  /\ open \in Files
  /\ low \in 0 .. Len(open)
  /\ high \in low .. Len(open)
  /\ hits \in Seq(Pairs)
  /\ listed \in [FeedSet -> SUBSET Domains]
  /\ calm \in SUBSET FeedSet
  /\ seen \in [FeedSet -> SUBSET Hashes]

Recs(s) == {s[i] : i \in DOMAIN s}

Init ==
  /\ present = {}
  /\ records = [f \in FeedSet |-> <<>>]
  /\ pc = "idle"
  /\ host \in Hosts
  /\ start = 1
  /\ feed = 1
  /\ open = <<>>
  /\ low = 0
  /\ high = 0
  /\ hits = <<>>
  /\ listed = [f \in FeedSet |-> {}]
  /\ calm = {}
  /\ seen = [f \in FeedSet |-> {}]

-----------------------------------------------------------------------------
(* lookup_domain. *)

Here == Feeds[feed]
Candidate == Parent(host, start)
Target == Hash(Candidate)

Call ==
  /\ pc = "idle"
  /\ host' \in Hosts
  /\ pc' = "open"
  /\ start' = 1
  /\ feed' = 1
  /\ hits' = <<>>
  /\ calm' = FeedSet
  /\ seen' = [f \in FeedSet |-> IF f \in present THEN Recs(records[f]) ELSE {}]
  /\ UNCHANGED <<present, records, open, low, high, listed>>

(* The next feed, else the next parent of two labels at least. *)
Advance ==
  /\ open' = <<>> /\ low' = 0 /\ high' = 0
  /\ IF feed < Len(Feeds) THEN
       feed' = feed + 1 /\ pc' = "open" /\ UNCHANGED start
     ELSE IF start < Len(host) - 1 THEN
       start' = start + 1 /\ feed' = 1 /\ pc' = "open"
     ELSE pc' = "idle" /\ UNCHANGED <<start, feed>>

OpenIndex ==
  /\ pc = "open"
  /\ Here \in present
  /\ open' = records[Here]
  /\ low' = 0
  /\ high' = Len(records[Here])
  /\ pc' = "search"
  /\ UNCHANGED <<present, records, host, start, feed, hits, listed, calm, seen>>

(* unwrap_or(false): an index that is not there has no record. *)
OpenFails ==
  /\ pc = "open"
  /\ Here \notin present
  /\ Advance
  /\ UNCHANGED <<present, records, host, hits, listed, calm, seen>>

Middle == low + (high - low) \div 2

(* Record number Middle; the first record is number 0. *)
Read == open[Middle + 1]

(* Mutant: the record that was read stays in the interval. *)
GoRight_KeepsMiddle ==
  /\ pc = "search"
  /\ low < high
  /\ Read < Target
  /\ low' = Middle
  /\ UNCHANGED <<present, records, pc, host, start, feed, open, high, hits, listed, calm, seen>>

GoRight ==
  /\ pc = "search"
  /\ low < high
  /\ Read < Target
  /\ low' = Middle + 1
  /\ UNCHANGED <<present, records, pc, host, start, feed, open, high, hits, listed, calm, seen>>

GoLeft ==
  /\ pc = "search"
  /\ low < high
  /\ Read > Target
  /\ high' = Middle
  /\ UNCHANGED <<present, records, pc, host, start, feed, open, low, hits, listed, calm, seen>>

Hit ==
  /\ pc = "search"
  /\ low < high
  /\ Read = Target
  /\ hits' = Append(hits, <<Here, Candidate>>)
  /\ Advance
  /\ UNCHANGED <<present, records, host, listed, calm, seen>>

Miss ==
  /\ pc = "search"
  /\ low = high
  /\ Advance
  /\ UNCHANGED <<present, records, host, hits, listed, calm, seen>>

(* open, seek or read_exact fails: unwrap_or(false). *)
ReadFails ==
  /\ \/ pc = "open" /\ Here \in present
     \/ pc = "search" /\ low < high
  /\ calm' = calm \ {Here}
  /\ Advance
  /\ UNCHANGED <<present, records, host, hits, listed, seen>>

-----------------------------------------------------------------------------
(* The update of the databases in another process. *)

MoveAway(f) ==
  /\ f \in present
  /\ present' = present \ {f}
  /\ calm' = calm \ {f}
  /\ UNCHANGED <<records, pc, search, hits, listed, seen>>

(* The new file is there: all of it, or the first records of a copy. *)
Put(f) ==
  /\ f \notin present
  /\ \E list \in Lists : \E whole \in Indexes[list] : \E n \in 0 .. Len(whole) :
       /\ records' = [records EXCEPT ![f] = SubSeq(whole, 1, n)]
       /\ listed' = [listed EXCEPT ![f] = IF n = Len(whole) THEN Meant(list) ELSE {}]
  /\ present' = present \cup {f}
  /\ calm' = calm \ {f}
  /\ seen' = [seen EXCEPT ![f] = @ \cup Recs(records'[f])]
  /\ UNCHANGED <<pc, search, hits>>

LookupStep == OpenIndex \/ OpenFails \/ GoRight \/ GoLeft \/ Hit \/ Miss

Next == Call \/ LookupStep \/ ReadFails \/ \E f \in FeedSet : MoveAway(f) \/ Put(f)

Spec == Init /\ [][Next]_vars

-----------------------------------------------------------------------------
(* What is checked. *)

(* The binary search answers no only if the record is nowhere in the file, *)
(* for every length of the file.                                           *)
MissIsAbsence ==
  pc = "search" /\ low = high => Target \notin Recs(open)

(* A reported domain has the hash of one that was listed by that feed      *)
(* during the lookup, however often the index was replaced.                *)
HitsAreListed ==
  \A n \in DOMAIN hits : Hash(hits[n][2]) \in seen[hits[n][1]]

(* A host is reported with each of its parents that a feed lists, if the   *)
(* update has left the index of that feed alone during the lookup.         *)
ListedIsHit ==
  pc = "idle" =>
    \A f \in calm \cap present : \A k \in 1 .. Len(host) - 1 :
      Parent(host, k) \in listed[f] => \E n \in DOMAIN hits : hits[n] = <<f, Parent(host, k)>>

(* Together: what is reported is what is listed.                           *)
HitsAreExact == HitsAreListed /\ ListedIsHit

(* Every record that is read halves the interval at least: a lookup reads  *)
(* a number of records that is logarithmic in the length of the index.     *)
SearchHalves ==
  [][pc = "search" /\ pc' = "search" /\ search' # search => 2 * (high' - low') <= high - low]_vars
=============================================================================

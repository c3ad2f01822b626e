----------------------------- MODULE PortManager -----------------------------
(***************************************************************************)
(* latte::PortManager (include/port_manager.h): a first-fit allocator of   *)
(* half-open port ranges.  Both std::maps are functions from the first     *)
(* port of a segment to one past its last port; their iteration order is   *)
(* the order of the keys.  A call that throws leaves both maps alone and   *)
(* records the exception in status.                                        *)
(***************************************************************************)
EXTENDS Integers

CONSTANTS Low,      \* low_
          High,     \* high_
          Counts    \* the sizes callers ask for

ASSUME RangeAssumption == Low \in Nat /\ High \in Nat /\ Low < High
ASSUME CountsAssumption == Counts \subseteq Nat

VARIABLES free_map_,   \* free segments
          allocated_,  \* allocated segments
          held,        \* what the callers hold: ranges returned and not given back
          status       \* outcome of the last call

vars == <<free_map_, allocated_, held, status>>

Statuses == {"ok", "throw_full", "throw_bad_range", "throw_bad_port", "throw_bug"}

------------------------------------------------------------------------------
(* std::map: m[k] = v, m.erase(k), and the iterators the code walks with.  *)

Put(m, k, v) == [x \in DOMAIN m \cup {k} |-> IF x = k THEN v ELSE m[x]]

(* mutant: the element is forgotten in the map *)
Erase_forgotten(m, k) == m
Erase(m, k)  == [x \in DOMAIN m \ {k} |-> m[x]]

(* upper_bound(p) is the element with key k *)
IsUpperBound(m, p, k) ==
    /\ k \in DOMAIN m /\ k > p
    /\ \A j \in DOMAIN m : j > p => k <= j

(* mutant: prev(lower_bound(p)) *)
IsPrev_lower_bound(m, p, k) ==
    /\ k \in DOMAIN m /\ k < p
    /\ \A j \in DOMAIN m : j < p => j <= k

(* prev(upper_bound(p)) is the element with key k; there is no such k when
   upper_bound(p) is begin() *)
IsPrev(m, p, k) ==
    /\ k \in DOMAIN m /\ k <= p
    /\ \A j \in DOMAIN m : j <= p => j <= k

(* prev(end()) is the element with key k *)
IsLast(m, k) == k \in DOMAIN m /\ \A j \in DOMAIN m : j <= k

------------------------------------------------------------------------------
(* is_allocated(p): an element starting at or below p that ends above p *)
is_allocated_port(p) ==
    \E k \in DOMAIN allocated_ : IsPrev(allocated_, p, k) /\ allocated_[k] > p

(* is_allocated(l, h): the element at or below l reaches past l, or the next
   one starts below h *)
is_allocated_range(l, h) ==
    \/ \E k \in DOMAIN allocated_ : IsPrev(allocated_, l, k) /\ allocated_[k] > l
    \/ \E k \in DOMAIN allocated_ : IsUpperBound(allocated_, l, k) /\ k < h

(* mutant: off by one *)
fits_closed(cnt, k) == cnt <= (free_map_[k] - k) + 1

(* find_fit(cnt) returns the segment at k: the first one that is large enough *)
fits(cnt, k) == cnt <= free_map_[k] - k
find_fit_cnt(cnt, k) ==
    /\ k \in DOMAIN free_map_ /\ fits(cnt, k)
    /\ \A j \in DOMAIN free_map_ : fits(cnt, j) => k <= j

(* mutant: only the start of the range is looked at *)
find_fit_range_start(lo, hi, k) ==
    /\ k \in DOMAIN free_map_
    /\ IsPrev(free_map_, lo, k)
    /\ free_map_[k] >= lo

(* mutant: off by one at the end of the segment *)
find_fit_range_open(lo, hi, k) ==
    /\ k \in DOMAIN free_map_
    /\ IsPrev(free_map_, lo, k)
    /\ free_map_[k] > hi

(* find_fit(lo, hi) returns the segment at k *)
find_fit_range(lo, hi, k) ==
    /\ k \in DOMAIN free_map_
    /\ IsPrev(free_map_, lo, k)
    /\ free_map_[k] >= hi

------------------------------------------------------------------------------
Init ==
    /\ free_map_ = [k \in {Low} |-> High]
    /\ allocated_ = [k \in {} |-> 0]
    /\ held = {}
    /\ status = "ok"

Throw(s) == status' = s /\ UNCHANGED <<free_map_, allocated_, held>>

(* allocate(cnt): the top cnt ports of the first segment that fits *)
allocate_cnt(cnt) ==
    \/ \E k \in DOMAIN free_map_ :
          LET second == free_map_[k]
              remain == (second - k) - cnt
          IN  /\ find_fit_cnt(cnt, k)
              /\ free_map_' = IF remain >= 1 THEN Put(free_map_, k, k + remain)
                                             ELSE Erase(free_map_, k)
              /\ allocated_' = Put(allocated_, k + remain, second)
              /\ held' = held \cup {<<k + remain, second>>}
              /\ status' = "ok"
    \/ /\ \A k \in DOMAIN free_map_ : ~fits(cnt, k)
       /\ Throw("throw_full")

(* allocate(lo, hi): exactly that range, split out of the segment around it *)
allocate_range(lo, hi) ==
    \/ /\ lo < Low \/ hi > High \/ is_allocated_range(lo, hi)
       /\ Throw("throw_bad_range")
    \/ /\ Low <= lo /\ hi <= High /\ ~is_allocated_range(lo, hi)
       /\ \E k \in DOMAIN free_map_ :
             LET left == IF k < lo THEN Put(free_map_, k, lo) ELSE Erase(free_map_, k)
             IN  /\ find_fit_range(lo, hi, k)
                 /\ free_map_' = IF free_map_[k] > hi THEN Put(left, hi, free_map_[k])
                                                      ELSE left
                 /\ allocated_' = Put(allocated_, lo, hi)
                 /\ held' = held \cup {<<lo, hi>>}
                 /\ status' = "ok"
    \/ /\ Low <= lo /\ hi <= High /\ ~is_allocated_range(lo, hi)
       /\ \A k \in DOMAIN free_map_ : ~find_fit_range(lo, hi, k)
       /\ Throw("throw_bug")

(* The segment right after the one being freed is free_index and touches it. *)
merges_right(p) ==
    /\ allocated_[p] \in DOMAIN free_map_
    /\ IsUpperBound(free_map_, p, allocated_[p])

(* deallocate(p).  After a merge to the right, free_map_.find(value) looks for
   the key that was just erased and returns end(), so that the left neighbour
   is then taken to be the last free segment. *)
deallocate(p) ==
    \/ /\ p \in DOMAIN allocated_
       /\ LET mid    == allocated_[p]
              merged == merges_right(p)
              second == IF merged THEN free_map_[mid] ELSE mid
              rest   == IF merged THEN Erase(free_map_, mid) ELSE free_map_
              is_left(k) == IF merged THEN IsLast(rest, k) ELSE IsPrev(rest, p, k)
              merges_left(k) == is_left(k) /\ rest[k] = p
          IN  \/ \E k \in DOMAIN rest :
                    merges_left(k) /\ free_map_' = Put(rest, k, second)
              \/ /\ \A k \in DOMAIN rest : ~merges_left(k)
                 /\ free_map_' = Put(rest, p, second)
       /\ allocated_' = Erase(allocated_, p)
       /\ held' = {r \in held : r[1] # p}
       /\ status' = "ok"
    \/ /\ p \notin DOMAIN allocated_
       /\ Throw("throw_bad_port")

(* Callers ask for non-empty exact ranges, which may stick out of [Low, High)
   by one port on either side. *)
Next ==
    \/ \E cnt \in Counts : allocate_cnt(cnt)
    \/ \E lo, hi \in (Low - 1) .. (High + 1) : lo < hi /\ allocate_range(lo, hi)
    \/ \E p \in Low .. High : deallocate(p)

Spec == Init /\ [][Next]_vars

------------------------------------------------------------------------------
(* Each map is a function from first ports to ends inside [Low, High]. *)
TypeOK ==
    /\ DOMAIN free_map_ \subseteq Low .. High
    /\ free_map_ \in [DOMAIN free_map_ -> Low .. High]
    /\ DOMAIN allocated_ \subseteq Low .. High
    /\ allocated_ \in [DOMAIN allocated_ -> Low .. High]
    /\ held \subseteq (Low .. High) \X (Low .. High)
    /\ status \in Statuses

Covers(m, k, p) == k <= p /\ p < m[k]
IsFree(p)  == \E k \in DOMAIN free_map_ : Covers(free_map_, k, p)
IsTaken(p) == \E k \in DOMAIN allocated_ : Covers(allocated_, k, p)

(* No segment is empty, and two segments of the same map never overlap: the
   comment in is_allocated(p), "we don't have overlapped segment". *)
Separated(m) ==
    /\ \A k \in DOMAIN m : k < m[k]
    /\ \A j, k \in DOMAIN m : j < k => m[j] <= k

(* The two maps partition the managed ports: splitting, merging and failing
   calls in any order neither lose a port nor put one on both sides. *)
Partition ==
    /\ Separated(free_map_)
    /\ Separated(allocated_)
    /\ \A j \in DOMAIN free_map_, k \in DOMAIN allocated_ :
          free_map_[j] <= k \/ allocated_[k] <= j
    /\ \A p \in Low .. (High - 1) : IsFree(p) \/ IsTaken(p)

(* The manager's book of allocated ranges is what the callers hold. *)
BookKept == held = {<<k, allocated_[k]>> : k \in DOMAIN allocated_}

(* Both is_allocated queries, which look at two neighbouring segments only,
   agree with the callers' holdings on every port and every range. *)
IsAllocatedExact ==
    LET Taken(p) == \E r \in held : r[1] <= p /\ p < r[2]
    IN  /\ \A p \in Low .. (High - 1) : is_allocated_port(p) <=> Taken(p)
        /\ \A l, h \in Low .. High :
              l < h => (is_allocated_range(l, h) <=> \E p \in l .. (h - 1) : Taken(p))

(* "it is guaranteed to find a segment that fully contains [lo, hi)": the
   comment above find_fit(lo, hi).  The "consistency broken" exceptions are
   never thrown. *)
FitGuaranteed == status # "throw_bug"

(* What the exception of FitGuaranteed takes: two free segments that touch and were not
   merged.  Looking at the one segment at or below lo never misses a segment that holds
   the range, and the two queries before it never let an allocated port through, so
   that in a manager that merges on both sides the comment would be true. *)
BugIsUnmerged ==
    status = "throw_bug" => \E k \in DOMAIN free_map_ : free_map_[k] \in DOMAIN free_map_

(* The promise to the callers: no port is granted twice, and a range leaves the
   held ones only through its own deallocation. *)
Promise == INSTANCE PortAllocation
KeepsPromise == Promise!Spec
==============================================================================

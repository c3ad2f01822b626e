--------------------------- MODULE PortManagerProofs ---------------------------
(***************************************************************************)
(* The port manager keeps its promise for every range of ports and every   *)
(* set of request sizes without 0: the two maps always partition the       *)
(* managed ports, and the ranges handed out are those of PortAllocation.   *)
(***************************************************************************)
EXTENDS PortManager, WellFoundedInduction, TLAPS

USE RangeAssumption, CountsAssumption

(* The inductive invariant: the partition only makes sense for well-typed maps,
   and the promise to the callers needs the book to be right. *)
IInv == TypeOK /\ Partition /\ BookKept

(* The constructor establishes the invariant. *)
LEMMA InitIInv == Init => IInv
<1> SUFFICES ASSUME Init PROVE IInv
  OBVIOUS
<1> USE DEF Init
<1>1. TypeOK
  BY DEF TypeOK, Statuses
<1>2. Partition
  BY DEF Partition, Separated, IsFree, IsTaken, Covers
<1>3. BookKept
  BY DEF BookKept
<1> QED BY <1>1, <1>2, <1>3 DEF IInv

--------------------------------------------------------------------------------
(* Both allocate functions carve [lo, hi) out of the free segment at k. *)
Carved(m, k, lo, hi) ==
    LET left == IF k < lo THEN Put(m, k, lo) ELSE Erase(m, k)
    IN  IF m[k] > hi THEN Put(left, hi, m[k]) ELSE left

Carve(k, lo, hi) ==
    /\ k \in DOMAIN free_map_
    /\ lo \in Int /\ hi \in Int
    /\ k <= lo /\ lo < hi /\ hi <= free_map_[k]
    /\ free_map_' = Carved(free_map_, k, lo, hi)
    /\ allocated_' = Put(allocated_, lo, hi)
    /\ held' = held \cup {<<lo, hi>>}

(* The segments of a carved map, described without Put and Erase. *)
LEMMA CarvedProps ==
    ASSUME NEW m, NEW k \in DOMAIN m, NEW lo \in Int, NEW hi \in Int,
           k \in Int, m[k] \in Int, k <= lo, lo < hi, hi <= m[k],
           hi < m[k] => hi \notin DOMAIN m
    PROVE  LET c == Carved(m, k, lo, hi) IN
           /\ \A x : x \in DOMAIN c <=> (\/ (x \in DOMAIN m /\ x # k)
                                        \/ (x = k /\ k < lo)
                                        \/ (x = hi /\ hi < m[k]))
           /\ \A x \in DOMAIN m : x # k => c[x] = m[x]
           /\ k < lo => c[k] = lo
           /\ hi < m[k] => c[hi] = m[k]
<1>1. CASE k < lo /\ m[k] > hi
  BY <1>1 DEF Carved, Put
<1>2. CASE k < lo /\ ~(m[k] > hi)
  BY <1>2 DEF Carved, Put
<1>3. CASE ~(k < lo) /\ m[k] > hi
  BY <1>3 DEF Carved, Put, Erase
<1>4. CASE ~(k < lo) /\ ~(m[k] > hi)
  BY <1>4 DEF Carved, Erase
<1> QED BY <1>1, <1>2, <1>3, <1>4

(* Two free segments never share a port, so the end of a piece cut out of one is
   no key of free_map_; the start of a free piece is no key of allocated_. *)
LEMMA CarveKeys ==
    ASSUME IInv, NEW k, NEW lo, NEW hi, Carve(k, lo, hi)
    PROVE  /\ k \in Int /\ free_map_[k] \in Int
           /\ hi < free_map_[k] => hi \notin DOMAIN free_map_
           /\ lo \notin DOMAIN allocated_
BY DEF IInv, TypeOK, Partition, Separated, Carve

(* Carving a range out of a free segment keeps the invariant. *)
LEMMA CarveIInv ==
    ASSUME IInv, NEW k, NEW lo, NEW hi, Carve(k, lo, hi), status' \in Statuses
    PROVE  IInv'
<1> DEFINE s == free_map_[k]
<1>1. /\ k \in Low .. High /\ s \in Low .. High
      /\ lo \in Low .. High /\ hi \in Low .. High
      /\ k <= lo /\ lo < hi /\ hi <= s
  BY DEF IInv, TypeOK, Carve
<1>2. /\ k \in DOMAIN free_map_ /\ lo \notin DOMAIN allocated_
      /\ hi < s => hi \notin DOMAIN free_map_
  BY CarveKeys DEF Carve
<1>3. /\ \A x : x \in DOMAIN free_map_' <=> (\/ (x \in DOMAIN free_map_ /\ x # k)
                                             \/ (x = k /\ k < lo)
                                             \/ (x = hi /\ hi < s))
      /\ \A x \in DOMAIN free_map_ : x # k => free_map_'[x] = free_map_[x]
      /\ k < lo => free_map_'[k] = lo
      /\ hi < s => free_map_'[hi] = s
  BY <1>1, <1>2, CarvedProps DEF Carve
<1>4. /\ DOMAIN allocated_' = DOMAIN allocated_ \cup {lo}
      /\ allocated_'[lo] = hi
      /\ \A x \in DOMAIN allocated_ : allocated_'[x] = allocated_[x]
  BY <1>2 DEF Carve, Put
<1>5. /\ free_map_' = [x \in DOMAIN free_map_' |-> free_map_'[x]]
      /\ allocated_' = [x \in DOMAIN allocated_' |-> allocated_'[x]]
  BY DEF Carve, Carved, Put, Erase
<1> HIDE DEF s
<1>6. TypeOK'
  <2>1. DOMAIN free_map_' \subseteq Low .. High
    BY <1>1, <1>3 DEF IInv, TypeOK
  <2>2. \A x \in DOMAIN free_map_' : free_map_'[x] \in Low .. High
    BY <1>1, <1>3 DEF IInv, TypeOK
  <2>3. DOMAIN allocated_' \subseteq Low .. High
    BY <1>1, <1>4 DEF IInv, TypeOK
  <2>4. \A x \in DOMAIN allocated_' : allocated_'[x] \in Low .. High
    BY <1>1, <1>4 DEF IInv, TypeOK
  <2>5. held' \subseteq (Low .. High) \X (Low .. High)
    BY <1>1 DEF IInv, TypeOK, Carve
  <2> QED BY <1>5, <2>1, <2>2, <2>3, <2>4, <2>5 DEF TypeOK
<1>7. Partition'
  <2>1. Separated(free_map_)'
    BY <1>1, <1>2, <1>3 DEF IInv, TypeOK, Partition, Separated, s
  <2>2. Separated(allocated_)'
    BY <1>1, <1>2, <1>4 DEF IInv, TypeOK, Partition, Separated, s
  <2>3. \A i \in DOMAIN free_map_', j \in DOMAIN allocated_' :
           free_map_'[i] <= j \/ allocated_'[j] <= i
    BY <1>1, <1>2, <1>3, <1>4 DEF IInv, TypeOK, Partition, Separated, s
  <2>4. ASSUME NEW p \in Low .. (High - 1)
        PROVE  (IsFree(p) \/ IsTaken(p))'
    <3>1. CASE IsTaken(p)
      BY <1>4, <3>1 DEF IsTaken, Covers
    <3>2. CASE lo <= p /\ p < hi
      BY <1>4, <3>2 DEF IsTaken, Covers
    <3>3. CASE IsFree(p) /\ ~(lo <= p /\ p < hi)
      <4>1. PICK j \in DOMAIN free_map_ : j <= p /\ p < free_map_[j]
        BY <3>3 DEF IsFree, Covers
      <4>2. CASE j # k
        BY <1>3, <4>1, <4>2 DEF IsFree, Covers
      <4>3. CASE j = k /\ p < lo
        BY <1>1, <1>3, <4>1, <4>3 DEF IsFree, Covers
      <4>4. CASE j = k /\ hi <= p
        BY <1>1, <1>3, <4>1, <4>4 DEF IsFree, Covers, s
      <4> QED BY <1>1, <3>3, <4>2, <4>3, <4>4
    <3> QED BY <3>1, <3>2, <3>3 DEF IInv, Partition
  <2> QED BY <2>1, <2>2, <2>3, <2>4 DEF Partition
<1>8. BookKept'
  BY <1>2, <1>4 DEF IInv, BookKept, Carve
<1> QED BY <1>6, <1>7, <1>8 DEF IInv

--------------------------------------------------------------------------------
(* deallocate(p) puts the segment at p back, joined with a free segment that
   ends at p, with one that starts at its end, with both, or with neither. *)
Join(p, l, h, rest) ==
    /\ p \in DOMAIN allocated_
    /\ l = p \/ (l \in DOMAIN rest /\ rest[l] = p)
    /\ \/ rest = free_map_ /\ h = allocated_[p]
       \/ /\ allocated_[p] \in DOMAIN free_map_
          /\ rest = Erase(free_map_, allocated_[p])
          /\ h = free_map_[allocated_[p]]
    /\ free_map_' = Put(rest, l, h)
    /\ allocated_' = Erase(allocated_, p)
    /\ held' = {r \in held : r[1] # p}

(* Whatever segment it takes for the left neighbour, deallocate joins. *)
LEMMA DeallocateJoins ==
    ASSUME NEW p, p \in DOMAIN allocated_, deallocate(p)
    PROVE  (\E l, h, rest : Join(p, l, h, rest)) /\ status' = "ok"
<1> DEFINE mid == allocated_[p]
           rest == IF merges_right(p) THEN Erase(free_map_, mid) ELSE free_map_
           h == IF merges_right(p) THEN free_map_[mid] ELSE mid
<1>1. \/ \E k \in DOMAIN rest : rest[k] = p /\ free_map_' = Put(rest, k, h)
      \/ free_map_' = Put(rest, p, h)
  BY DEF deallocate
<1>2. /\ allocated_' = Erase(allocated_, p)
      /\ held' = {r \in held : r[1] # p}
      /\ status' = "ok"
  BY DEF deallocate
<1>3. \/ rest = free_map_ /\ h = allocated_[p]
      \/ /\ allocated_[p] \in DOMAIN free_map_
         /\ rest = Erase(free_map_, allocated_[p])
         /\ h = free_map_[allocated_[p]]
  BY DEF merges_right
<1> HIDE DEF rest, h
<1>4. \E l : /\ l = p \/ (l \in DOMAIN rest /\ rest[l] = p)
             /\ free_map_' = Put(rest, l, h)
  BY <1>1
<1>5. PICK l : /\ l = p \/ (l \in DOMAIN rest /\ rest[l] = p)
               /\ free_map_' = Put(rest, l, h)
  BY <1>4
<1>6. Join(p, l, h, rest)
  BY <1>2, <1>3, <1>5 DEF Join
<1> QED BY <1>2, <1>6

(* Putting a segment back keeps the invariant. *)
LEMMA JoinIInv ==
    ASSUME IInv, NEW p, NEW l, NEW h, NEW rest, Join(p, l, h, rest),
           status' \in Statuses
    PROVE  IInv'
<1> DEFINE mid == allocated_[p]
<1>1. /\ p \in DOMAIN allocated_
      /\ p \in Low .. High /\ mid \in Low .. High /\ p < mid
  BY DEF IInv, TypeOK, Partition, Separated, Join
<1>2. /\ p \notin DOMAIN free_map_
      /\ \A j \in DOMAIN free_map_ : free_map_[j] <= p \/ mid <= j
      /\ \A j \in DOMAIN allocated_ : j # p => allocated_[j] <= p \/ mid <= j
  BY <1>1 DEF IInv, TypeOK, Partition, Separated
<1>3. /\ DOMAIN rest \subseteq DOMAIN free_map_
      /\ \A j \in DOMAIN rest : rest[j] = free_map_[j]
      /\ \A j \in DOMAIN free_map_ : j \in DOMAIN rest \/ (j = mid /\ h = free_map_[mid])
      /\ \/ h = mid
         \/ mid \in DOMAIN free_map_ /\ h = free_map_[mid] /\ mid \notin DOMAIN rest
  BY DEF Join, Erase
<1>4. /\ l \in Low .. High /\ h \in Low .. High
      /\ l <= p /\ mid <= h
      /\ l = p \/ (l \in DOMAIN rest /\ rest[l] = p)
      /\ \A j \in DOMAIN rest : j # l => free_map_[j] <= l \/ h <= j
      /\ \A j \in DOMAIN allocated_ : j # p => allocated_[j] <= l \/ h <= j
  <2>1. /\ l \in Low .. High /\ l <= p
        /\ l = p \/ (l \in DOMAIN rest /\ rest[l] = p)
    BY <1>1, <1>3 DEF Join, IInv, TypeOK, Partition, Separated
  <2>2. h \in Low .. High /\ mid <= h
    BY <1>1, <1>3 DEF IInv, TypeOK, Partition, Separated
  <2>3. ASSUME NEW j \in DOMAIN rest, j # l PROVE free_map_[j] <= l \/ h <= j
    BY <1>1, <1>2, <1>3, <2>1, <2>2, <2>3 DEF IInv, TypeOK, Partition, Separated
  <2>4. ASSUME NEW j \in DOMAIN allocated_, j # p PROVE allocated_[j] <= l \/ h <= j
    BY <1>1, <1>2, <1>3, <2>1, <2>2, <2>4 DEF IInv, TypeOK, Partition, Separated
  <2> QED BY <2>1, <2>2, <2>3, <2>4
<1>5. /\ DOMAIN free_map_' = DOMAIN rest \cup {l}
      /\ free_map_'[l] = h
      /\ \A j \in DOMAIN rest : j # l => free_map_'[j] = free_map_[j]
  BY <1>3 DEF Join, Put
<1>6. /\ DOMAIN allocated_' = DOMAIN allocated_ \ {p}
      /\ \A j \in DOMAIN allocated_' : allocated_'[j] = allocated_[j]
  BY DEF Join, Erase
<1>7. /\ free_map_' = [j \in DOMAIN free_map_' |-> free_map_'[j]]
      /\ allocated_' = [j \in DOMAIN allocated_' |-> allocated_'[j]]
  BY DEF Join, Put, Erase
<1> HIDE DEF mid
<1>8. TypeOK'
  <2>1. DOMAIN free_map_' \subseteq Low .. High
    BY <1>3, <1>4, <1>5 DEF IInv, TypeOK
  <2>2. \A j \in DOMAIN free_map_' : free_map_'[j] \in Low .. High
    BY <1>3, <1>4, <1>5 DEF IInv, TypeOK
  <2>3. DOMAIN allocated_' \subseteq Low .. High
    BY <1>6 DEF IInv, TypeOK
  <2>4. \A j \in DOMAIN allocated_' : allocated_'[j] \in Low .. High
    BY <1>6 DEF IInv, TypeOK
  <2>5. held' \subseteq (Low .. High) \X (Low .. High)
    BY DEF IInv, TypeOK, Join
  <2> QED BY <1>7, <2>1, <2>2, <2>3, <2>4, <2>5 DEF TypeOK
<1>9. Partition'
  <2>1. Separated(free_map_)'
    BY <1>1, <1>3, <1>4, <1>5 DEF IInv, TypeOK, Partition, Separated
  <2>2. Separated(allocated_)'
    BY <1>6 DEF IInv, Partition, Separated
  <2>3. \A i \in DOMAIN free_map_', j \in DOMAIN allocated_' :
           free_map_'[i] <= j \/ allocated_'[j] <= i
    BY <1>3, <1>4, <1>5, <1>6 DEF IInv, Partition
  <2>4. ASSUME NEW q \in Low .. (High - 1)
        PROVE  (IsFree(q) \/ IsTaken(q))'
    <3>1. CASE l <= q /\ q < h
      BY <1>5, <3>1 DEF IsFree, Covers
    <3>2. CASE IsFree(q) /\ ~(l <= q /\ q < h)
      <4>1. PICK j \in DOMAIN free_map_ : j <= q /\ q < free_map_[j]
        BY <3>2 DEF IsFree, Covers
      <4>2. j \in DOMAIN rest /\ j # l
        BY <1>1, <1>2, <1>3, <1>4, <3>2, <4>1 DEF IInv, TypeOK
      <4> QED BY <1>5, <4>1, <4>2 DEF IsFree, Covers
    <3>3. CASE IsTaken(q) /\ ~(l <= q /\ q < h)
      <4>1. PICK j \in DOMAIN allocated_ : j <= q /\ q < allocated_[j]
        BY <3>3 DEF IsTaken, Covers
      <4>2. j # p
        BY <1>1, <1>4, <3>3, <4>1 DEF mid
      <4> QED BY <1>6, <4>1, <4>2 DEF IsTaken, Covers
    <3> QED BY <3>1, <3>2, <3>3 DEF IInv, Partition
  <2> QED BY <2>1, <2>2, <2>3, <2>4 DEF Partition
<1>10. BookKept'
  BY <1>6 DEF IInv, BookKept, Join
<1> QED BY <1>8, <1>9, <1>10 DEF IInv

--------------------------------------------------------------------------------
(* A call that throws changes none of the maps. *)
LEMMA ThrowIInv ==
    ASSUME IInv, NEW s \in Statuses, Throw(s)
    PROVE  IInv' /\ UNCHANGED held
BY DEF IInv, TypeOK, Partition, Separated, IsFree, IsTaken, Covers, BookKept, Throw

(* allocate(cnt) throws or carves out at least one port. *)
LEMMA AllocateCntCarves ==
    ASSUME IInv, NEW cnt \in Counts, cnt # 0, allocate_cnt(cnt)
    PROVE  \/ Throw("throw_full")
           \/ (\E k, lo, hi : Carve(k, lo, hi)) /\ status' = "ok"
<1> SUFFICES ASSUME NEW k \in DOMAIN free_map_,
                    find_fit_cnt(cnt, k),
                    LET second == free_map_[k]
                        remain == (second - k) - cnt
                    IN  /\ free_map_' = IF remain >= 1 THEN Put(free_map_, k, k + remain)
                                                       ELSE Erase(free_map_, k)
                        /\ allocated_' = Put(allocated_, k + remain, second)
                        /\ held' = held \cup {<<k + remain, second>>}
                        /\ status' = "ok"
             PROVE  \E lo, hi : Carve(k, lo, hi)
  BY DEF allocate_cnt
<1> DEFINE hi == free_map_[k]
           lo == k + ((hi - k) - cnt)
<1>1. k \in Int /\ hi \in Int /\ cnt \in Int /\ cnt >= 1 /\ cnt <= hi - k
  BY DEF IInv, TypeOK, find_fit_cnt, fits
<1>2. lo \in Int /\ k <= lo /\ lo < hi /\ ((hi - k) - cnt >= 1 <=> k < lo) /\ ~(hi > hi)
  BY <1>1
<1>3. free_map_' = Carved(free_map_, k, lo, hi)
  BY <1>2 DEF Carved
<1>4. Carve(k, lo, hi)
  BY <1>1, <1>2, <1>3 DEF Carve
<1> QED BY <1>4

(* allocate(lo, hi) throws or carves out exactly that range. *)
LEMMA AllocateRangeCarves ==
    ASSUME IInv, NEW lo \in Int, NEW hi \in Int, lo < hi, allocate_range(lo, hi)
    PROVE  \/ Throw("throw_bad_range") \/ Throw("throw_bug")
           \/ (\E k : Carve(k, lo, hi)) /\ status' = "ok"
BY DEF allocate_range, find_fit_range, IsPrev, Carve, Carved, IInv, TypeOK

(* Every call preserves the invariant. *)
LEMMA NextIInv ==
    ASSUME 0 \notin Counts
    PROVE  IInv /\ [Next]_vars => IInv'
<1> SUFFICES ASSUME IInv, [Next]_vars PROVE IInv'
  OBVIOUS
<1> USE DEF Statuses
<1>1. ASSUME NEW cnt \in Counts, allocate_cnt(cnt) PROVE IInv'
  BY <1>1, AllocateCntCarves, CarveIInv, ThrowIInv
<1>2. ASSUME NEW lo \in (Low - 1) .. (High + 1), NEW hi \in (Low - 1) .. (High + 1),
             lo < hi, allocate_range(lo, hi)
      PROVE  IInv'
  BY <1>2, AllocateRangeCarves, CarveIInv, ThrowIInv
<1>3. ASSUME NEW p \in Low .. High, deallocate(p) PROVE IInv'
  <2>1. CASE p \in DOMAIN allocated_
    BY <1>3, <2>1, DeallocateJoins, JoinIInv
  <2>2. CASE p \notin DOMAIN allocated_
    BY <1>3, <2>2, ThrowIInv DEF deallocate
  <2> QED BY <2>1, <2>2
<1>4. CASE UNCHANGED vars
  BY <1>4 DEF vars, IInv, TypeOK, Partition, Separated, IsFree, IsTaken, Covers, BookKept
<1> QED BY <1>1, <1>2, <1>3, <1>4 DEF Next

LEMMA IInvHolds ==
    ASSUME 0 \notin Counts
    PROVE  Spec => []IInv
<1>1. IInv /\ [Next]_vars => IInv'
  BY NextIInv
<1> QED BY <1>1, InitIInv, PTL DEF Spec

(* Every sequence of calls of class PortManager, failing ones included, keeps both
   maps functions into the managed ports: no split or merge makes a segment that
   starts or ends outside [Low, High]. *)
THEOREM TypeTheorem ==
    ASSUME 0 \notin Counts
    PROVE  Spec => []TypeOK
<1>1. IInv => TypeOK
  BY DEF IInv
<1> QED BY <1>1, IInvHolds, PTL

(* Every sequence of calls, failing ones included, keeps the two maps a partition
   of the managed ports, although deallocate may miss a merge to the left. *)
THEOREM PartitionTheorem ==
    ASSUME 0 \notin Counts
    PROVE  Spec => []Partition
<1>1. IInv => Partition
  BY DEF IInv
<1> QED BY <1>1, IInvHolds, PTL

(* Every sequence of calls keeps allocated_ equal to what the callers hold: no
   allocate overwrites the entry of a range that somebody still has. *)
THEOREM BookTheorem ==
    ASSUME 0 \notin Counts
    PROVE  Spec => []BookKept
<1>1. IInv => BookKept
  BY DEF IInv
<1> QED BY <1>1, IInvHolds, PTL

--------------------------------------------------------------------------------
(* A carved range lies in the managed ports and touches no range that is held;
   a freed segment is the range its holder was given. *)
LEMMA CarveGrants ==
    ASSUME IInv, NEW k, NEW lo, NEW hi, Carve(k, lo, hi)
    PROVE  Promise!Next
<1>1. k \in DOMAIN free_map_ /\ lo \in Low .. High /\ hi \in Low .. High /\ lo < hi
  BY DEF IInv, TypeOK, Carve
<1>2. ASSUME NEW j \in DOMAIN allocated_ PROVE hi <= j \/ allocated_[j] <= lo
  BY <1>1 DEF IInv, TypeOK, Partition, Carve
<1>3. \A s \in held : hi <= s[1] \/ s[2] <= lo
  BY <1>2 DEF IInv, BookKept
<1>4. Promise!Grant(lo, hi)
  BY <1>1, <1>3 DEF Promise!Grant, Carve
<1> QED BY <1>1, <1>4 DEF Promise!Next

LEMMA JoinReleases ==
    ASSUME IInv, NEW p, NEW l, NEW h, NEW rest, Join(p, l, h, rest)
    PROVE  Promise!Next
<1> DEFINE s == <<p, allocated_[p]>>
<1>1. s \in held
  BY DEF IInv, BookKept, Join
<1>2. \A r \in held : r[1] = p <=> r = s
  BY DEF IInv, BookKept
<1>3. held' = held \ {s}
  BY <1>2 DEF Join
<1> QED BY <1>1, <1>3 DEF Promise!Next, Promise!Release

(* Every call is a grant, a release, or leaves the holdings alone. *)
LEMMA NextPromise ==
    ASSUME 0 \notin Counts
    PROVE  IInv /\ [Next]_vars => [Promise!Next]_held
<1> SUFFICES ASSUME IInv, [Next]_vars PROVE [Promise!Next]_held
  OBVIOUS
<1> USE DEF Statuses
<1>1. ASSUME NEW cnt \in Counts, allocate_cnt(cnt) PROVE [Promise!Next]_held
  BY <1>1, AllocateCntCarves, CarveGrants, ThrowIInv
<1>2. ASSUME NEW lo \in (Low - 1) .. (High + 1), NEW hi \in (Low - 1) .. (High + 1),
             lo < hi, allocate_range(lo, hi)
      PROVE  [Promise!Next]_held
  BY <1>2, AllocateRangeCarves, CarveGrants, ThrowIInv
<1>3. ASSUME NEW p \in Low .. High, deallocate(p) PROVE [Promise!Next]_held
  <2>1. CASE p \in DOMAIN allocated_
    BY <1>3, <2>1, DeallocateJoins, JoinReleases
  <2>2. CASE p \notin DOMAIN allocated_
    BY <1>3, <2>2, ThrowIInv DEF deallocate
  <2> QED BY <2>1, <2>2
<1>4. CASE UNCHANGED vars
  BY <1>4 DEF vars
<1> QED BY <1>1, <1>2, <1>3, <1>4 DEF Next

(* The port manager implements PortAllocation: allocate never hands out a port
   that some caller still holds, and deallocate takes back exactly the range
   that starts at its argument. *)
THEOREM RefinementTheorem ==
    ASSUME 0 \notin Counts
    PROVE  Spec => KeepsPromise
<1>1. Init => IInv /\ Promise!Init
  BY InitIInv DEF Init, Promise!Init
<1>2. IInv /\ [Next]_vars => IInv'
  BY NextIInv
<1>3. IInv /\ [Next]_vars => [Promise!Next]_held
  BY NextPromise
<1> QED BY <1>1, <1>2, <1>3, PTL DEF Spec, KeepsPromise, Promise!Spec

--------------------------------------------------------------------------------
(* A map with a key above p has an upper_bound(p). *)
LEMMA UpperBoundExists ==
    ASSUME NEW m, DOMAIN m \subseteq Nat, NEW p \in Nat, NEW k \in DOMAIN m, k > p
    PROVE  \E j \in DOMAIN m : IsUpperBound(m, p, j) /\ j <= k
<1> DEFINE T == {j \in DOMAIN m : j > p}
           R == {ss \in Nat \X Nat : ss[1] < ss[2]}
<1>1. IsWellFoundedOn(R, Nat)
  BY NatLessThanWellFounded, Zenon DEF OpToRel
<1>2. T \subseteq Nat /\ T # {}
  OBVIOUS
<1>3. PICK j \in T : \A i \in T : ~(<<i, j>> \in R)
  <2> HIDE DEF T, R
  <2> QED BY <1>1, <1>2, WFMin
<1>4. ASSUME NEW i \in T PROVE j <= i
  <2>1. i \in Nat /\ j \in Nat
    BY <1>2
  <2>2. i < j => <<i, j>> \in R
    BY <2>1
  <2>3. ~(i < j)
    BY <1>3, <2>2
  <2> QED BY <2>1, <2>3
<1> QED BY <1>2, <1>4 DEF IsUpperBound

(* In a well-formed book, looking at the neighbours of a port finds its segment. *)
LEMMA QueriesExact == IInv => IsAllocatedExact
<1> SUFFICES ASSUME IInv PROVE IsAllocatedExact
  OBVIOUS
<1> DEFINE Taken(p) == \E r \in held : r[1] <= p /\ p < r[2]
<1>1. \A p \in Nat :
          Taken(p) <=> \E k \in DOMAIN allocated_ : k <= p /\ p < allocated_[k]
  <2>1. \A k \in DOMAIN allocated_ : <<k, allocated_[k]>> \in held
    BY DEF IInv, BookKept
  <2>2. \A r \in held : r[1] \in DOMAIN allocated_ /\ r[2] = allocated_[r[1]]
    BY DEF IInv, BookKept
  <2> QED BY <2>1, <2>2
<1>2. /\ DOMAIN allocated_ \subseteq Nat
      /\ \A k \in DOMAIN allocated_ : allocated_[k] \in Nat /\ k < allocated_[k]
      /\ \A j, k \in DOMAIN allocated_ : j < k => allocated_[j] <= k
  BY DEF IInv, TypeOK, Partition, Separated
<1> HIDE DEF Taken
<1>3. ASSUME NEW p \in Nat, NEW q \in Nat, q <= p, NEW k \in DOMAIN allocated_,
             k <= q, p < allocated_[k]
      PROVE  IsPrev(allocated_, q, k)
  BY <1>2, <1>3 DEF IsPrev
<1>4. ASSUME NEW p \in Low .. (High - 1)
      PROVE  is_allocated_port(p) <=> Taken(p)
  BY <1>1, <1>2, <1>3 DEF is_allocated_port, IsPrev
<1>5. ASSUME NEW l \in Low .. High, NEW h \in Low .. High, l < h
      PROVE  is_allocated_range(l, h) <=> \E p \in l .. (h - 1) : Taken(p)
  <2>1. ASSUME NEW p \in l .. (h - 1), Taken(p) PROVE is_allocated_range(l, h)
    <3>1. PICK k \in DOMAIN allocated_ : k <= p /\ p < allocated_[k]
      BY <1>1, <2>1
    <3>2. CASE k <= l
      BY <1>2, <1>3, <3>1, <3>2 DEF is_allocated_range
    <3>3. CASE k > l
      <4>1. PICK j \in DOMAIN allocated_ : IsUpperBound(allocated_, l, j) /\ j <= k
        BY <1>2, <3>3, UpperBoundExists
      <4> QED BY <1>2, <3>1, <4>1 DEF is_allocated_range
    <3> QED BY <1>2, <3>2, <3>3
  <2>2. ASSUME is_allocated_range(l, h) PROVE \E p \in l .. (h - 1) : Taken(p)
    <3>1. CASE \E k \in DOMAIN allocated_ : IsPrev(allocated_, l, k) /\ allocated_[k] > l
      <4>1. Taken(l)
        BY <1>1, <1>2, <3>1 DEF IsPrev
      <4> QED BY <1>5, <4>1
    <3>2. CASE \E k \in DOMAIN allocated_ : IsUpperBound(allocated_, l, k) /\ k < h
      <4>1. PICK k \in DOMAIN allocated_ : l < k /\ k < h
        BY <3>2 DEF IsUpperBound
      <4>2. Taken(k)
        BY <1>1, <1>2, <4>1
      <4> QED BY <1>2, <4>1, <4>2
    <3> QED BY <2>2, <3>1, <3>2 DEF is_allocated_range
  <2> QED BY <2>1, <2>2
<1> QED BY <1>4, <1>5 DEF IsAllocatedExact, Taken

(* Both is_allocated queries, which inspect one or two neighbouring segments of
   allocated_, always agree with what the callers hold. *)
THEOREM QueriesTheorem ==
    ASSUME 0 \notin Counts
    PROVE  Spec => []IsAllocatedExact
<1>1. IInv => IsAllocatedExact
  BY QueriesExact
<1> QED BY <1>1, IInvHolds, PTL

--------------------------------------------------------------------------------
(* A range without an allocated port that no single free segment holds: the segment
   around its first port ends inside it, and the next one starts right there. *)
LEMMA UnfitIsUnmerged ==
    ASSUME IInv, NEW lo \in Int, NEW hi \in Int, Low <= lo, lo < hi, hi <= High,
           ~is_allocated_range(lo, hi),
           \A k \in DOMAIN free_map_ : ~find_fit_range(lo, hi, k)
    PROVE  \E k \in DOMAIN free_map_ : free_map_[k] \in DOMAIN free_map_
<1>1. /\ DOMAIN free_map_ \subseteq Int
      /\ \A k \in DOMAIN free_map_ : free_map_[k] \in Int /\ k < free_map_[k]
      /\ \A j, k \in DOMAIN free_map_ : j < k => free_map_[j] <= k
  BY DEF IInv, TypeOK, Partition, Separated
<1>2. \A p \in lo .. (hi - 1) : p \in Low .. (High - 1)
  OBVIOUS
<1>3. ASSUME NEW p \in lo .. (hi - 1) PROVE IsFree(p)
  <2>1. ~\E r \in held : r[1] <= p /\ p < r[2]
    <3>1. lo \in Low .. High /\ hi \in Low .. High
      OBVIOUS
    <3> QED BY <3>1, QueriesExact DEF IsAllocatedExact
  <2>2. ~IsTaken(p)
    <3> SUFFICES ASSUME NEW k \in DOMAIN allocated_, Covers(allocated_, k, p) PROVE FALSE
      BY DEF IsTaken
    <3>1. <<k, allocated_[k]>> \in held
      BY DEF IInv, BookKept
    <3> QED BY <2>1, <3>1 DEF Covers
  <2> QED BY <1>2, <2>2 DEF IInv, Partition
<1>4. PICK j \in DOMAIN free_map_ : Covers(free_map_, j, lo)
  <2>1. lo \in lo .. (hi - 1)
    OBVIOUS
  <2> QED BY <1>3, <2>1 DEF IsFree
<1>5. free_map_[j] < hi
  <2>1. IsPrev(free_map_, lo, j)
    BY <1>1, <1>4 DEF IsPrev, Covers
  <2> QED BY <1>1, <2>1 DEF find_fit_range
<1>6. PICK k \in DOMAIN free_map_ : Covers(free_map_, k, free_map_[j])
  <2>1. free_map_[j] \in lo .. (hi - 1)
    BY <1>1, <1>4, <1>5 DEF Covers
  <2> QED BY <1>3, <2>1 DEF IsFree
<1>7. k = free_map_[j]
  BY <1>1, <1>4, <1>6 DEF Covers
<1> QED BY <1>6, <1>7

LEMMA NextUnmerged ==
    ASSUME 0 \notin Counts
    PROVE  IInv /\ BugIsUnmerged /\ [Next]_vars => BugIsUnmerged'
<1> SUFFICES ASSUME IInv, BugIsUnmerged, [Next]_vars, status' = "throw_bug"
             PROVE  \E k \in DOMAIN free_map_' : free_map_'[k] \in DOMAIN free_map_'
  BY DEF BugIsUnmerged
<1>1. CASE UNCHANGED vars
  BY <1>1 DEF vars, BugIsUnmerged
<1>2. ASSUME NEW cnt \in Counts, allocate_cnt(cnt) PROVE FALSE
  BY <1>2 DEF allocate_cnt, Throw
<1>3. ASSUME NEW p \in Low .. High, deallocate(p) PROVE FALSE
  BY <1>3 DEF deallocate, Throw
<1>4. ASSUME NEW lo \in (Low - 1) .. (High + 1), NEW hi \in (Low - 1) .. (High + 1),
             lo < hi, allocate_range(lo, hi)
      PROVE  \E k \in DOMAIN free_map_' : free_map_'[k] \in DOMAIN free_map_'
  <2>1. /\ Low <= lo /\ hi <= High /\ ~is_allocated_range(lo, hi)
        /\ \A k \in DOMAIN free_map_ : ~find_fit_range(lo, hi, k)
        /\ free_map_' = free_map_
    BY <1>4 DEF allocate_range, Throw
  <2> QED BY <1>4, <2>1, UnfitIsUnmerged
<1> QED BY <1>1, <1>2, <1>3, <1>4 DEF Next

(* allocate(lo, hi) throws "consistency broken" only where deallocate has left two
   free segments that touch (its find after the erase): for every range of ports and
   every history of calls, that is the one cause. *)
THEOREM UnmergedTheorem ==
    ASSUME 0 \notin Counts
    PROVE  Spec => []BugIsUnmerged
<1>1. Init => BugIsUnmerged
  BY DEF Init, BugIsUnmerged
<1>2. IInv /\ BugIsUnmerged /\ [Next]_vars => BugIsUnmerged'
  BY NextUnmerged
<1> QED BY <1>1, <1>2, IInvHolds, PTL DEF Spec
================================================================================

--------------------------- MODULE ShardingProofs ---------------------------
(***************************************************************************)
(* Proofs about Sharding.tla for any number of regions and configurations  *)
(* and any quota.                                                          *)
(***************************************************************************)
EXTENDS Sharding, FiniteSetTheorems, SequenceTheorems, TLAPS

\* The entries of zone z in a list of zones.
Copies(zones, z) == {i \in 1..Len(zones) : zones[i] = z}

Count(zones, z) == Cardinality(Copies(zones, z))

Room(region) == Larger(0, GetMaxShard(region))

\* The entries a loop over the regions has appended for region z so far.
Looped(p, z) ==
  IF z > p.next THEN 0 ELSE IF z = p.next THEN p.added ELSE Room(p.regions[z])

\* In region sharding, usedZones holds a region as often as VMs fit into it, up
\* to where the loops have come.
Counted(p, z) ==
  /\ p.pc = "home" =>
       Count(p.usedZones, z) = IF p.regions[z].home THEN Looped(p, z) ELSE 0
  /\ p.pc = "shuffle" =>
       Count(p.usedZones, z) = IF p.regions[z].home THEN Room(p.regions[z]) ELSE 0
  /\ p.pc = "abroad" =>
       Count(p.usedZones, z) = IF p.regions[z].home THEN Room(p.regions[z]) ELSE Looped(p, z)
  /\ p.pc \in {"check", "split", "deal", "create", "done"} /\ p.regional =>
       /\ Count(p.usedZones, z) <= Room(p.regions[z])
       /\ Len(p.usedZones) < p.configs => Count(p.usedZones, z) = Room(p.regions[z])

ZoneOK(p) ==
  /\ p.usedZones \in Seq(1..Len(p.regions))
  /\ p.pc \in {"home", "abroad"} /\ p.next <= Len(p.regions) =>
       p.added <= Room(p.regions[p.next])
  /\ p.pc \in {"home", "shuffle", "abroad", "check"} => p.regional
  /\ \A z \in 1..Len(p.regions) : Counted(p, z)

AtHome(p) == {i \in 1..Len(p.usedZones) : p.regions[p.usedZones[i]].home}

\* Entries of other continents are there only after the own one was not enough.
HomeOK(p) ==
  /\ \/ AtHome(p) = 1..Len(p.usedZones)
     \/ p.pc \notin {"home", "shuffle"} /\ Cardinality(AtHome(p)) < p.configs
  /\ p.pc = "abroad" => Cardinality(AtHome(p)) < p.configs

\* With n groups dealt round robin up to idx, every group has q entries or one
\* more, and in the first round (q = 0) just idx configurations are out.
Rounds(groups, n, idx, dealt) ==
  \E q \in Nat :
    /\ \A g \in 1..n : Len(groups[g]) = IF g <= idx THEN q + 1 ELSE q
    /\ q = 0 => dealt = idx

\* The groups hold every configuration dealt so far, at one place each.
DealOK(p) ==
  p.pc = "deal" =>
    /\ p.numShards \in 1..(p.configs - 1)
    /\ p.idx < p.numShards
    /\ p.next <= p.configs + 1
    /\ DOMAIN p.groups = 1..p.numShards
    /\ \A g \in DOMAIN p.groups : \A k \in DOMAIN p.groups[g] : p.groups[g][k] < p.next
    /\ Covers(p.groups, p.next - 1)
    /\ Apart(p.groups)
    /\ Rounds(p.groups, p.numShards, p.idx, p.next - 1)

Even(groups) ==
  /\ \A g \in DOMAIN groups : groups[g] # <<>>
  /\ \A g, h \in DOMAIN groups : Len(groups[g]) <= Len(groups[h]) + 1

\* In region sharding there is an entry of usedZones for every group, and
\* groups share only if all entries are used.
GroupOK(p) ==
  /\ p.regional /\ p.pc \in {"split", "deal", "create", "done"} =>
       p.numShards = Len(p.usedZones) /\ p.numShards > 0
  /\ p.pc \in {"create", "done"} =>
       /\ Covers(p.groups, p.configs)
       /\ Apart(p.groups)
       /\ Even(p.groups)
       /\ p.regional => Len(p.groups) = Smaller(p.configs, Len(p.usedZones))

ShardOK(p) ==
  p.pc = "done" =>
    /\ DOMAIN p.shards = DOMAIN p.groups
    /\ \A i \in DOMAIN p.shards :
         /\ p.shards[i].configs = p.groups[i]
         /\ p.shards[i].zone = IF p.regional THEN p.usedZones[i] ELSE 1

LocalOK(p) == p.pc = "local" => ~p.regional

\* The invariant, as a predicate of the plan.
Sound(p) ==
  /\ p \in PlanRecord
  /\ LocalOK(p) /\ ZoneOK(p) /\ HomeOK(p) /\ DealOK(p) /\ GroupOK(p) /\ ShardOK(p)

Inv == Sound(plan)

-----------------------------------------------------------------------------
(* Lemmas about the operators.                                             *)

\* Dividing integers gives an integer.
LEMMA QuotientType ==
  ASSUME NEW a \in Int, NEW b \in Nat, b > 0
  PROVE  Quotient(a, b) \in Int
  BY DEF Quotient

\* The quotas of a region, and what is computed from them, are integers.
LEMMA LimitTypes ==
  ASSUME NEW r \in Region
  PROVE  /\ r.cpus \in Int /\ r.ips \in Int /\ r.ssd \in Int
         /\ DiskSize \in Nat /\ DiskSize > 0
         /\ Quotient(r.cpus, 2) \in Int /\ Quotient(r.ssd, DiskSize) \in Int
<1>1. r.cpus \in Int /\ r.ips \in Int /\ r.ssd \in Int
  BY ShardingAssumption, Zenon DEF Region
<1>2. DiskSize \in Nat /\ DiskSize > 0
  BY ShardingAssumption DEF DiskSize, Larger
<1>3. Quotient(r.cpus, 2) \in Int /\ Quotient(r.ssd, DiskSize) \in Int
  BY <1>1, <1>2, QuotientType, SMTT(60)
<1> QED
  BY <1>1, <1>2, <1>3

\* GetMaxShard is an integer, so Room is a natural number.
LEMMA QuotaType ==
  ASSUME NEW r \in Region
  PROVE  GetMaxShard(r) \in Int /\ Room(r) \in Nat /\ Room(r) >= GetMaxShard(r)
  BY LimitTypes DEF GetMaxShard, Room, Smaller, Larger

\* A positive number of VMs within the quotient fits into the quota.
LEMMA QuotientFits ==
  ASSUME NEW a \in Int, NEW b \in Nat, b > 0, NEW n \in Nat, n > 0,
         n <= Quotient(a, b)
  PROVE  n * b <= a
<1>1. CASE a >= 0
  <2>1. n <= a \div b /\ a \div b \in Int
    BY <1>1 DEF Quotient
  <2>2. b * (a \div b) <= a
    OBVIOUS
  <2>3. b * n <= b * (a \div b)
    BY <2>1
  <2> QED
    BY <2>1, <2>2, <2>3, SMTT(60)
<1>2. CASE a < 0
  <2>1. (-a) \div b >= 0
    BY <1>2
  <2> QED
    BY <1>2, <2>1 DEF Quotient
<1> QED
  BY <1>1, <1>2

\* n VMs that GetMaxShard allows fit into every quota of the region.
LEMMA QuotaFits ==
  ASSUME NEW r \in Region, NEW n \in Nat, n > 0, n <= GetMaxShard(r)
  PROVE  2 * n <= r.cpus /\ n <= r.ips /\ n * DiskSize <= r.ssd
<1>1. r.cpus \in Int /\ r.ips \in Int /\ r.ssd \in Int
  BY LimitTypes
<1>2. DiskSize \in Nat /\ DiskSize > 0
  BY LimitTypes
<1>4. Quotient(r.cpus, 2) \in Int /\ Quotient(r.ssd, DiskSize) \in Int
  BY LimitTypes
<1>5. n <= Quotient(r.cpus, 2) /\ n <= r.ips /\ n <= Quotient(r.ssd, DiskSize)
  BY <1>1, <1>4 DEF GetMaxShard, Smaller
<1>6. n * 2 <= r.cpus
  BY <1>1, <1>5, QuotientFits
<1>7. n * DiskSize <= r.ssd
  BY <1>1, <1>2, <1>5, QuotientFits, SMTT(60)
<1> QED
  BY <1>1, <1>5, <1>6, <1>7, SMTT(60)

\* idx runs through the groups and starts again.
LEMMA IdxWraps ==
  ASSUME NEW n \in Nat, NEW i \in Nat, i < n
  PROVE  (i + 1) % n = IF i + 1 = n THEN 0 ELSE i + 1
  OBVIOUS

\* The two characters of a shardID determine the number of the shard.
THEOREM ShardIDsDiffer ==
  \A i, j \in Nat : ShardID(i) = ShardID(j) => i = j
<1> SUFFICES ASSUME NEW i \in Nat, NEW j \in Nat, ShardID(i) = ShardID(j)
             PROVE  i = j
  OBVIOUS
<1>1. i \div 26 = j \div 26 /\ i % 26 = j % 26
  BY DEF ShardID
<1> QED
  BY <1>1

\* The entries of a zone are counted in natural numbers.
LEMMA CountType ==
  ASSUME NEW S, NEW zones \in Seq(S), NEW z
  PROVE  IsFiniteSet(Copies(zones, z)) /\ Count(zones, z) \in Nat
<1>1. IsFiniteSet(1..Len(zones))
  BY FS_Interval
<1>2. Copies(zones, z) \in SUBSET (1..Len(zones))
  BY DEF Copies
<1>3. IsFiniteSet(Copies(zones, z))
  BY <1>1, <1>2, FS_Subset
<1> QED
  BY <1>3, FS_CardinalityType DEF Count

\* append adds one entry to the count of its zone.
LEMMA CountAppend ==
  ASSUME NEW S, NEW zones \in Seq(S), NEW y \in S, NEW z
  PROVE  Count(Append(zones, y), z) = Count(zones, z) + (IF z = y THEN 1 ELSE 0)
<1>1. Len(Append(zones, y)) = Len(zones) + 1 /\ Len(zones) \in Nat
  OBVIOUS
<1>2. \A i \in 1..(Len(zones) + 1) :
        Append(zones, y)[i] = IF i = Len(zones) + 1 THEN y ELSE zones[i]
  OBVIOUS
<1>3. CASE z = y
  <2>1. Copies(Append(zones, y), z) = Copies(zones, z) \cup {Len(zones) + 1}
    BY <1>1, <1>2, <1>3 DEF Copies
  <2>2. Len(zones) + 1 \notin Copies(zones, z)
    BY <1>1 DEF Copies
  <2> QED
    BY <1>3, <2>1, <2>2, CountType, FS_AddElement, ZenonT(60) DEF Count
<1>4. CASE z # y
  <2>1. Copies(Append(zones, y), z) = Copies(zones, z)
    BY <1>1, <1>2, <1>4 DEF Copies
  <2> QED
    BY <1>4, <2>1, CountType DEF Count
<1> QED
  BY <1>3, <1>4

\* rand.Shuffle keeps the count of every zone.
LEMMA CountShuffle ==
  ASSUME NEW S, NEW zones \in Seq(S), NEW p \in Shuffles(Len(zones)), NEW z
  PROVE  /\ [i \in 1..Len(zones) |-> zones[p[i]]] \in Seq(S)
         /\ Len([i \in 1..Len(zones) |-> zones[p[i]]]) = Len(zones)
         /\ Count([i \in 1..Len(zones) |-> zones[p[i]]], z) = Count(zones, z)
<1> DEFINE n == Len(zones)
           mixed == [i \in 1..n |-> zones[p[i]]]
<1>1. n \in Nat /\ p \in [1..n -> 1..n]
  BY DEF Shuffles, Bijection, Injection
<1>2. mixed \in [1..n -> S]
  BY <1>1
<1>3. mixed \in Seq(S) /\ Len(mixed) = n
  BY <1>1, <1>2
<1> DEFINE f == [i \in Copies(mixed, z) |-> p[i]]
<1>4. f \in [Copies(mixed, z) -> Copies(zones, z)]
  BY <1>1, <1>3, SMTT(60) DEF Copies
<1>5. \A i, j \in Copies(mixed, z) : f[i] = f[j] => i = j
  BY <1>3 DEF Shuffles, Bijection, Injection, IsInjective, Copies
<1>6. \A k \in Copies(zones, z) : \E i \in Copies(mixed, z) : f[i] = k
  BY <1>3, SMTT(60) DEF Shuffles, Bijection, Surjection, Copies
<1>7. f \in Bijection(Copies(mixed, z), Copies(zones, z))
  BY <1>4, <1>5, <1>6, Zenon DEF Bijection, Injection, IsInjective, Surjection
<1>8. ExistsBijection(Copies(mixed, z), Copies(zones, z))
  BY <1>7 DEF ExistsBijection
<1>9. Count(mixed, z) = Count(zones, z)
  <2>1. IsFiniteSet(Copies(mixed, z))
    BY <1>3, CountType, ZenonT(60)
  <2> HIDE DEF mixed
  <2> QED
    BY <1>8, <2>1, FS_Bijection DEF Count
<1> QED
  BY <1>3, <1>9, SMTT(60)

\* What the type of a plan says of the fields the loops use.
LEMMA PlanTypes ==
  ASSUME NEW p \in PlanRecord
  PROVE  /\ p.next \in Nat /\ p.next > 0 /\ p.added \in Nat /\ p.configs \in Nat
         /\ p.numShards \in Int /\ p.regional \in BOOLEAN
         /\ p.regions \in Seq(Region) /\ Len(p.regions) \in Nat
         /\ p.usedZones \in Seq(Nat) /\ Len(p.usedZones) \in Nat
         /\ \A z \in 1..Len(p.regions) :
              /\ p.regions[z] \in Region /\ p.regions[z].home \in BOOLEAN
              /\ Room(p.regions[z]) \in Nat /\ GetMaxShard(p.regions[z]) \in Int
              /\ Room(p.regions[z]) >= GetMaxShard(p.regions[z])
<1>1. /\ p.next \in Nat /\ p.next > 0 /\ p.added \in Nat /\ p.configs \in Nat
      /\ p.numShards \in Int /\ p.regional \in BOOLEAN
      /\ p.regions \in Seq(Region) /\ p.usedZones \in Seq(Nat)
  BY SMTT(60) DEF PlanRecord
<1>2. \A z \in 1..Len(p.regions) : p.regions[z] \in Region
  BY <1>1
<1>3. \A z \in 1..Len(p.regions) : p.regions[z].home \in BOOLEAN
  BY <1>2 DEF Region
<1>4. \A z \in 1..Len(p.regions) :
        /\ Room(p.regions[z]) \in Nat /\ GetMaxShard(p.regions[z]) \in Int
        /\ Room(p.regions[z]) >= GetMaxShard(p.regions[z])
  BY <1>2, QuotaType, ZenonT(60)
<1>5. Len(p.regions) \in Nat /\ Len(p.usedZones) \in Nat
  BY <1>1, SMTT(60)
<1> QED
  BY <1>1, <1>2, <1>3, <1>4, <1>5, ZenonT(60)

-----------------------------------------------------------------------------
(* The invariant is inductive.                                             *)

\* The plan NewShardScheduler begins with is sound.
LEMMA InitInv == Init => Inv
<1> SUFFICES ASSUME Init PROVE Sound(plan)
  BY DEF Inv
<1>1. PICK regional \in BOOLEAN, configs \in 0..MaxConfigs, n \in 0..MaxRegions :
        \E regions \in [1..n -> Region] :
          plan = NewPlan(regional, configs, regions)
  BY DEF Init
<1>2. PICK regions \in [1..n -> Region] : plan = NewPlan(regional, configs, regions)
  BY <1>1
<1>3. regions \in Seq(Region) /\ configs \in Nat
  BY ShardingAssumption, SMTT(60)
<1>4. /\ plan.pc = (IF regional THEN "home" ELSE "local") /\ plan.regional = regional
      /\ plan.next = 1 /\ plan.added = 0 /\ plan.usedZones = <<>>
      /\ plan.regions = regions /\ plan.configs = configs
  BY <1>2 DEF NewPlan
<1>5. plan \in PlanRecord
  BY <1>2, <1>3 DEF NewPlan, PlanRecord, PC
<1>6. \A z : Copies(<<>>, z) = {} /\ Count(<<>>, z) = 0
  BY FS_EmptySet DEF Copies, Count
<1>7. ZoneOK(plan)
  BY <1>4, <1>5, <1>6, PlanTypes, SMTT(60) DEF ZoneOK, Counted, Looped
<1>8. HomeOK(plan)
  BY <1>4 DEF HomeOK, AtHome
<1>9. DealOK(plan) /\ GroupOK(plan) /\ ShardOK(plan)
  BY <1>4 DEF DealOK, GroupOK, ShardOK
<1> QED
  BY <1>4, <1>5, <1>7, <1>8, <1>9 DEF Sound, LocalOK

\* One more entry for the region a loop is at, and on to the next region.
LEMMA AddHomeInv == Sound(plan) /\ AddHome => Sound(plan')
<1> SUFFICES ASSUME Sound(plan), AddHome PROVE Sound(plan')
  OBVIOUS
<1>1. plan \in PlanRecord /\ ZoneOK(plan) /\ HomeOK(plan)
  BY SMTT(60) DEF Sound
<1>2. /\ plan.pc = "home" /\ plan.next \in 1..Len(plan.regions)
      /\ plan.regions[plan.next].home
      /\ plan.added < GetMaxShard(plan.regions[plan.next])
  BY <1>1, PlanTypes DEF AddHome, Current, OnContinent
<1>3. plan' \in PlanRecord
  <2>1. Append(plan.usedZones, plan.next) \in Seq(Nat) /\ plan.added + 1 \in Nat
    BY <1>1, PlanTypes
  <2> QED
    BY <1>1, <2>1, ZenonT(60) DEF AddHome, Append1, PlanRecord
<1>4. /\ plan'.pc = "home" /\ plan'.regional = plan.regional
      /\ plan'.next = plan.next /\ plan'.added = plan.added + 1
      /\ plan'.usedZones = Append(plan.usedZones, plan.next)
      /\ plan'.regions = plan.regions /\ plan'.configs = plan.configs
  BY <1>1, <1>2 DEF AddHome, Append1, PlanRecord
<1>5. plan.usedZones \in Seq(1..Len(plan.regions))
  BY <1>1 DEF ZoneOK
<1>6. plan'.usedZones \in Seq(1..Len(plan'.regions))
  BY <1>2, <1>4, <1>5, SMTT(60)
<1>7. ASSUME NEW z \in 1..Len(plan.regions) PROVE Counted(plan', z)
  <2>1. Count(plan'.usedZones, z) =
          Count(plan.usedZones, z) + (IF z = plan.next THEN 1 ELSE 0)
    BY <1>2, <1>4, <1>5, CountAppend, SMTT(60)
  <2>2. Count(plan.usedZones, z) = IF plan.regions[z].home THEN Looped(plan, z) ELSE 0
    BY <1>1, <1>2, <1>7, SMTT(60) DEF ZoneOK, Counted
  <2>3. Looped(plan', z) = IF z = plan.next THEN plan.added + 1 ELSE Looped(plan, z)
    BY <1>4 DEF Looped
  <2>4. Looped(plan, z) \in Nat
    BY <1>1, PlanTypes, SMTT(60) DEF Looped
  <2>5. z = plan.next => Looped(plan, z) = plan.added
    BY <1>1, PlanTypes, SMTT(60) DEF Looped
  <2> QED
    BY <1>2, <1>4, <2>1, <2>2, <2>3, <2>4, <2>5, SMTT(60) DEF Counted
<1>8. ZoneOK(plan')
  BY <1>1, <1>2, <1>4, <1>6, <1>7, PlanTypes, SMTT(60) DEF ZoneOK
<1>9. HomeOK(plan')
  <2>1. AtHome(plan) = 1..Len(plan.usedZones)
    BY <1>1, <1>2 DEF HomeOK
  <2>2. Len(plan'.usedZones) = Len(plan.usedZones) + 1 /\ Len(plan.usedZones) \in Nat
    BY <1>4, <1>5
  <2>3. \A i \in 1..Len(plan'.usedZones) :
          plan'.usedZones[i] = IF i = Len(plan.usedZones) + 1 THEN plan.next
                               ELSE plan.usedZones[i]
    BY <1>4, <1>5, <2>2, SMTT(60)
  <2>4. \A i \in 1..Len(plan.usedZones) : plan.regions[plan.usedZones[i]].home
    BY <2>1 DEF AtHome
  <2> QED
    BY <1>2, <1>4, <2>2, <2>3, <2>4, SMTT(60) DEF HomeOK, AtHome
<1>10. DealOK(plan') /\ GroupOK(plan') /\ ShardOK(plan')
  BY <1>4 DEF DealOK, GroupOK, ShardOK
<1> QED
  BY <1>3, <1>4, <1>8, <1>9, <1>10, SMTT(60) DEF Sound, LocalOK

\* A loop goes on to the next region once it has filled the current one.
LEMMA NextHomeInv == Sound(plan) /\ NextHome => Sound(plan')
<1> SUFFICES ASSUME Sound(plan), NextHome PROVE Sound(plan')
  OBVIOUS
<1>1. plan \in PlanRecord /\ ZoneOK(plan) /\ HomeOK(plan)
  BY DEF Sound
<1>2. /\ plan.pc = "home" /\ plan.next \in 1..Len(plan.regions)
      /\ \/ ~plan.regions[plan.next].home
         \/ plan.added >= GetMaxShard(plan.regions[plan.next])
  BY <1>1, PlanTypes DEF NextHome, Current, OnContinent
<1>3. plan' \in PlanRecord
  <2>1. plan.next + 1 \in Nat \ {0}
    BY <1>1, PlanTypes
  <2> QED
    BY <1>1, <2>1, ZenonT(60) DEF NextHome, NextRegion, PlanRecord
<1>4. /\ plan'.pc = "home" /\ plan'.regional = plan.regional
      /\ plan'.next = plan.next + 1 /\ plan'.added = 0
      /\ plan'.usedZones = plan.usedZones
      /\ plan'.regions = plan.regions /\ plan'.configs = plan.configs
  BY <1>1, <1>2, SMTT(60) DEF NextHome, NextRegion, PlanRecord
<1>5. plan.added <= Room(plan.regions[plan.next])
  BY <1>1, <1>2, SMTT(60) DEF ZoneOK
<1>6. plan.regions[plan.next].home => plan.added = Room(plan.regions[plan.next])
  BY <1>1, <1>2, <1>5, PlanTypes, SMTT(60) DEF Room, Larger
<1>7. ASSUME NEW z \in 1..Len(plan.regions) PROVE Counted(plan', z)
  <2>1. Count(plan.usedZones, z) = IF plan.regions[z].home THEN Looped(plan, z) ELSE 0
    BY <1>1, <1>2, <1>7, SMTT(60) DEF ZoneOK, Counted
  <2>2. plan.regions[z].home => Looped(plan', z) = Looped(plan, z)
    BY <1>1, <1>4, <1>6, PlanTypes, SMTT(60) DEF Looped
  <2> QED
    BY <1>4, <2>1, <2>2, SMTT(60) DEF Counted
<1>8. ZoneOK(plan')
  <2>1. plan'.next <= Len(plan.regions) => plan'.next \in 1..Len(plan.regions)
    BY <1>1, <1>4, PlanTypes
  <2> QED
    BY <1>1, <1>2, <1>4, <1>7, <2>1, PlanTypes, SMTT(120) DEF ZoneOK
<1>9. HomeOK(plan')
  BY <1>1, <1>2, <1>4 DEF HomeOK, AtHome
<1>10. DealOK(plan') /\ GroupOK(plan') /\ ShardOK(plan')
  BY <1>4 DEF DealOK, GroupOK, ShardOK
<1> QED
  BY <1>3, <1>4, <1>8, <1>9, <1>10, SMTT(60) DEF Sound, LocalOK

\* After the last region, every region of the continent is filled.
LEMMA HomeDoneInv == Sound(plan) /\ HomeDone => Sound(plan')
<1> SUFFICES ASSUME Sound(plan), HomeDone PROVE Sound(plan')
  OBVIOUS
<1>1. plan \in PlanRecord /\ ZoneOK(plan) /\ HomeOK(plan)
  BY DEF Sound
<1>2. plan.pc = "home" /\ plan.next > Len(plan.regions)
  BY DEF HomeDone
<1>3. plan' \in PlanRecord
  BY <1>1, ZenonT(60) DEF HomeDone, PlanRecord, PC
<1>4. /\ plan'.pc = "shuffle" /\ plan'.regional = plan.regional
      /\ plan'.usedZones = plan.usedZones
      /\ plan'.regions = plan.regions /\ plan'.configs = plan.configs
  BY <1>1, <1>2 DEF HomeDone, PlanRecord
<1>5. ASSUME NEW z \in 1..Len(plan.regions) PROVE Counted(plan', z)
  <2>1. Count(plan.usedZones, z) = IF plan.regions[z].home THEN Looped(plan, z) ELSE 0
    BY <1>1, <1>2, <1>5, SMTT(60) DEF ZoneOK, Counted
  <2>2. Looped(plan, z) = Room(plan.regions[z])
    BY <1>1, <1>2, PlanTypes, SMTT(60) DEF Looped
  <2> QED
    BY <1>4, <2>1, <2>2, SMTT(60) DEF Counted
<1>6. ZoneOK(plan')
  BY <1>1, <1>2, <1>4, <1>5, SMTT(60) DEF ZoneOK
<1>7. HomeOK(plan')
  BY <1>1, <1>2, <1>4, SMTT(60) DEF HomeOK, AtHome
<1>8. DealOK(plan') /\ GroupOK(plan') /\ ShardOK(plan')
  BY <1>4 DEF DealOK, GroupOK, ShardOK
<1> QED
  BY <1>3, <1>4, <1>6, <1>7, <1>8, SMTT(60) DEF Sound, LocalOK

\* Shuffling changes the order of usedZones only.
LEMMA ShuffleInv == Sound(plan) /\ Shuffle => Sound(plan')
<1> SUFFICES ASSUME Sound(plan), Shuffle PROVE Sound(plan')
  OBVIOUS
<1>1. plan \in PlanRecord /\ ZoneOK(plan) /\ HomeOK(plan) /\ plan.pc = "shuffle"
  BY SMTT(30) DEF Sound, Shuffle
<1>2. PICK p \in Shuffles(Len(plan.usedZones)) :
        plan' = [plan EXCEPT !.usedZones = [i \in 1..Len(@) |-> @[p[i]]],
                             !.next = 1, !.added = 0,
                             !.pc = IF GoAbroad THEN "abroad" ELSE "check"]
  BY Zenon DEF Shuffle
<1> DEFINE mixed == [i \in 1..Len(plan.usedZones) |-> plan.usedZones[p[i]]]
<1>3. /\ plan'.pc = (IF GoAbroad THEN "abroad" ELSE "check")
      /\ plan'.next = 1 /\ plan'.added = 0 /\ plan'.regional = plan.regional
      /\ plan'.usedZones = mixed
      /\ plan'.regions = plan.regions /\ plan'.configs = plan.configs
  BY <1>1, <1>2, SMTT(60) DEF PlanRecord
<1>4. plan.usedZones \in Seq(1..Len(plan.regions)) /\ plan.usedZones \in Seq(Nat)
  BY <1>1, PlanTypes DEF ZoneOK
<1>5. /\ mixed \in Seq(1..Len(plan.regions)) /\ mixed \in Seq(Nat)
      /\ Len(mixed) = Len(plan.usedZones)
      /\ \A z : Count(mixed, z) = Count(plan.usedZones, z)
  <2>1. ASSUME NEW z
        PROVE  /\ mixed \in Seq(1..Len(plan.regions))
               /\ Len(mixed) = Len(plan.usedZones)
               /\ Count(mixed, z) = Count(plan.usedZones, z)
    BY <1>4, CountShuffle, ZenonT(120)
  <2>2. mixed \in Seq(Nat)
    BY <1>4, CountShuffle, Zenon
  <2> QED
    BY <2>1, <2>2, ZenonT(60)
<1> HIDE DEF mixed
<1>6. plan' \in PlanRecord
  <2> DEFINE c == IF GoAbroad THEN "abroad" ELSE "check"
  <2>1. plan' = [plan EXCEPT !.usedZones = mixed, !.next = 1, !.added = 0, !.pc = c]
    BY <1>1, <1>2 DEF PlanRecord, mixed
  <2>2. c \in PC /\ mixed \in Seq(Nat)
    BY <1>5 DEF PC
  <2>3. plan \in PlanRecord /\ 1 \in Nat \ {0} /\ 0 \in Nat
    BY <1>1
  <2> HIDE DEF c
  <2> QED
    BY <2>1, <2>2, <2>3, Zenon DEF PlanRecord
<1>7. GoAbroad <=> Len(plan'.usedZones) < plan.configs
  BY <1>3, <1>5 DEF GoAbroad
<1>8. ASSUME NEW z \in 1..Len(plan.regions) PROVE Counted(plan', z)
  <2>1. Count(mixed, z) = IF plan.regions[z].home THEN Room(plan.regions[z]) ELSE 0
    BY <1>1, <1>5, <1>8 DEF ZoneOK, Counted
  <2>2. Looped(plan', z) = 0
    BY <1>3 DEF Looped
  <2>3. Room(plan.regions[z]) \in Nat
    BY <1>1, PlanTypes
  <2>4. CASE GoAbroad
    BY <1>3, <2>1, <2>2, <2>4, SMTT(60) DEF Counted
  <2>5. CASE ~GoAbroad
    <3>1. plan'.pc = "check" /\ ~(Len(plan'.usedZones) < plan'.configs)
      BY <1>3, <1>7, <2>5, SMTT(60)
    <3>2. Count(plan'.usedZones, z) <= Room(plan'.regions[z])
      BY <1>3, <2>1, <2>3, SMTT(60)
    <3> QED
      BY <3>1, <3>2 DEF Counted
  <2> QED
    BY <2>4, <2>5
<1>9. ZoneOK(plan')
  <2>1. plan'.next <= Len(plan.regions) => plan'.added <= Room(plan.regions[plan'.next])
    BY <1>1, <1>3, PlanTypes, SMTT(60)
  <2>2. plan'.regional
    BY <1>1, <1>3 DEF ZoneOK
  <2> QED
    BY <1>3, <1>5, <1>8, <2>1, <2>2, SMTT(60) DEF ZoneOK
<1>10. AtHome(plan') = 1..Len(plan'.usedZones)
  <2>1. \A i \in 1..Len(plan.usedZones) : plan.regions[plan.usedZones[i]].home
    BY <1>1 DEF HomeOK, AtHome
  <2>2. \A i \in 1..Len(plan.usedZones) :
          p[i] \in 1..Len(plan.usedZones) /\ mixed[i] = plan.usedZones[p[i]]
    BY DEF Shuffles, Bijection, Injection, mixed
  <2>3. \A i \in 1..Len(plan.usedZones) : plan.regions[mixed[i]].home
    BY <2>1, <2>2, SMTT(60)
  <2>4. \A i \in 1..Len(plan'.usedZones) : plan'.regions[plan'.usedZones[i]].home
    BY <1>3, <1>5, <2>3, SMTT(60)
  <2> QED
    BY <2>4, ZenonT(60) DEF AtHome
<1>11. HomeOK(plan')
  <2>1. Len(plan'.usedZones) \in Nat
    BY <1>6, PlanTypes, SMTT(60)
  <2>2. Cardinality(AtHome(plan')) = Len(plan'.usedZones)
    BY <1>10, <2>1, FS_Interval, SMTT(60)
  <2> QED
    BY <1>3, <1>7, <1>10, <2>2, SMTT(60) DEF HomeOK
<1>12. DealOK(plan') /\ GroupOK(plan') /\ ShardOK(plan')
  BY <1>3 DEF DealOK, GroupOK, ShardOK
<1> QED
  BY <1>3, <1>6, <1>9, <1>11, <1>12, SMTT(60) DEF Sound, LocalOK

\* The second loop, over the regions of other continents.
LEMMA AddAbroadInv == Sound(plan) /\ AddAbroad => Sound(plan')
<1> SUFFICES ASSUME Sound(plan), AddAbroad PROVE Sound(plan')
  OBVIOUS
<1>1. plan \in PlanRecord /\ ZoneOK(plan) /\ HomeOK(plan)
  BY DEF Sound
<1>2. /\ plan.pc = "abroad" /\ plan.next \in 1..Len(plan.regions)
      /\ ~plan.regions[plan.next].home
      /\ plan.added < GetMaxShard(plan.regions[plan.next])
  BY <1>1, PlanTypes DEF AddAbroad, Current, OnContinent
<1>3. plan' \in PlanRecord
  <2>1. Append(plan.usedZones, plan.next) \in Seq(Nat) /\ plan.added + 1 \in Nat
    BY <1>1, PlanTypes
  <2> QED
    BY <1>1, <2>1, ZenonT(60) DEF AddAbroad, Append1, PlanRecord
<1>4. /\ plan'.pc = "abroad" /\ plan'.regional = plan.regional
      /\ plan'.next = plan.next /\ plan'.added = plan.added + 1
      /\ plan'.usedZones = Append(plan.usedZones, plan.next)
      /\ plan'.regions = plan.regions /\ plan'.configs = plan.configs
  BY <1>1, <1>2, SMTT(60) DEF AddAbroad, Append1, PlanRecord
<1>5. plan.usedZones \in Seq(1..Len(plan.regions))
  BY <1>1 DEF ZoneOK
<1>6. plan'.usedZones \in Seq(1..Len(plan'.regions))
  BY <1>2, <1>4, <1>5, SMTT(60)
<1>7. ASSUME NEW z \in 1..Len(plan.regions) PROVE Counted(plan', z)
  <2>1. Count(plan'.usedZones, z) =
          Count(plan.usedZones, z) + (IF z = plan.next THEN 1 ELSE 0)
    BY <1>2, <1>4, <1>5, CountAppend, SMTT(60)
  <2>2. Count(plan.usedZones, z) =
          IF plan.regions[z].home THEN Room(plan.regions[z]) ELSE Looped(plan, z)
    BY <1>1, <1>2, <1>7, SMTT(60) DEF ZoneOK, Counted
  <2>3. Looped(plan', z) = IF z = plan.next THEN plan.added + 1 ELSE Looped(plan, z)
    BY <1>4 DEF Looped
  <2>4. Looped(plan, z) \in Nat /\ Room(plan.regions[z]) \in Nat
    BY <1>1, PlanTypes, SMTT(60) DEF Looped
  <2>5. z = plan.next => Looped(plan, z) = plan.added
    BY <1>1, PlanTypes DEF Looped
  <2> QED
    BY <1>2, <1>4, <2>1, <2>2, <2>3, <2>4, <2>5, SMTT(60) DEF Counted
<1>8. ZoneOK(plan')
  BY <1>1, <1>2, <1>4, <1>6, <1>7, PlanTypes, SMTT(60) DEF ZoneOK
<1>9. HomeOK(plan')
  <2>1. Len(plan'.usedZones) = Len(plan.usedZones) + 1 /\ Len(plan.usedZones) \in Nat
    BY <1>4, <1>5, SMTT(60)
  <2>2. \A i \in 1..Len(plan'.usedZones) :
          plan'.usedZones[i] = IF i = Len(plan.usedZones) + 1 THEN plan.next
                               ELSE plan.usedZones[i]
    BY <1>4, <1>5, <2>1, SMTT(60)
  <2>3. AtHome(plan') = AtHome(plan)
    BY <1>2, <1>4, <2>1, <2>2, SMTT(60) DEF AtHome
  <2>4. Cardinality(AtHome(plan)) < plan.configs
    BY <1>1, <1>2, SMTT(60) DEF HomeOK
  <2> QED
    BY <1>4, <2>3, <2>4, SMTT(60) DEF HomeOK
<1>10. DealOK(plan') /\ GroupOK(plan') /\ ShardOK(plan')
  BY <1>4 DEF DealOK, GroupOK, ShardOK
<1> QED
  BY <1>3, <1>4, <1>8, <1>9, <1>10, SMTT(60) DEF Sound, LocalOK

\* On to the next region, unless every configuration has its entry by now.
LEMMA NextAbroadInv == Sound(plan) /\ NextAbroad => Sound(plan')
<1> SUFFICES ASSUME Sound(plan), NextAbroad PROVE Sound(plan')
  OBVIOUS
<1>1. plan \in PlanRecord /\ ZoneOK(plan) /\ HomeOK(plan)
  BY DEF Sound
<1>2. /\ plan.pc = "abroad" /\ plan.next \in 1..Len(plan.regions)
      /\ \/ plan.regions[plan.next].home
         \/ plan.added >= GetMaxShard(plan.regions[plan.next])
  BY <1>1, PlanTypes DEF NextAbroad, Current, OnContinent
<1>3. plan.added <= Room(plan.regions[plan.next])
  BY <1>1, <1>2, SMTT(60) DEF ZoneOK
<1>4. ~plan.regions[plan.next].home => plan.added = Room(plan.regions[plan.next])
  BY <1>1, <1>2, <1>3, PlanTypes, SMTT(60) DEF Room, Larger
<1>5. \A z \in 1..Len(plan.regions) :
        Count(plan.usedZones, z) =
          IF plan.regions[z].home THEN Room(plan.regions[z]) ELSE Looped(plan, z)
  BY <1>1, <1>2 DEF ZoneOK, Counted
<1>6. CASE Len(plan.usedZones) >= plan.configs
  <2>1. /\ plan'.pc = "check" /\ plan'.regional = plan.regional
        /\ plan'.usedZones = plan.usedZones
        /\ plan'.regions = plan.regions /\ plan'.configs = plan.configs
    BY <1>1, <1>6 DEF NextAbroad, PlanRecord
  <2>2. plan' \in PlanRecord
    BY <1>1, <1>6, ZenonT(60) DEF NextAbroad, PlanRecord, PC
  <2>3. ASSUME NEW z \in 1..Len(plan.regions) PROVE Counted(plan', z)
    <3>1. Looped(plan, z) <= Room(plan.regions[z])
      BY <1>1, <1>3, PlanTypes, SMTT(60) DEF Looped
    <3>2. Count(plan.usedZones, z) <= Room(plan.regions[z])
      BY <1>1, <1>5, <3>1, PlanTypes, SMTT(60)
    <3>3. ~(Len(plan.usedZones) < plan.configs)
      BY <1>1, <1>6, PlanTypes
    <3> QED
      BY <2>1, <3>2, <3>3, SMTT(60) DEF Counted
  <2>4. ZoneOK(plan')
    BY <1>1, <1>2, <2>1, <2>3, SMTT(120) DEF ZoneOK
  <2>5. HomeOK(plan')
    BY <1>1, <1>2, <2>1, SMTT(60), Z3T(60) DEF HomeOK, AtHome
  <2>6. DealOK(plan') /\ GroupOK(plan') /\ ShardOK(plan')
    BY <2>1 DEF DealOK, GroupOK, ShardOK
  <2> QED
    BY <2>1, <2>2, <2>4, <2>5, <2>6, SMTT(60) DEF Sound, LocalOK
<1>7. CASE ~(Len(plan.usedZones) >= plan.configs)
  <2>1. /\ plan'.pc = "abroad" /\ plan'.regional = plan.regional
        /\ plan'.next = plan.next + 1 /\ plan'.added = 0
        /\ plan'.usedZones = plan.usedZones
        /\ plan'.regions = plan.regions /\ plan'.configs = plan.configs
    BY <1>1, <1>2, <1>7, SMTT(60) DEF NextAbroad, NextRegion, PlanRecord
  <2>2. plan' \in PlanRecord
    <3>1. plan.next + 1 \in Nat \ {0}
      BY <1>1, PlanTypes
    <3> QED
      BY <1>1, <1>7, <3>1, ZenonT(60) DEF NextAbroad, NextRegion, PlanRecord
  <2>3. ASSUME NEW z \in 1..Len(plan.regions) PROVE Counted(plan', z)
    <3>1. ~plan.regions[z].home => Looped(plan', z) = Looped(plan, z)
      BY <1>1, <1>4, <2>1, PlanTypes, SMTT(60) DEF Looped
    <3> QED
      BY <1>5, <2>1, <3>1, SMTT(60) DEF Counted
  <2>4. ZoneOK(plan')
    <3>1. plan'.next <= Len(plan.regions) => plan'.next \in 1..Len(plan.regions)
      BY <1>1, <2>1, PlanTypes
    <3> QED
      BY <1>1, <1>2, <2>1, <2>3, <3>1, PlanTypes, SMTT(120) DEF ZoneOK
  <2>5. HomeOK(plan')
    BY <1>1, <1>2, <2>1, SMTT(60), Z3T(60) DEF HomeOK, AtHome
  <2>6. DealOK(plan') /\ GroupOK(plan') /\ ShardOK(plan')
    BY <2>1 DEF DealOK, GroupOK, ShardOK
  <2> QED
    BY <2>1, <2>2, <2>4, <2>5, <2>6, SMTT(60) DEF Sound, LocalOK
<1> QED
  BY <1>6, <1>7, SMTT(60)

\* After the last region, every region of the project is filled.
LEMMA AbroadDoneInv == Sound(plan) /\ AbroadDone => Sound(plan')
<1> SUFFICES ASSUME Sound(plan), AbroadDone PROVE Sound(plan')
  OBVIOUS
<1>1. plan \in PlanRecord /\ ZoneOK(plan) /\ HomeOK(plan)
  BY DEF Sound
<1>2. plan.pc = "abroad" /\ plan.next > Len(plan.regions)
  BY DEF AbroadDone
<1>3. plan' \in PlanRecord
  BY <1>1, ZenonT(60) DEF AbroadDone, PlanRecord, PC
<1>4. /\ plan'.pc = "check" /\ plan'.regional = plan.regional
      /\ plan'.usedZones = plan.usedZones
      /\ plan'.regions = plan.regions /\ plan'.configs = plan.configs
  BY <1>1, <1>2 DEF AbroadDone, PlanRecord
<1>5. ASSUME NEW z \in 1..Len(plan.regions) PROVE Counted(plan', z)
  <2>1. Count(plan.usedZones, z) =
          IF plan.regions[z].home THEN Room(plan.regions[z]) ELSE Looped(plan, z)
    BY <1>1, <1>2, <1>5, SMTT(60) DEF ZoneOK, Counted
  <2>2. Looped(plan, z) = Room(plan.regions[z])
    BY <1>1, <1>2, PlanTypes, SMTT(60) DEF Looped
  <2>3. Room(plan.regions[z]) \in Nat
    BY <1>1, PlanTypes, SMTT(60)
  <2> QED
    BY <1>4, <2>1, <2>2, <2>3, SMTT(60) DEF Counted
<1>6. ZoneOK(plan')
  BY <1>1, <1>2, <1>4, <1>5, SMTT(120) DEF ZoneOK
<1>7. HomeOK(plan')
  BY <1>1, <1>2, <1>4, SMTT(60) DEF HomeOK, AtHome
<1>8. DealOK(plan') /\ GroupOK(plan') /\ ShardOK(plan')
  BY <1>4 DEF DealOK, GroupOK, ShardOK
<1> QED
  BY <1>3, <1>4, <1>6, <1>7, <1>8, SMTT(60) DEF Sound, LocalOK

\* The number of shards is the number of entries, unless there is none.
LEMMA CheckInv == Sound(plan) /\ Check => Sound(plan')
<1> SUFFICES ASSUME Sound(plan), Check PROVE Sound(plan')
  OBVIOUS
<1>1. plan \in PlanRecord /\ ZoneOK(plan) /\ HomeOK(plan) /\ plan.pc = "check"
  BY DEF Sound, Check
<1>2. Len(plan.usedZones) \in Nat
  BY <1>1, PlanTypes, SMTT(60)
<1>3. plan' \in PlanRecord
  <2>1. CASE Len(plan.usedZones) = 0
    BY <1>1, <2>1, ZenonT(60) DEF Check, PlanRecord, PC
  <2>2. CASE Len(plan.usedZones) # 0
    <3>1. /\ plan' = [plan EXCEPT !.pc = "split", !.numShards = Len(plan.usedZones)]
          /\ plan \in PlanRecord /\ Len(plan.usedZones) \in Int /\ "split" \in PC
      BY <1>1, <1>2, <2>2, SMTT(60) DEF Check, PC
    <3> QED
      BY <3>1, ZenonT(60) DEF PlanRecord
  <2> QED
    BY <2>1, <2>2
<1>4. /\ \/ plan'.pc = "panic"
         \/ /\ plan'.pc = "split" /\ plan'.numShards = Len(plan.usedZones)
            /\ plan'.numShards > 0
      /\ plan'.usedZones = plan.usedZones /\ plan'.regional = plan.regional
      /\ plan'.regions = plan.regions /\ plan'.configs = plan.configs
  BY <1>1, <1>2, SMTT(60) DEF Check, PlanRecord
<1>5. ZoneOK(plan')
  BY <1>1, <1>4, SMTT(60) DEF ZoneOK, Counted
<1>6. HomeOK(plan')
  BY <1>1, <1>4, SMTT(60) DEF HomeOK, AtHome
<1>7. DealOK(plan') /\ GroupOK(plan') /\ ShardOK(plan')
  BY <1>4 DEF DealOK, GroupOK, ShardOK
<1> QED
  BY <1>3, <1>4, <1>5, <1>6, <1>7, SMTT(60) DEF Sound, LocalOK

\* Local sharding takes its number of shards from the own region.
LEMMA LocalInv == Sound(plan) /\ (Local \/ LocalPanics) => Sound(plan')
<1> SUFFICES ASSUME Sound(plan), Local \/ LocalPanics PROVE Sound(plan')
  OBVIOUS
<1>1. plan \in PlanRecord /\ ZoneOK(plan) /\ HomeOK(plan) /\ GroupOK(plan)
  BY DEF Sound
<1>2. plan.pc = "local" /\ ~plan.regional
  BY DEF Sound, LocalOK, Local, LocalPanics
<1>3. Len(plan.regions) > 0 => GetMaxShard(plan.regions[1]) \in Int
  BY <1>1, PlanTypes
<1>4. plan' \in PlanRecord
  <2>1. "split" \in PC /\ "panic" \in PC
    BY DEF PC
  <2>2. CASE Local
    BY <1>1, <1>3, <2>1, <2>2, ZenonT(60) DEF Local, PlanRecord
  <2>3. CASE LocalPanics
    BY <1>1, <2>1, <2>3, ZenonT(60) DEF LocalPanics, PlanRecord
  <2> QED
    BY <2>2, <2>3
<1>5. /\ plan'.pc \in {"split", "panic"}
      /\ plan'.usedZones = plan.usedZones /\ plan'.regional = plan.regional
      /\ plan'.regions = plan.regions /\ plan'.configs = plan.configs
  BY <1>1, <1>2, ZenonT(60) DEF Local, LocalPanics, PlanRecord
<1>6. ZoneOK(plan')
  BY <1>1, <1>2, <1>5 DEF ZoneOK, Counted
<1>7. HomeOK(plan')
  BY <1>1, <1>2, <1>5, SMTT(60) DEF HomeOK, AtHome
<1>8. DealOK(plan') /\ GroupOK(plan') /\ ShardOK(plan')
  BY <1>2, <1>5 DEF DealOK, GroupOK, ShardOK
<1> QED
  BY <1>4, <1>6, <1>7, <1>8, <1>2, <1>5, SMTT(60) DEF Sound, LocalOK

\* One group for each configuration, or empty groups to deal to.
LEMMA SplitInv == Sound(plan) /\ Split => Sound(plan')
<1> SUFFICES ASSUME Sound(plan), Split PROVE Sound(plan')
  OBVIOUS
<1>1. plan \in PlanRecord /\ ZoneOK(plan) /\ HomeOK(plan) /\ GroupOK(plan)
      /\ plan.pc = "split"
  BY SMTT(60) DEF Sound, Split
<1>2. /\ plan.configs \in Nat /\ plan.numShards \in Int
      /\ Len(plan.usedZones) \in Nat
      /\ plan.regional => plan.numShards = Len(plan.usedZones) /\ plan.numShards > 0
  BY <1>1, PlanTypes DEF GroupOK
<1>3. CASE OneEach
  <2> DEFINE gs == [i \in 1..plan.configs |-> <<i>>]
  <2>1. plan' = [plan EXCEPT !.pc = "create", !.groups = gs]
    BY <1>3 DEF Split
  <2>2. gs \in Seq(Seq(Nat)) /\ Len(gs) = plan.configs
    <3>1. \A i \in 1..plan.configs : <<i>> \in Seq(Nat)
      BY <1>2
    <3>2. gs \in [1..plan.configs -> Seq(Nat)]
      BY <3>1
    <3> HIDE DEF gs
    <3> QED
      BY <1>2, <3>2, SMTT(60)
  <2>3. /\ DOMAIN gs = 1..plan.configs
        /\ \A i \in 1..plan.configs : gs[i] # <<>> /\ Len(gs[i]) = 1 /\ DOMAIN gs[i] = {1}
        /\ \A i \in 1..plan.configs : gs[i][1] = i
    OBVIOUS
  <2> HIDE DEF gs
  <2>4. plan' \in PlanRecord
    BY <1>1, <2>1, <2>2, ZenonT(60) DEF PlanRecord, PC
  <2>5. /\ plan'.pc = "create" /\ plan'.groups = gs
        /\ plan'.numShards = plan.numShards
        /\ plan'.usedZones = plan.usedZones /\ plan'.regional = plan.regional
        /\ plan'.regions = plan.regions /\ plan'.configs = plan.configs
    BY <1>1, <2>1, SMTT(60) DEF PlanRecord
  <2>6. Covers(gs, plan.configs) /\ Apart(gs)
    BY <2>3 DEF Covers, Apart
  <2>7. Even(gs)
    BY <2>3 DEF Even
  <2>8. plan.regional => Len(gs) = Smaller(plan.configs, Len(plan.usedZones))
    BY <1>2, <1>3, <2>2, SMTT(60) DEF OneEach, Smaller
  <2>9. DealOK(plan') /\ GroupOK(plan') /\ ShardOK(plan')
    BY <1>2, <2>5, <2>6, <2>7, <2>8, SMTT(60) DEF DealOK, GroupOK, ShardOK
  <2>10. ZoneOK(plan') /\ HomeOK(plan')
    BY <1>1, <2>5, SMTT(60), Z3T(60) DEF ZoneOK, Counted, HomeOK, AtHome
  <2> QED
    BY <2>4, <2>5, <2>9, <2>10, SMTT(60) DEF Sound, LocalOK
<1>4. CASE ~OneEach
  <2> DEFINE gs == [i \in 1..plan.numShards |-> <<>>]
  <2>1. plan' = [plan EXCEPT !.pc = "deal", !.next = 1, !.idx = 0, !.groups = gs]
    BY <1>4 DEF Split
  <2>2. plan.numShards \in 1..(plan.configs - 1)
    BY <1>2, <1>4 DEF OneEach
  <2>3. gs \in Seq(Seq(Nat))
    <3>1. gs \in [1..plan.numShards -> Seq(Nat)] /\ plan.numShards \in Nat
      BY <2>2
    <3> HIDE DEF gs
    <3> QED
      BY <3>1
  <2>4. /\ DOMAIN gs = 1..plan.numShards
        /\ \A g \in 1..plan.numShards : Len(gs[g]) = 0 /\ DOMAIN gs[g] = {}
    OBVIOUS
  <2> HIDE DEF gs
  <2>5. plan' \in PlanRecord
    <3>1. plan \in PlanRecord /\ 1 \in Nat \ {0} /\ 0 \in Nat /\ "deal" \in PC
      BY <1>1 DEF PC
    <3> QED
      BY <2>1, <2>3, <3>1, ZenonT(60) DEF PlanRecord
  <2>6. /\ plan'.pc = "deal" /\ plan'.groups = gs /\ plan'.next = 1 /\ plan'.idx = 0
        /\ plan'.numShards = plan.numShards
        /\ plan'.usedZones = plan.usedZones /\ plan'.regional = plan.regional
        /\ plan'.regions = plan.regions /\ plan'.configs = plan.configs
    BY <1>1, <2>1 DEF PlanRecord
  <2>7. Covers(gs, 0) /\ Apart(gs) /\ Rounds(gs, plan.numShards, 0, 0)
    <3>1. Covers(gs, 0) /\ Apart(gs)
      BY <2>4 DEF Covers, Apart
    <3>2. \A g \in 1..plan.numShards : Len(gs[g]) = IF g <= 0 THEN 0 + 1 ELSE 0
      BY <2>2, <2>4, SMTT(60)
    <3> QED
      BY <3>1, <3>2, SMTT(60) DEF Rounds
  <2>8. DealOK(plan') /\ GroupOK(plan') /\ ShardOK(plan')
    BY <1>2, <2>2, <2>4, <2>6, <2>7, SMTT(120) DEF DealOK, GroupOK, ShardOK
  <2>9. ZoneOK(plan') /\ HomeOK(plan')
    BY <1>1, <2>6, SMTT(60), Z3T(60) DEF ZoneOK, Counted, HomeOK, AtHome
  <2> QED
    BY <2>5, <2>6, <2>8, <2>9, SMTT(60) DEF Sound, LocalOK
<1> QED
  BY <1>3, <1>4

\* Dealing one more configuration keeps the rounds even.
LEMMA RoundsGoOn ==
  ASSUME NEW n \in Nat, NEW idx \in Nat, idx < n, NEW dealt \in Nat,
         NEW gs, NEW hs, \A g \in 1..n : Len(gs[g]) \in Nat,
         \A g \in 1..n : Len(hs[g]) = IF g = idx + 1 THEN Len(gs[g]) + 1 ELSE Len(gs[g]),
         Rounds(gs, n, idx, dealt)
  PROVE  Rounds(hs, n, (idx + 1) % n, dealt + 1)
<1>1. PICK q \in Nat :
        /\ \A g \in 1..n : Len(gs[g]) = IF g <= idx THEN q + 1 ELSE q
        /\ q = 0 => dealt = idx
  BY DEF Rounds
<1>2. \A g \in 1..n : Len(hs[g]) = IF g <= idx + 1 THEN q + 1 ELSE q
  BY <1>1, SMTT(60)
<1>3. CASE idx + 1 = n
  <2>1. (idx + 1) % n = 0
    BY <1>3, IdxWraps
  <2>2. \A g \in 1..n : Len(hs[g]) = IF g <= 0 THEN (q + 1) + 1 ELSE q + 1
    BY <1>2, <1>3
  <2>3. q + 1 \in Nat /\ q + 1 # 0
    OBVIOUS
  <2> QED
    BY <2>1, <2>2, <2>3 DEF Rounds
<1>4. CASE idx + 1 # n
  <2>1. (idx + 1) % n = idx + 1
    BY <1>4, IdxWraps
  <2>2. q = 0 => dealt + 1 = idx + 1
    BY <1>1
  <2>3. Rounds(hs, n, idx + 1, dealt + 1)
    BY <1>2, <2>2, ZenonT(60) DEF Rounds
  <2> QED
    BY <2>1, <2>3
<1> QED
  BY <1>3, <1>4, SMTT(60)

\* A configuration goes to the end of one group.
LEMMA DealInv == Sound(plan) /\ Deal => Sound(plan')
<1> SUFFICES ASSUME Sound(plan), Deal PROVE Sound(plan')
  OBVIOUS
<1>1. plan \in PlanRecord /\ ZoneOK(plan) /\ HomeOK(plan) /\ GroupOK(plan)
      /\ DealOK(plan) /\ plan.pc = "deal" /\ plan.next <= plan.configs
  BY DEF Sound, Deal
<1> DEFINE n == plan.numShards
           gs == plan.groups
           i == plan.idx + 1
           hs == [gs EXCEPT ![i] = Append(gs[i], plan.next)]
<1>2. /\ gs \in Seq(Seq(Nat)) /\ plan.idx \in Nat /\ plan.configs \in Nat
      /\ plan.next \in Nat /\ plan.next > 0
  BY <1>1, SMTT(60) DEF PlanRecord
<1>3. /\ n \in 1..(plan.configs - 1) /\ plan.idx < n
      /\ DOMAIN gs = 1..n
      /\ \A g \in 1..n : \A k \in DOMAIN gs[g] : gs[g][k] < plan.next
      /\ Covers(gs, plan.next - 1) /\ Apart(gs)
      /\ Rounds(gs, n, plan.idx, plan.next - 1)
  BY <1>1, SMTT(60) DEF DealOK
<1>4. n \in Nat /\ i \in 1..n
  BY <1>2, <1>3, SMTT(60)
<1>5. \A g \in 1..n : gs[g] \in Seq(Nat) /\ Len(gs[g]) \in Nat /\ DOMAIN gs[g] = 1..Len(gs[g])
  BY <1>2, <1>3, SMTT(60)
<1>6. /\ Append(gs[i], plan.next) \in Seq(Nat)
      /\ Len(Append(gs[i], plan.next)) = Len(gs[i]) + 1
      /\ \A k \in 1..(Len(gs[i]) + 1) :
           Append(gs[i], plan.next)[k] = IF k = Len(gs[i]) + 1 THEN plan.next ELSE gs[i][k]
  <2>1. gs[i] \in Seq(Nat) /\ plan.next \in Nat
    BY <1>2, <1>4, <1>5, SMTT(60)
  <2> HIDE DEF gs, i
  <2> QED
    BY <2>1, AppendProperties, SMTT(60)
<1>7. /\ hs \in Seq(Seq(Nat)) /\ DOMAIN hs = 1..n
      /\ \A g \in 1..n : hs[g] = IF g = i THEN Append(gs[i], plan.next) ELSE gs[g]
  BY <1>2, <1>3, <1>4, <1>6, SMTT(60)
<1>8. (plan.idx + 1) % n = (IF plan.idx + 1 = n THEN 0 ELSE plan.idx + 1)
  BY <1>2, <1>3, <1>4, IdxWraps, SMTT(120)
<1>9. /\ (plan.idx + 1) % n \in Nat /\ (plan.idx + 1) % n < n
      /\ plan.next + 1 \in Nat \ {0}
  BY <1>2, <1>3, <1>4, <1>8, SMTT(120)
<1>10. plan' = [plan EXCEPT !.groups = hs, !.idx = (plan.idx + 1) % n, !.next = plan.next + 1]
  BY <1>1 DEF Deal, Dealt, NextIdx, PlanRecord
<1>11. \A g \in 1..n : Len(hs[g]) = IF g = i THEN Len(gs[g]) + 1 ELSE Len(gs[g])
  BY <1>6, <1>7, SMTT(120)
<1>12. \A g \in 1..n : DOMAIN hs[g] = 1..Len(hs[g])
  BY <1>5, <1>6, <1>7
<1> HIDE DEF hs, n, i
<1>13. Rounds(hs, n, (plan.idx + 1) % n, (plan.next - 1) + 1)
  <2>1. plan.next - 1 \in Nat
    BY <1>2, SMTT(60)
  <2> QED
    BY <1>2, <1>3, <1>4, <1>5, <1>11, <2>1, RoundsGoOn, ZenonT(60) DEF i
<1>14. \A g \in 1..n : \A k \in DOMAIN hs[g] :
         \/ g = i /\ k = Len(gs[i]) + 1 /\ hs[g][k] = plan.next
         \/ k \in DOMAIN gs[g] /\ hs[g][k] = gs[g][k] /\ hs[g][k] < plan.next
  <2> SUFFICES ASSUME NEW g \in 1..n, NEW k \in DOMAIN hs[g]
               PROVE  \/ g = i /\ k = Len(gs[i]) + 1 /\ hs[g][k] = plan.next
                      \/ k \in DOMAIN gs[g] /\ hs[g][k] = gs[g][k] /\ hs[g][k] < plan.next
    BY SMTT(60)
  <2>1. CASE g = i
    <3>1. /\ k \in 1..(Len(gs[i]) + 1) /\ Len(gs[i]) \in Nat
          /\ hs[i][k] = Append(gs[i], plan.next)[k]
      BY <1>4, <1>5, <1>7, <1>11, <1>12, <2>1, ZenonT(60)
    <3>2. hs[i][k] = IF k = Len(gs[i]) + 1 THEN plan.next ELSE gs[i][k]
      BY <1>6, <3>1, SMTT(60)
    <3>3. k # Len(gs[i]) + 1 => k \in DOMAIN gs[i]
      BY <1>4, <1>5, <3>1, SMTT(60)
    <3> QED
      BY <1>3, <1>4, <2>1, <3>2, <3>3, SMTT(60)
  <2>2. CASE g # i
    <3>1. hs[g] = gs[g]
      BY <1>7, <2>2, SMTT(60)
    <3> QED
      BY <1>3, <3>1, SMTT(60)
  <2> QED
    BY <2>1, <2>2, SMTT(60)
<1>15. Covers(hs, plan.next)
  <2> SUFFICES ASSUME NEW c \in 1..plan.next
               PROVE  \E g \in DOMAIN hs : \E k \in DOMAIN hs[g] : hs[g][k] = c
    BY DEF Covers
  <2>1. CASE c = plan.next
    <3>1. Len(gs[i]) + 1 \in DOMAIN hs[i] /\ hs[i][Len(gs[i]) + 1] = plan.next
      BY <1>4, <1>5, <1>6, <1>7, <1>11, <1>12, SMTT(60)
    <3> QED
      BY <1>4, <1>7, <2>1, <3>1, ZenonT(60)
  <2>2. CASE c # plan.next
    <3>1. c \in 1..(plan.next - 1)
      BY <1>2, <2>2, SMTT(60)
    <3>2. PICK g \in 1..n : \E k \in DOMAIN gs[g] : gs[g][k] = c
      BY <1>3, <3>1, SMTT(60) DEF Covers
    <3>3. PICK k \in DOMAIN gs[g] : gs[g][k] = c
      BY <3>2, SMTT(60)
    <3>4. k \in DOMAIN hs[g] /\ hs[g][k] = c
      <4>1. CASE g = i
        <5>1. k \in 1..(Len(gs[i]) + 1) /\ k # Len(gs[i]) + 1
          BY <1>4, <1>5, <3>3, <4>1, SMTT(60)
        <5>2. hs[i][k] = gs[i][k]
          BY <1>4, <1>6, <1>7, <5>1, Zenon
        <5>3. DOMAIN hs[i] = 1..(Len(gs[i]) + 1)
          BY <1>4, <1>11, <1>12, SMTT(60)
        <5> QED
          BY <3>3, <4>1, <5>1, <5>2, <5>3, SMTT(60)
      <4>2. CASE g # i
        BY <1>7, <3>3, <4>2, SMTT(60)
      <4> QED
        BY <4>1, <4>2, SMTT(60)
    <3> QED
      BY <1>7, <3>4, SMTT(60)
  <2> QED
    BY <2>1, <2>2, SMTT(60)
<1>16. Apart(hs)
  <2> SUFFICES ASSUME NEW g \in 1..n, NEW h \in 1..n,
                      NEW k \in DOMAIN hs[g], NEW l \in DOMAIN hs[h],
                      hs[g][k] = hs[h][l]
               PROVE  g = h /\ k = l
    BY <1>7, SMTT(60) DEF Apart
  <2>1. CASE hs[g][k] = plan.next
    <3>1. g = i /\ k = Len(gs[i]) + 1
      <4>1. ~(hs[g][k] < plan.next)
        BY <1>2, <2>1, SMTT(60)
      <4> QED
        BY <1>14, <4>1, SMTT(60)
    <3>2. h = i /\ l = Len(gs[i]) + 1
      <4>1. ~(hs[h][l] < plan.next)
        BY <1>2, <2>1, SMTT(60)
      <4> QED
        BY <1>14, <4>1, SMTT(60)
    <3> QED
      BY <3>1, <3>2, SMTT(60)
  <2>2. CASE hs[g][k] # plan.next
    <3>1. k \in DOMAIN gs[g] /\ l \in DOMAIN gs[h] /\ gs[g][k] = gs[h][l]
      BY <1>14, <2>2, SMTT(60)
    <3> QED
      BY <1>3, <3>1, SMTT(60) DEF Apart
  <2> QED
    BY <2>1, <2>2, SMTT(60)
<1>17. \A g \in 1..n : \A k \in DOMAIN hs[g] : hs[g][k] < plan.next + 1
  <2> SUFFICES ASSUME NEW g \in 1..n, NEW k \in DOMAIN hs[g]
               PROVE  hs[g][k] < plan.next + 1
    OBVIOUS
  <2>1. hs[g][k] \in Nat
    <3>1. hs[g] \in Seq(Nat)
      BY <1>5, <1>6, <1>7, ZenonT(60)
    <3> QED
      BY <3>1
  <2>2. hs[g][k] = plan.next \/ hs[g][k] < plan.next
    BY <1>14
  <2> QED
    BY <1>2, <2>1, <2>2, SMTT(60)
<1>18. plan' \in PlanRecord
  <2>1. plan \in PlanRecord
    BY <1>1
  <2> QED
    BY <1>7, <1>9, <1>10, <2>1, ZenonT(60) DEF PlanRecord
<1>19. /\ plan'.pc = "deal" /\ plan'.groups = hs /\ plan'.next = plan.next + 1
       /\ plan'.idx = (plan.idx + 1) % n /\ plan'.numShards = n
       /\ plan'.usedZones = plan.usedZones /\ plan'.regional = plan.regional
       /\ plan'.regions = plan.regions /\ plan'.configs = plan.configs
  BY <1>1, <1>10, SMTT(60) DEF PlanRecord, n
<1>20. DealOK(plan')
  <2>1. (plan.next + 1) - 1 = plan.next /\ (plan.next - 1) + 1 = plan.next
        /\ plan.next + 1 <= plan.configs + 1
    BY <1>1, <1>2, SMTT(60)
  <2> QED
    BY <1>3, <1>7, <1>9, <1>13, <1>15, <1>16, <1>17, <1>19, <2>1, SMTT(60) DEF DealOK
<1>21. ZoneOK(plan') /\ HomeOK(plan')
  BY <1>1, <1>19, SMTT(60) DEF ZoneOK, Counted, HomeOK, AtHome
<1>22. GroupOK(plan') /\ ShardOK(plan')
  BY <1>1, <1>19, SMTT(60) DEF GroupOK, ShardOK, n
<1> QED
  BY <1>18, <1>19, <1>20, <1>21, <1>22, SMTT(60) DEF Sound, LocalOK

\* When all are dealt out, no group is empty and none has two more than another.
LEMMA DealDoneInv == Sound(plan) /\ DealDone => Sound(plan')
<1> SUFFICES ASSUME Sound(plan), DealDone PROVE Sound(plan')
  OBVIOUS
<1>1. plan \in PlanRecord /\ ZoneOK(plan) /\ HomeOK(plan) /\ GroupOK(plan)
      /\ DealOK(plan) /\ plan.pc = "deal" /\ plan.next > plan.configs
  BY DEF Sound, DealDone
<1>2. plan' = [plan EXCEPT !.pc = "create"]
  BY DEF DealDone
<1>3. /\ plan'.pc = "create" /\ plan'.groups = plan.groups
      /\ plan'.numShards = plan.numShards /\ plan'.usedZones = plan.usedZones
      /\ plan'.regional = plan.regional /\ plan'.regions = plan.regions
      /\ plan'.configs = plan.configs
  BY <1>1, <1>2 DEF PlanRecord
<1>4. "create" \in PC
  BY DEF PC
<1>5. plan' \in PlanRecord
  BY <1>1, <1>2, <1>4, SMTT(120) DEF PlanRecord
<1>6. /\ plan.groups \in Seq(Seq(Nat)) /\ plan.configs \in Nat /\ plan.next \in Nat
      /\ plan.idx \in Nat
  BY <1>1 DEF PlanRecord
<1>7. /\ plan.numShards \in 1..(plan.configs - 1) /\ plan.idx < plan.numShards
      /\ plan.next <= plan.configs + 1 /\ DOMAIN plan.groups = 1..plan.numShards
      /\ Covers(plan.groups, plan.next - 1) /\ Apart(plan.groups)
      /\ Rounds(plan.groups, plan.numShards, plan.idx, plan.next - 1)
  BY <1>1 DEF DealOK
<1>8. plan.next - 1 = plan.configs
  <2>1. plan.next > plan.configs /\ plan.next <= plan.configs + 1
    BY <1>1, <1>7
  <2>2. \A c, m \in Nat : m > c /\ m <= c + 1 => m - 1 = c
    OBVIOUS
  <2> QED
    BY <1>6, <2>1, <2>2, Zenon
<1>9. Even(plan.groups)
  <2>1. PICK q \in Nat :
          /\ \A g \in 1..plan.numShards :
               Len(plan.groups[g]) = IF g <= plan.idx THEN q + 1 ELSE q
          /\ q = 0 => plan.next - 1 = plan.idx
    BY <1>7, SMTT(60) DEF Rounds
  <2>2. q > 0
    BY <1>6, <1>7, <1>8, <2>1, SMTT(60)
  <2>3. \A g \in 1..plan.numShards : Len(plan.groups[g]) \in {q, q + 1}
    BY <1>6, <1>7, <2>1, ZenonT(60)
  <2>4. \A g, h \in 1..plan.numShards : Len(plan.groups[g]) <= Len(plan.groups[h]) + 1
    BY <2>2, <2>3, SMTT(60)
  <2>5. \A g \in 1..plan.numShards : plan.groups[g] # <<>>
    <3>1. Len(<<>>) = 0
      BY SMTT(60)
    <3> QED
      BY <2>2, <2>3, <3>1
  <2> QED
    BY <1>7, <2>4, <2>5, SMTT(60) DEF Even
<1>10. Len(plan.groups) = plan.numShards
  BY <1>6, <1>7, SMTT(60)
<1>11. plan.regional => Len(plan.groups) = Smaller(plan.configs, Len(plan.usedZones))
  <2>1. plan.regional => plan.numShards = Len(plan.usedZones)
    BY <1>1, SMTT(60) DEF GroupOK
  <2> QED
    BY <1>6, <1>7, <1>10, <2>1, SMTT(60) DEF Smaller
<1>12. GroupOK(plan')
  BY <1>1, <1>3, <1>7, <1>8, <1>9, <1>11, SMTT(120) DEF GroupOK
<1>13. ZoneOK(plan') /\ HomeOK(plan')
  BY <1>1, <1>3, SMTT(60), Z3T(60) DEF ZoneOK, Counted, HomeOK, AtHome
<1> QED
  BY <1>3, <1>5, <1>12, <1>13, SMTT(60) DEF Sound, LocalOK, DealOK, ShardOK

\* Every group becomes a shard, in the order of the groups.
LEMMA CreateInv == Sound(plan) /\ Create => Sound(plan')
<1> SUFFICES ASSUME Sound(plan), Create PROVE Sound(plan')
  OBVIOUS
<1>1. plan \in PlanRecord /\ ZoneOK(plan) /\ HomeOK(plan) /\ GroupOK(plan)
      /\ plan.pc = "create"
  BY DEF Sound, Create
<1> DEFINE n == Len(plan.groups)
           Made(i) == [id |-> ShardID(i - 1), configs |-> plan.groups[i], zone |-> ZoneOf(i)]
           shards == [i \in 1..n |-> Made(i)]
           Shards == [id : Nat \X Nat, configs : Seq(Nat), zone : Nat]
<1>2. plan' = [plan EXCEPT !.pc = "done", !.shards = shards]
  BY DEF Create
<1>3. plan.groups \in Seq(Seq(Nat)) /\ plan.configs \in Nat /\ plan.usedZones \in Seq(Nat)
      /\ n \in Nat /\ DOMAIN plan.groups = 1..n
  BY <1>1 DEF PlanRecord
<1>4. plan.regional => n <= Len(plan.usedZones)
  <2>1. plan.regional => n = Smaller(plan.configs, Len(plan.usedZones))
    BY <1>1, SMTT(60) DEF GroupOK
  <2> QED
    BY <1>3, <2>1 DEF Smaller
<1>5. ASSUME NEW i \in 1..n PROVE Made(i) \in Shards
  <2>1. ShardID(i - 1) \in Nat \X Nat
    BY <1>3, SMTT(60) DEF ShardID
  <2>2. plan.groups[i] \in Seq(Nat)
    BY <1>3
  <2>3. ZoneOf(i) \in Nat
    BY <1>3, <1>4, SMTT(60) DEF ZoneOf
  <2> QED
    BY <2>1, <2>2, <2>3, SMTT(60)
<1> HIDE DEF Made, n
<1>6. shards \in [1..n -> Shards]
  BY <1>5
<1> HIDE DEF Shards
<1>7. shards \in Seq(Shards)
  BY <1>3, <1>6
<1>8. "done" \in PC
  BY DEF PC
<1>9. plan' \in PlanRecord
  BY <1>1, <1>2, <1>7, <1>8, ZenonT(60) DEF PlanRecord, Shards
<1>10. /\ plan'.pc = "done" /\ plan'.groups = plan.groups /\ plan'.shards = shards
       /\ plan'.numShards = plan.numShards /\ plan'.usedZones = plan.usedZones
       /\ plan'.regional = plan.regional /\ plan'.regions = plan.regions
       /\ plan'.configs = plan.configs
  BY <1>1, <1>2, SMTT(60) DEF PlanRecord
<1>11. ShardOK(plan')
  <2>1. DOMAIN shards = 1..n
    OBVIOUS
  <2>2. \A i \in 1..n :
          /\ shards[i].configs = plan.groups[i]
          /\ shards[i].zone = IF plan.regional THEN plan.usedZones[i] ELSE 1
    BY SMTT(60) DEF Made, ZoneOf
  <2> QED
    BY <1>3, <1>10, <2>1, <2>2, SMTT(60) DEF ShardOK
<1>12. GroupOK(plan')
  BY <1>1, <1>10, SMTT(60) DEF GroupOK
<1>13. ZoneOK(plan') /\ HomeOK(plan')
  BY <1>1, <1>10 DEF ZoneOK, Counted, HomeOK, AtHome
<1> QED
  BY <1>9, <1>10, <1>11, <1>12, <1>13, SMTT(60) DEF Sound, LocalOK, DealOK

LEMMA NextInv == Inv /\ [Next]_vars => Inv'
<1> SUFFICES ASSUME Sound(plan), [Next]_vars PROVE Sound(plan')
  BY DEF Inv
<1>1. CASE plan' = plan
  BY <1>1
<1>2. CASE Next
  BY SMTT(60), <1>2, LocalInv, AddHomeInv, NextHomeInv, HomeDoneInv, ShuffleInv,
     AddAbroadInv,
     NextAbroadInv, AbroadDoneInv, CheckInv, SplitInv, DealInv, DealDoneInv, CreateInv DEF Next
<1> QED
  BY <1>1, <1>2 DEF vars

-----------------------------------------------------------------------------
(* The theorems.                                                           *)

\* The invariant holds in every reachable state of the sharding of a request.
THEOREM Invariance == Spec => []Inv
  BY InitInv, NextInv, PTL DEF Spec

\* NewShardScheduler's variables keep their types.
THEOREM TypeCorrect == Spec => []TypeOK
<1>1. Inv => TypeOK
  BY SMTT(60) DEF Inv, Sound, TypeOK
<1> QED
  BY <1>1, Invariance, PTL

\* The configuration lists of the shards are the groups of splitConfigs.
LEMMA ListsAreGroups ==
  ASSUME Inv, Done
  PROVE  /\ DOMAIN Lists = DOMAIN plan.groups
         /\ \A i \in DOMAIN plan.groups : Lists[i] = plan.groups[i]
         /\ Covers(plan.groups, plan.configs) /\ Apart(plan.groups) /\ Even(plan.groups)
  BY SMTT(60) DEF Inv, Sound, ShardOK, GroupOK, Done, Lists

\* Whatever the quota and the request, every configuration is tested in exactly
\* one place (splitConfigs and the shards made from its groups).
THEOREM ConfigsTestedOnce == Spec => []EveryConfigOnce
<1>1. Inv => EveryConfigOnce
  <2> SUFFICES ASSUME Inv, Done PROVE Covers(Lists, plan.configs) /\ Apart(Lists)
    BY SMTT(60) DEF EveryConfigOnce
  <2> QED
    BY ListsAreGroups DEF Covers, Apart
<1> QED
  BY <1>1, Invariance, PTL

\* No VM is launched without a configuration to test.
THEOREM NoShardIdle == Spec => []NoIdleShard
<1>1. Inv => NoIdleShard
  BY ListsAreGroups, SMTT(60) DEF NoIdleShard, Even
<1> QED
  BY <1>1, Invariance, PTL

\* The round robin of splitConfigs is even to within one configuration.
THEOREM LoadBalanced == Spec => []Balanced
<1>1. Inv => Balanced
  BY ListsAreGroups, SMTT(60) DEF Balanced, Even
<1> QED
  BY <1>1, Invariance, PTL

\* The shards of a region are entries of it in usedZones.
LEMMA RegionShards ==
  ASSUME Inv, Done, plan.regional
  PROVE  /\ plan.usedZones \in Seq(1..Len(plan.regions)) /\ plan.configs \in Nat
         /\ Len(plan.shards) = Smaller(plan.configs, Len(plan.usedZones))
         /\ DOMAIN plan.shards = 1..Len(plan.shards)
         /\ DOMAIN plan.shards \subseteq 1..Len(plan.usedZones)
         /\ \A i \in DOMAIN plan.shards : plan.shards[i].zone = plan.usedZones[i]
         /\ \A z : ShardsIn(z) \subseteq Copies(plan.usedZones, z)
         /\ \A z : Len(plan.shards) = Len(plan.usedZones) =>
                     ShardsIn(z) = Copies(plan.usedZones, z)
<1>1. plan \in PlanRecord /\ ZoneOK(plan) /\ GroupOK(plan) /\ ShardOK(plan) /\ plan.pc = "done"
  BY DEF Inv, Sound, Done
<1>2. /\ plan.usedZones \in Seq(1..Len(plan.regions)) /\ plan.configs \in Nat
      /\ Len(plan.usedZones) \in Nat
      /\ DOMAIN plan.shards = 1..Len(plan.shards) /\ Len(plan.shards) \in Nat
      /\ DOMAIN plan.groups = 1..Len(plan.groups) /\ Len(plan.groups) \in Nat
  BY <1>1 DEF PlanRecord, ZoneOK
<1>3. /\ DOMAIN plan.shards = DOMAIN plan.groups
      /\ \A i \in DOMAIN plan.shards : plan.shards[i].zone = plan.usedZones[i]
  BY <1>1 DEF ShardOK
<1>4. Len(plan.groups) = Smaller(plan.configs, Len(plan.usedZones))
  BY <1>1 DEF GroupOK
<1>5. Len(plan.shards) = Len(plan.groups)
  BY <1>2, <1>3, SMTT(60)
<1>6. Len(plan.shards) <= Len(plan.usedZones)
  BY <1>2, <1>4, <1>5, SMTT(60) DEF Smaller
<1>7. DOMAIN plan.shards \subseteq 1..Len(plan.usedZones)
  BY <1>2, <1>6, SMTT(60)
<1> QED
  BY <1>2, <1>3, <1>4, <1>5, <1>7, SMTT(60) DEF ShardsIn, Copies

\* Region sharding respects every quota of every region, for any quotas: the
\* number of entries usedZones has for a region fits each of its three limits.
THEOREM QuotaRespected == Spec => []RegionWithinQuota
<1>1. Inv => RegionWithinQuota
  <2> SUFFICES ASSUME Inv, Done, plan.regional, NEW z \in DOMAIN plan.regions PROVE Fits(z)
    BY SMTT(60) DEF RegionWithinQuota
  <2>1. /\ plan.regions \in Seq(Region) /\ plan.usedZones \in Seq(1..Len(plan.regions))
        /\ z \in 1..Len(plan.regions) /\ plan.regions[z] \in Region
    BY RegionShards, SMTT(60), Z3T(60) DEF Inv, Sound, PlanRecord
  <2>2. Count(plan.usedZones, z) <= Room(plan.regions[z])
    BY <2>1 DEF Inv, Sound, ZoneOK, Counted, Done
  <2>3. /\ IsFiniteSet(Copies(plan.usedZones, z)) /\ Count(plan.usedZones, z) \in Nat
    BY <2>1, CountType, SMTT(60)
  <2>4. /\ Cardinality(ShardsIn(z)) \in Nat
        /\ Cardinality(ShardsIn(z)) <= Count(plan.usedZones, z)
    BY <2>3, RegionShards, FS_Subset, FS_CardinalityType, SMTT(60) DEF Count
  <2>5. GetMaxShard(plan.regions[z]) \in Int
    BY <2>1, QuotaType, SMTT(60)
  <2>6. Cardinality(ShardsIn(z)) > 0 => Cardinality(ShardsIn(z)) <= GetMaxShard(plan.regions[z])
    BY <2>2, <2>3, <2>4, <2>5, SMTT(60) DEF Room, Larger
  <2> QED
    BY <2>1, <2>4, <2>6, QuotaFits, SMTT(60) DEF Fits
<1> QED
  BY <1>1, Invariance, PTL

\* VMs go to another continent only when the own one has too little quota.
THEOREM HomeComesFirst == Spec => []HomeFirst
<1>1. Inv => HomeFirst
  <2> SUFFICES ASSUME Inv, Done, plan.regional, NEW i \in DOMAIN plan.shards,
                      ~plan.regions[plan.shards[i].zone].home
               PROVE  Cardinality(HomeEntries) < plan.configs
    BY SMTT(60) DEF HomeFirst
  <2>1. /\ plan.usedZones \in Seq(1..Len(plan.regions))
        /\ i \in 1..Len(plan.usedZones) /\ plan.shards[i].zone = plan.usedZones[i]
    BY RegionShards, SMTT(60)
  <2>2. HomeEntries = AtHome(plan)
    BY <2>1 DEF HomeEntries, AtHome
  <2>3. i \notin AtHome(plan)
    BY <2>1, SMTT(60) DEF AtHome
  <2> QED
    BY <2>1, <2>2, <2>3, SMTT(60) DEF Inv, Sound, HomeOK
<1> QED
  BY <1>1, Invariance, PTL

\* Configurations share a VM only when no region has quota for one more.
THEOREM SharingIsForced == Spec => []SharedOnlyIfFull
<1>1. Inv => SharedOnlyIfFull
  <2> SUFFICES ASSUME Inv, Done, plan.regional, Len(plan.shards) < plan.configs,
                      NEW z \in DOMAIN plan.regions
               PROVE  Cardinality(ShardsIn(z)) >= GetMaxShard(plan.regions[z])
    BY SMTT(60) DEF SharedOnlyIfFull
  <2>1. /\ plan.regions \in Seq(Region) /\ plan.usedZones \in Seq(1..Len(plan.regions))
        /\ z \in 1..Len(plan.regions) /\ plan.regions[z] \in Region
        /\ plan.configs \in Nat
    BY RegionShards, SMTT(60) DEF Inv, Sound, PlanRecord
  <2>2. Len(plan.shards) = Len(plan.usedZones) /\ Len(plan.usedZones) < plan.configs
    BY <2>1, RegionShards, SMTT(60) DEF Smaller
  <2>3. Count(plan.usedZones, z) = Room(plan.regions[z])
    BY <2>1, <2>2, SMTT(60) DEF Inv, Sound, ZoneOK, Counted, Done
  <2>4. Cardinality(ShardsIn(z)) = Room(plan.regions[z])
    BY <2>2, <2>3, RegionShards, SMTT(60) DEF Count
  <2>5. GetMaxShard(plan.regions[z]) \in Int
    BY <2>1, QuotaType
  <2> QED
    BY <2>4, <2>5 DEF Room, Larger
<1> QED
  BY <1>1, Invariance, PTL
=============================================================================

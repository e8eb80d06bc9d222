------------------------------ MODULE Sharding ------------------------------
(***************************************************************************)
(* How NewShardScheduler cuts a test run into shards (ltm/sharder.go): the *)
(* quota of the GCE regions becomes a list of zones with one entry for     *)
(* every VM that fits (initRegionSharding), or a number of VMs in the own  *)
(* zone (initLocalSharding); the configurations are dealt out round robin  *)
(* (splitConfigs); one ShardWorker is made for each group.                 *)
(*                                                                         *)
(* A configuration is its position in sharder.configs, a zone the position *)
(* of its region in the list of quotas.  sharder.maxShards is 0 wherever   *)
(* the server sets it, so the cap of initLocalSharding is never taken.     *)
(***************************************************************************)
EXTENDS Integers, Sequences, FiniteSets, Functions

CONSTANTS
  MaxConfigs,       \* bound: configurations of a request
  MaxRegions,       \* bound: regions with a zone that is up
  CPUs, IPs, SSDs,  \* free quota (limit minus usage) a region may have left
  MinScratch        \* GCE_MIN_SCR_SIZE, in GB

ASSUME ShardingAssumption ==
  /\ MaxConfigs \in Nat /\ MaxRegions \in Nat /\ MinScratch \in Nat
  /\ CPUs \subseteq Int /\ IPs \subseteq Int /\ SSDs \subseteq Int

VARIABLE
  plan              \* the sharder under construction and its loop variables

Region == [home : BOOLEAN, cpus : CPUs, ips : IPs, ssd : SSDs]

PC == {"local", "home", "shuffle", "abroad", "check", "split", "deal",
       "create", "done", "panic"}

PlanRecord ==
  [pc : PC,
   regional : BOOLEAN,        \* initRegionSharding, not initLocalSharding
   configs : Nat,             \* len(sharder.configs)
   regions : Seq(Region),     \* what GetAllRegionsQuota or GetRegionQuota saw
   next : Nat \ {0},          \* the region, then the config, a loop is at
   idx : Nat,                 \* the group splitConfigs deals to next
   added : Nat,               \* entries appended for that region
   usedZones : Seq(Nat),
   numShards : Int,
   groups : Seq(Seq(Nat)),    \* configGroups
   shards : Seq([id : Nat \X Nat, configs : Seq(Nat), zone : Nat])]

NewPlan(regional, configs, regions) ==
  [pc |-> IF regional THEN "home" ELSE "local", regional |-> regional,
   configs |-> configs, regions |-> regions, next |-> 1, idx |-> 0,
   added |-> 0, usedZones |-> <<>>, numShards |-> 0, groups |-> <<>>,
   shards |-> <<>>]

\* Local sharding asks for the own region only, and gets nothing if no zone of
\* it is up; region sharding leaves such regions out.
Init ==
  \E regional \in BOOLEAN, configs \in 0..MaxConfigs, n \in 0..MaxRegions :
    \E regions \in [1..n -> Region] :
      /\ regional \/ n <= 1
      /\ plan = NewPlan(regional, configs, regions)

-----------------------------------------------------------------------------
(* Quota.                                                                  *)

\* Go divides integers towards zero.
Quotient(a, b) == IF a >= 0 THEN a \div b ELSE -((-a) \div b)

Larger(a, b) == IF a > b THEN a ELSE b

Smaller(a, b) == IF a < b THEN a ELSE b

DiskSize == Larger(50, MinScratch)

\* Mutant: the largest of the three limits counts.
MaxShardOfLargest(region) ==
  Larger(Larger(Quotient(region.cpus, 2), region.ips), Quotient(region.ssd, DiskSize))

\* The VMs that fit into what is left of the quota of a region.
GetMaxShard(region) ==
  Smaller(Smaller(Quotient(region.cpus, 2), region.ips), Quotient(region.ssd, DiskSize))

-----------------------------------------------------------------------------
(* initLocalSharding.                                                      *)

Local ==
  /\ plan.pc = "local"
  /\ Len(plan.regions) > 0
  /\ plan' = [plan EXCEPT !.pc = "split", !.numShards = GetMaxShard(plan.regions[1])]

LocalPanics ==
  /\ plan.pc = "local"
  /\ Len(plan.regions) = 0
  /\ plan' = [plan EXCEPT !.pc = "panic"]

-----------------------------------------------------------------------------
(* initRegionSharding.                                                     *)

Current == plan.regions[plan.next]

\* One more entry for the region the loop is at.
Append1 == [plan EXCEPT !.usedZones = Append(@, plan.next), !.added = @ + 1]

NextRegion == [plan EXCEPT !.next = @ + 1, !.added = 0]

\* Mutant: the continent is not looked at.
AnyContinent(region) == TRUE

OnContinent(region) == region.home

AddHome ==
  /\ plan.pc = "home"
  /\ plan.next <= Len(plan.regions)
  /\ OnContinent(Current)
  /\ plan.added < GetMaxShard(Current)
  /\ plan' = Append1

NextHome ==
  /\ plan.pc = "home"
  /\ plan.next <= Len(plan.regions)
  /\ ~OnContinent(Current) \/ plan.added >= GetMaxShard(Current)
  /\ plan' = NextRegion

HomeDone ==
  /\ plan.pc = "home"
  /\ plan.next > Len(plan.regions)
  /\ plan' = [plan EXCEPT !.pc = "shuffle"]

Shuffles(n) == Bijection(1..n, 1..n)

\* Mutant: other continents are asked only if this one has nothing at all.
GoAbroadIfNone == Len(plan.usedZones) = 0

GoAbroad == Len(plan.usedZones) < plan.configs

\* rand.Shuffle, and the test that follows it.
Shuffle ==
  /\ plan.pc = "shuffle"
  /\ \E p \in Shuffles(Len(plan.usedZones)) :
       plan' = [plan EXCEPT !.usedZones = [i \in 1..Len(@) |-> @[p[i]]],
                            !.next = 1, !.added = 0,
                            !.pc = IF GoAbroad THEN "abroad" ELSE "check"]

AddAbroad ==
  /\ plan.pc = "abroad"
  /\ plan.next <= Len(plan.regions)
  /\ ~OnContinent(Current)
  /\ plan.added < GetMaxShard(Current)
  /\ plan' = Append1

NextAbroad ==
  /\ plan.pc = "abroad"
  /\ plan.next <= Len(plan.regions)
  /\ OnContinent(Current) \/ plan.added >= GetMaxShard(Current)
  /\ plan' = IF Len(plan.usedZones) >= plan.configs
             THEN [plan EXCEPT !.pc = "check"] ELSE NextRegion

AbroadDone ==
  /\ plan.pc = "abroad"
  /\ plan.next > Len(plan.regions)
  /\ plan' = [plan EXCEPT !.pc = "check"]

Check ==
  /\ plan.pc = "check"
  /\ plan' = IF Len(plan.usedZones) = 0
             THEN [plan EXCEPT !.pc = "panic"]
             ELSE [plan EXCEPT !.pc = "split", !.numShards = Len(plan.usedZones)]

-----------------------------------------------------------------------------
(* splitConfigs.                                                           *)

OneEach == plan.numShards <= 0 \/ plan.configs <= plan.numShards

Split ==
  /\ plan.pc = "split"
  /\ plan' = IF OneEach
             THEN [plan EXCEPT !.pc = "create", !.groups = [i \in 1..plan.configs |-> <<i>>]]
             ELSE [plan EXCEPT !.pc = "deal", !.next = 1, !.idx = 0,
                               !.groups = [i \in 1..plan.numShards |-> <<>>]]

\* Mutant: a group keeps only the last configuration it was given.
DealtOver == [plan.groups EXCEPT ![plan.idx + 1] = <<plan.next>>]

Dealt == [plan.groups EXCEPT ![plan.idx + 1] = Append(@, plan.next)]

\* Mutant: idx does not wrap around but stays at the last group.
NextIdxStuck == Smaller(plan.idx + 1, plan.numShards - 1)

NextIdx == (plan.idx + 1) % plan.numShards

Deal ==
  /\ plan.pc = "deal"
  /\ plan.next <= plan.configs
  /\ plan' = [plan EXCEPT !.groups = Dealt, !.idx = NextIdx, !.next = @ + 1]

DealDone ==
  /\ plan.pc = "deal"
  /\ plan.next > plan.configs
  /\ plan' = [plan EXCEPT !.pc = "create"]

-----------------------------------------------------------------------------
(* The ShardWorkers.                                                       *)

\* The two characters of the shardID of shard i, as offsets from 'a'.
ShardID(i) == <<i \div 26, i % 26>>

ZoneOf(i) == IF plan.regional THEN plan.usedZones[i] ELSE 1

Create ==
  /\ plan.pc = "create"
  /\ plan' = [plan EXCEPT !.pc = "done",
                !.shards = [i \in 1..Len(plan.groups) |->
                              [id |-> ShardID(i - 1), configs |-> plan.groups[i],
                               zone |-> ZoneOf(i)]]]

Next ==
  \/ Local \/ LocalPanics
  \/ AddHome \/ NextHome \/ HomeDone \/ Shuffle
  \/ AddAbroad \/ NextAbroad \/ AbroadDone \/ Check
  \/ Split \/ Deal \/ DealDone \/ Create

vars == plan

Spec == Init /\ [][Next]_vars

-----------------------------------------------------------------------------
(* Properties.                                                             *)

TypeOK == plan \in PlanRecord

Done == plan.pc = "done"

\* Every one of m configurations is at some place of some group.
Covers(groups, m) ==
  \A c \in 1..m : \E g \in DOMAIN groups : \E k \in DOMAIN groups[g] : groups[g][k] = c

\* No configuration is at two places.
Apart(groups) ==
  \A g, h \in DOMAIN groups : \A k \in DOMAIN groups[g], l \in DOMAIN groups[h] :
    groups[g][k] = groups[h][l] => g = h /\ k = l

Lists == [i \in DOMAIN plan.shards |-> plan.shards[i].configs]

\* Every configuration of the request is tested exactly once: it is at one
\* place of the configuration list of one shard (splitConfigs loses none and
\* doubles none, however the quota falls out).
EveryConfigOnce == Done => Covers(Lists, plan.configs) /\ Apart(Lists)

\* No VM is launched for nothing: every shard has a configuration to test.
NoIdleShard == Done => \A i \in DOMAIN Lists : Lists[i] # <<>>

\* The load is even: two shards differ by one configuration at most.
Balanced == Done => \A i, j \in DOMAIN Lists : Len(Lists[i]) <= Len(Lists[j]) + 1

ShardsIn(z) == {i \in DOMAIN plan.shards : plan.shards[i].zone = z}

\* The VMs in zone z fit into the CPUs, addresses and disk space left there.
Fits(z) ==
  LET n == Cardinality(ShardsIn(z)) IN
  n > 0 => /\ 2 * n <= plan.regions[z].cpus
           /\ n <= plan.regions[z].ips
           /\ n * DiskSize <= plan.regions[z].ssd

\* Region sharding places no more VMs in a zone than each of its quotas allows,
\* although the zones are shuffled and cut off in between.
RegionWithinQuota == Done /\ plan.regional => \A z \in DOMAIN plan.regions : Fits(z)

HomeEntries == {i \in DOMAIN plan.usedZones : plan.regions[plan.usedZones[i]].home}

\* Another continent is used only if this one cannot give every configuration
\* a VM of its own.
HomeFirst ==
  Done /\ plan.regional =>
    \A i \in DOMAIN plan.shards :
      plan.regions[plan.shards[i].zone].home \/ Cardinality(HomeEntries) < plan.configs

\* Configurations share a VM only if the whole project has no quota left for
\* one more VM: every region is then used up.
SharedOnlyIfFull ==
  Done /\ plan.regional /\ Len(plan.shards) < plan.configs =>
    \A z \in DOMAIN plan.regions : Cardinality(ShardsIn(z)) >= GetMaxShard(plan.regions[z])
=============================================================================

--------------------------- MODULE WatcherProofs ----------------------------
(***************************************************************************)
(* Proofs about Watcher.tla for any number of watchers, commits, handlers  *)
(* and tests.                                                              *)
(***************************************************************************)
EXTENDS Watcher, SequenceTheorems, WellFoundedInduction, TLAPS

\* The test of commit t is in the history, and its result too.
Known(v, t) == \E i \in DOMAIN v.history : v.history[i].test = t

Entered(v, t) ==
  \E i \in DOMAIN v.history : v.history[i].test = t /\ v.history[i].status # "running"

\* A watcher v, its request q, its ForwardKCS goroutines f, the requests a that
\* reached KCS and the tests r that were reported.
MapInv(v) ==
  /\ v.registered <=> v.pc \notin {"none", "stopped"}
  /\ v.registered => v.done = "open"

LengthInv(v) ==
  /\ Len(v.history) <= MaxTests + 1
  /\ v.pc = "append" => Len(v.history) <= MaxTests

\* What is in the request, and on its way.
RequestInv(v, q, f, a) ==
  /\ v.pc = "test" => q.commit = v.head
  /\ v.pc \in {"select", "agg", "clean"} =>
       /\ q.commit = v.head /\ q.test = v.head
       /\ f.pending > 0 \/ f.failed \/ q \in a

\* A test is in the history before anybody can report on it.
HistoryInv(v, q, f, a, r) ==
  /\ v.pc = "none" => a = {} /\ r = {} /\ f.pending = 0
  /\ v.registered =>
       /\ \A p \in a : Known(v, p.test)
       /\ f.pending > 0 => Known(v, q.test)
       /\ v.pc \in {"commit", "test"} => Known(v, v.head)
       /\ \A t \in r : Entered(v, t)

Good(v, q, f, a, r) ==
  MapInv(v) /\ LengthInv(v) /\ RequestInv(v, q, f, a) /\ HistoryInv(v, q, f, a, r)

AllGood == \A w \in Watchers : Good(watcher[w], request[w], forward[w], asked[w], reported[w])

\* What a handler knows about the watcher its request is about.
CallInv ==
  \A h \in Handlers :
    /\ call[h].pc \in {"new", "create", "stop", "send", "report", "update"} =>
         call[h].id \in Watchers
    /\ call[h].pc \in {"new", "create"} =>
         /\ watcher[call[h].id].pc = "none"
         /\ \A g \in Handlers :
              call[g].pc \in {"new", "create"} /\ call[g].id = call[h].id => g = h
    /\ call[h].pc \in {"report", "update"} =>
         \E p \in asked[call[h].id] : p.test = call[h].test
    /\ call[h].pc = "update" => watcher[call[h].id].registered

\* The inductive invariant.
Inv == TypeOK /\ AllGood /\ CallInv /\ LocksMatch

-----------------------------------------------------------------------------
(* What every action needs.                                                *)

\* The part of TypeOK that is about watchers.
WatcherTypes ==
  /\ watcher \in [Watchers -> WatcherRecord]
  /\ request \in [Watchers -> Request]
  /\ forward \in [Watchers -> ForwardRecord]
  /\ asked \in [Watchers -> SUBSET Request]
  /\ reported \in [Watchers -> SUBSET Commits]

\* The invariant, taken apart and put together.
LEMMA Parts ==
  /\ Inv => /\ WatcherTypes /\ AllGood /\ CallInv /\ LocksMatch
            /\ branch \in [Watchers -> Commits] /\ call \in [Handlers -> CallRecord]
            /\ locks \in [Locks -> Handlers \cup Watchers \cup {Nobody}]
  /\ WatcherTypes' /\ AllGood' /\ CallInv' /\ LocksMatch'
     /\ branch' \in [Watchers -> Commits] /\ call' \in [Handlers -> CallRecord]
     /\ locks' \in [Locks -> Handlers \cup Watchers \cup {Nobody}] => Inv'
<1>1. Inv => /\ WatcherTypes /\ AllGood /\ CallInv /\ LocksMatch
             /\ branch \in [Watchers -> Commits] /\ call \in [Handlers -> CallRecord]
             /\ locks \in [Locks -> Handlers \cup Watchers \cup {Nobody}]
  BY DEF Inv, TypeOK, WatcherTypes
<1>2. AllGood' => \A w \in Watchers : Len(watcher'[w].history) <= MaxTests + 1
  BY DEF AllGood, Good, LengthInv
<1>3. QED
  BY <1>1, <1>2 DEF Inv, TypeOK, WatcherTypes

\* The fields of a watcher and of what belongs to it.
LEMMA Fields ==
  ASSUME Inv, NEW w \in Watchers
  PROVE  /\ watcher[w] \in WatcherRecord /\ request[w] \in Request
         /\ forward[w] \in ForwardRecord /\ asked[w] \in SUBSET Request
         /\ reported[w] \in SUBSET Commits /\ branch[w] \in Commits
         /\ watcher[w].head \in Commits /\ watcher[w].history \in Seq(TestInfo)
         /\ forward[w].pending \in Nat
         /\ Good(watcher[w], request[w], forward[w], asked[w], reported[w])
  BY Parts DEF WatcherTypes, AllGood, WatcherRecord, ForwardRecord

\* A step of one watcher: it is enough to look at that one.
LEMMA StepOfOne ==
  ASSUME Inv, NEW w \in Watchers, NEW v \in WatcherRecord, NEW q \in Request,
         NEW f \in ForwardRecord, NEW a \in SUBSET Request, NEW r \in SUBSET Commits,
         Good(v, q, f, a, r),
         watcher' = [watcher EXCEPT ![w] = v], request' = [request EXCEPT ![w] = q],
         forward' = [forward EXCEPT ![w] = f], asked' = [asked EXCEPT ![w] = a],
         reported' = [reported EXCEPT ![w] = r]
  PROVE  WatcherTypes' /\ AllGood'
<1>1. WatcherTypes
  BY Parts
<1>2. WatcherTypes'
  BY <1>1 DEF WatcherTypes
<1>3. ASSUME NEW u \in Watchers
      PROVE  Good(watcher'[u], request'[u], forward'[u], asked'[u], reported'[u])
  <2>1. CASE u = w
    <3>1. watcher'[u] = v /\ request'[u] = q /\ forward'[u] = f /\ asked'[u] = a
          /\ reported'[u] = r
      BY <1>1, <2>1, SMTT(60) DEF WatcherTypes
    <3>2. QED
      BY <3>1
  <2>2. CASE u # w
    <3>1. watcher'[u] = watcher[u] /\ request'[u] = request[u] /\ forward'[u] = forward[u]
          /\ asked'[u] = asked[u] /\ reported'[u] = reported[u]
      BY <1>1, <2>2 DEF WatcherTypes
    <3>2. QED
      BY <3>1, Fields
  <2>3. QED
    BY <2>1, <2>2
<1>4. AllGood'
  BY <1>3 DEF AllGood
<1>5. QED
  BY <1>2, <1>4

\* f is f updated with what it has.
LEMMA Same ==
  ASSUME NEW S, NEW T, NEW f \in [S -> T], NEW x \in S PROVE f = [f EXCEPT ![x] = f[x]]
BY SMTT(60)

\* A step of a watcher takes nothing away that a handler knows of.
LEMMA CallsStay ==
  ASSUME Inv, UNCHANGED call,
         \A w \in Watchers : asked[w] \subseteq asked'[w],
         \A w \in Watchers : watcher[w].pc = "none" => watcher'[w].pc = "none",
         \A w \in Watchers, h \in Handlers :
           watcher[w].registered /\ call[h].pc = "update" => watcher'[w].registered
  PROVE  CallInv' /\ call' \in [Handlers -> CallRecord]
<1>1. CallInv /\ call \in [Handlers -> CallRecord]
  BY Parts
<1>2. QED
  BY <1>1 DEF CallInv

\* A step of a watcher that takes or releases no lock.
LEMMA LocksStay ==
  ASSUME Inv, UNCHANGED <<call, locks>>,
         \A w \in Watchers : watcher'[w].pc = "agg" <=> watcher[w].pc = "agg"
  PROVE  LocksMatch' /\ locks' \in [Locks -> Handlers \cup Watchers \cup {Nobody}]
<1>1. LocksMatch /\ locks \in [Locks -> Handlers \cup Watchers \cup {Nobody}]
  BY Parts, SMTT(60)
<1>2. QED
  BY <1>1 DEF LocksMatch

\* A step of one watcher and its ForwardKCS goroutines.
LEMMA WatcherStep ==
  ASSUME Inv, NEW w \in Watchers, NEW v \in WatcherRecord, NEW q \in Request,
         NEW f \in ForwardRecord, NEW a \in SUBSET Request,
         Good(v, q, f, a, reported[w]),
         watcher' = [watcher EXCEPT ![w] = v], request' = [request EXCEPT ![w] = q],
         forward' = [forward EXCEPT ![w] = f], asked' = [asked EXCEPT ![w] = a],
         UNCHANGED <<reported, branch, call, locks>>,
         asked[w] \subseteq a, watcher[w].pc = "none" => v.pc = "none",
         watcher[w].registered /\ (\E h \in Handlers : call[h].pc = "update") => v.registered,
         v.pc = "agg" <=> watcher[w].pc = "agg"
  PROVE  Inv'
<1>1. WatcherTypes
  BY Parts
<1>2. reported' = [reported EXCEPT ![w] = reported[w]] /\ reported[w] \in SUBSET Commits
  BY <1>1, Same DEF WatcherTypes
<1>3. WatcherTypes' /\ AllGood'
  BY <1>2, StepOfOne, ZenonT(60)
<1>4. /\ watcher'[w] = v /\ asked'[w] = a
      /\ \A u \in Watchers \ {w} : watcher'[u] = watcher[u] /\ asked'[u] = asked[u]
  BY <1>1 DEF WatcherTypes
<1>5. CallInv' /\ call' \in [Handlers -> CallRecord]
  BY <1>4, CallsStay, SMTT(60)
<1>6. LocksMatch' /\ locks' \in [Locks -> Handlers \cup Watchers \cup {Nobody}]
  BY <1>4, LocksStay, SMTT(60)
<1>7. branch' \in [Watchers -> Commits]
  BY Parts, SMTT(60)
<1>8. QED
  BY <1>3, <1>5, <1>6, <1>7, Parts, SMTT(60)

\* Where no watcher can be touched by Clean.
LEMMA NoUpdate ==
  ASSUME Inv, Free("watcherLock"), NEW h \in Handlers
  PROVE  call[h].pc \notin {"create", "infos", "update"}
  BY Parts, WatcherAssumption DEF LocksMatch, Free

-----------------------------------------------------------------------------
(* The watcher's goroutine.                                                *)

\* InitTest enters the test into the history.
LEMMA AppendTestInv == ASSUME Inv, NEW w \in Watchers, AppendTest(w) PROVE Inv'
<1> DEFINE e == [test |-> watcher[w].head, status |-> "running"]
<1> DEFINE n == Append(watcher[w].history, e)
<1> DEFINE u == [watcher[w] EXCEPT !.pc = "commit"]
<1> DEFINE v == [u EXCEPT !.history = n]
<1>1. /\ watcher[w] \in WatcherRecord /\ watcher[w].head \in Commits
      /\ watcher[w].history \in Seq(TestInfo)
      /\ Good(watcher[w], request[w], forward[w], asked[w], reported[w])
      /\ request[w] \in Request /\ forward[w] \in ForwardRecord
      /\ asked[w] \in SUBSET Request
  BY Fields, SMTT(60)
<1>2. e \in TestInfo
  BY <1>1, SMTT(60) DEF TestInfo, Results
<1>3. n \in Seq(TestInfo) /\ Len(n) = Len(watcher[w].history) + 1
  BY <1>1, <1>2, SMTT(60)
<1>4. /\ DOMAIN n = 1..(Len(watcher[w].history) + 1)
      /\ n[Len(watcher[w].history) + 1] = e
      /\ DOMAIN watcher[w].history = 1..Len(watcher[w].history)
      /\ \A i \in DOMAIN watcher[w].history : i \in DOMAIN n /\ n[i] = watcher[w].history[i]
  BY <1>1, <1>2, SMTT(60)
<1>5. Len(watcher[w].history) \in Nat
  BY <1>1
<1>6. e.test = watcher[w].head
  OBVIOUS
<1> HIDE DEF n, e
<1>7. u \in WatcherRecord /\ u.history = watcher[w].history
  BY <1>1, Zenon DEF WatcherRecord
<1>8. v \in WatcherRecord
  BY <1>3, <1>7, Zenon DEF WatcherRecord
<1>9. /\ v.pc = "commit" /\ v.history = n /\ v.head = watcher[w].head
      /\ v.registered = watcher[w].registered /\ v.done = watcher[w].done
  BY <1>1 DEF WatcherRecord
<1>10. watcher[w].pc = "append"
  BY SMTT(60) DEF AppendTest
<1>11. \A t : Known(watcher[w], t) => Known(v, t)
  BY <1>4, <1>9, SMTT(60) DEF Known
<1>12. \A t : Entered(watcher[w], t) => Entered(v, t)
  BY <1>4, <1>9 DEF Entered
<1>13. Known(v, v.head)
  BY <1>4, <1>5, <1>6, <1>9, SMTT(60) DEF Known
<1>14. MapInv(v) /\ RequestInv(v, request[w], forward[w], asked[w])
  BY <1>1, <1>9, <1>10, SMTT(60) DEF Good, MapInv, RequestInv
<1>15. LengthInv(v)
  BY <1>1, <1>3, <1>5, <1>9, <1>10, WatcherAssumption, SMTT(60) DEF Good, LengthInv
<1>16. HistoryInv(v, request[w], forward[w], asked[w], reported[w])
  BY <1>1, <1>9, <1>11, <1>12, <1>13, SMTT(60) DEF Good, HistoryInv
<1>17. watcher' = [watcher EXCEPT ![w] = v]
  BY ZenonT(60) DEF AppendTest, n, e
<1>18. /\ request' = [request EXCEPT ![w] = request[w]]
       /\ forward' = [forward EXCEPT ![w] = forward[w]]
       /\ asked' = [asked EXCEPT ![w] = asked[w]]
  BY Parts, Same DEF AppendTest, WatcherTypes
<1>19. UNCHANGED <<reported, branch, call, locks>>
  BY DEF AppendTest
<1> HIDE DEF v, u
<1>20. QED
  BY <1>1, <1>8, <1>9, <1>10, <1>14, <1>15, <1>16, <1>17, <1>18, <1>19, WatcherStep,
     ZenonT(60) DEF Good

\* What of a watcher does not depend on where its goroutine is.
LEMMA SameHistory ==
  ASSUME NEW v, NEW u, v.history = u.history
  PROVE  \A t : (Known(v, t) <=> Known(u, t)) /\ (Entered(v, t) <=> Entered(u, t))
  BY DEF Known, Entered

\* The goroutine of a watcher goes to another label.
LEMMA GotoRecord ==
  ASSUME NEW x \in WatcherRecord,
         NEW l \in {"none", "append", "commit", "test", "select", "agg", "clean", "stopped"}
  PROVE  LET v == [x EXCEPT !.pc = l] IN
         /\ v \in WatcherRecord /\ v.pc = l /\ v.history = x.history /\ v.head = x.head
         /\ v.registered = x.registered /\ v.done = x.done
<1> DEFINE v == [x EXCEPT !.pc = l]
<1>1. v \in WatcherRecord
  BY Zenon DEF WatcherRecord
<1>2. QED
  BY <1>1 DEF WatcherRecord

\* Every ForwardKCS that is still to send will find the new commit.
LEMMA SetCommitInv == ASSUME Inv, NEW w \in Watchers, SetCommit(w) PROVE Inv'
<1> DEFINE v == [watcher[w] EXCEPT !.pc = "test"]
<1> DEFINE q == [request[w] EXCEPT !.commit = watcher[w].head]
<1>1. /\ watcher[w] \in WatcherRecord /\ watcher[w].head \in Commits
      /\ Good(watcher[w], request[w], forward[w], asked[w], reported[w])
      /\ request[w] \in Request /\ forward[w] \in ForwardRecord
      /\ asked[w] \in SUBSET Request
  BY Fields
<1>2. /\ v \in WatcherRecord /\ v.pc = "test" /\ v.history = watcher[w].history
      /\ v.head = watcher[w].head /\ v.registered = watcher[w].registered
      /\ v.done = watcher[w].done
  BY <1>1, GotoRecord, ZenonT(60)
<1>3. q \in Request /\ q.commit = watcher[w].head /\ q.test = request[w].test
  BY <1>1 DEF Request
<1>4. watcher[w].pc = "commit"
  BY DEF SetCommit
<1>5. watcher' = [watcher EXCEPT ![w] = v] /\ request' = [request EXCEPT ![w] = q]
  BY Zenon DEF SetCommit, Goto
<1>6. /\ forward' = [forward EXCEPT ![w] = forward[w]]
      /\ asked' = [asked EXCEPT ![w] = asked[w]]
  BY Parts, Same, SMTT(60) DEF SetCommit, WatcherTypes
<1>7. UNCHANGED <<reported, branch, call, locks>>
  BY DEF SetCommit
<1> HIDE DEF v, q
<1>8. \A t : (Known(v, t) <=> Known(watcher[w], t)) /\ (Entered(v, t) <=> Entered(watcher[w], t))
  BY <1>2, SameHistory, SMTT(60)
<1>9. MapInv(v) /\ RequestInv(v, q, forward[w], asked[w])
  BY <1>1, <1>2, <1>3, <1>4, SMTT(60) DEF Good, MapInv, RequestInv
<1>10. LengthInv(v) /\ HistoryInv(v, q, forward[w], asked[w], reported[w])
  BY <1>1, <1>2, <1>3, <1>4, <1>8, SMTT(60) DEF Good, LengthInv, HistoryInv
<1>11. QED
  BY <1>1, <1>2, <1>3, <1>4, <1>5, <1>6, <1>7, <1>9, <1>10, WatcherStep,
     ZenonT(60) DEF Good

\* With its testID the request is whole, and one more goroutine will send it.
LEMMA SetTestInv == ASSUME Inv, NEW w \in Watchers, SetTest(w) PROVE Inv'
<1> DEFINE v == [watcher[w] EXCEPT !.pc = "select"]
<1> DEFINE q == [request[w] EXCEPT !.test = watcher[w].head]
<1> DEFINE f == [forward[w] EXCEPT !.pending = @ + 1]
<1>1. /\ watcher[w] \in WatcherRecord /\ watcher[w].head \in Commits
      /\ Good(watcher[w], request[w], forward[w], asked[w], reported[w])
      /\ request[w] \in Request /\ forward[w] \in ForwardRecord
      /\ asked[w] \in SUBSET Request /\ forward[w].pending \in Nat
  BY Fields
<1>2. /\ v \in WatcherRecord /\ v.pc = "select" /\ v.history = watcher[w].history
      /\ v.head = watcher[w].head /\ v.registered = watcher[w].registered
      /\ v.done = watcher[w].done
  BY <1>1, GotoRecord, ZenonT(60)
<1>3. q \in Request /\ q.test = watcher[w].head /\ q.commit = request[w].commit
  BY <1>1 DEF Request
<1>4. f \in ForwardRecord /\ f.pending > 0
  BY <1>1 DEF ForwardRecord
<1>5. watcher[w].pc = "test"
  BY DEF SetTest
<1>6. /\ watcher' = [watcher EXCEPT ![w] = v] /\ request' = [request EXCEPT ![w] = q]
      /\ forward' = [forward EXCEPT ![w] = f]
  BY ZenonT(60) DEF SetTest, Goto
<1>7. asked' = [asked EXCEPT ![w] = asked[w]]
  BY Parts, Same DEF SetTest, WatcherTypes
<1>8. UNCHANGED <<reported, branch, call, locks>>
  BY DEF SetTest
<1> HIDE DEF v, q, f
<1>9. \A t : (Known(v, t) <=> Known(watcher[w], t)) /\ (Entered(v, t) <=> Entered(watcher[w], t))
  BY <1>2, SameHistory, SMTT(60)
<1>10. MapInv(v) /\ RequestInv(v, q, f, asked[w])
  BY <1>1, <1>2, <1>3, <1>4, <1>5, SMTT(60) DEF Good, MapInv, RequestInv
<1>11. LengthInv(v) /\ HistoryInv(v, q, f, asked[w], reported[w])
  BY <1>1, <1>2, <1>3, <1>5, <1>9, SMTT(60) DEF Good, LengthInv, HistoryInv
<1>12. QED
  BY <1>1, <1>2, <1>3, <1>4, <1>5, <1>6, <1>7, <1>8, <1>10, <1>11, WatcherStep,
     ZenonT(60) DEF Good

\* A new HEAD: the history has room for it.
LEMMA UpdateInv == ASSUME Inv, NEW w \in Watchers, Update(w) PROVE Inv'
<1> DEFINE u == [watcher[w] EXCEPT !.head = branch[w]]
<1> DEFINE v == [u EXCEPT !.pc = "append"]
<1>1. /\ watcher[w] \in WatcherRecord /\ branch[w] \in Commits
      /\ Good(watcher[w], request[w], forward[w], asked[w], reported[w])
      /\ request[w] \in Request /\ forward[w] \in ForwardRecord
      /\ asked[w] \in SUBSET Request /\ watcher[w].history \in Seq(TestInfo)
  BY Fields
<1>2. u \in WatcherRecord
  BY <1>1, Zenon DEF WatcherRecord
<1>3. /\ u.history = watcher[w].history /\ u.registered = watcher[w].registered
      /\ u.done = watcher[w].done
  BY <1>1 DEF WatcherRecord
<1>4. watcher' = [watcher EXCEPT ![w] = v]
  BY Zenon DEF Update
<1> HIDE DEF u
<1>5. /\ v \in WatcherRecord /\ v.pc = "append" /\ v.history = watcher[w].history
      /\ v.registered = watcher[w].registered /\ v.done = watcher[w].done
  BY <1>2, <1>3, GotoRecord, ZenonT(60)
<1>6. watcher[w].pc = "select" /\ Len(watcher[w].history) < MaxTests
  BY DEF Update
<1>7. /\ request' = [request EXCEPT ![w] = request[w]]
      /\ forward' = [forward EXCEPT ![w] = forward[w]]
      /\ asked' = [asked EXCEPT ![w] = asked[w]]
  BY Parts, Same DEF Update, WatcherTypes
<1>8. UNCHANGED <<reported, branch, call, locks>>
  BY DEF Update
<1> HIDE DEF v
<1>9. \A t : (Known(v, t) <=> Known(watcher[w], t)) /\ (Entered(v, t) <=> Entered(watcher[w], t))
  BY <1>5, SameHistory, SMTT(60)
<1>10. MapInv(v) /\ RequestInv(v, request[w], forward[w], asked[w])
  BY <1>1, <1>5, <1>6, SMTT(60) DEF Good, MapInv, RequestInv
<1>11. Len(watcher[w].history) \in Nat
  BY <1>1, SMTT(60)
<1>12. LengthInv(v)
  BY <1>5, <1>6, <1>11, WatcherAssumption, SMTT(60) DEF LengthInv
<1>13. HistoryInv(v, request[w], forward[w], asked[w], reported[w])
  BY <1>1, <1>5, <1>6, <1>9, SMTT(60) DEF Good, HistoryInv
<1>14. QED
  BY <1>1, <1>5, <1>6, <1>7, <1>8, <1>4, <1>10, <1>12, <1>13, WatcherStep,
     ZenonT(60) DEF Good

LEMMA UpdateFailsInv == ASSUME Inv, NEW w \in Watchers, UpdateFails(w) PROVE Inv'
<1> DEFINE v == [watcher[w] EXCEPT !.pc = "clean"]
<1>1. /\ watcher[w] \in WatcherRecord
      /\ Good(watcher[w], request[w], forward[w], asked[w], reported[w])
      /\ request[w] \in Request /\ forward[w] \in ForwardRecord
      /\ asked[w] \in SUBSET Request
  BY Fields
<1>2. /\ v \in WatcherRecord /\ v.pc = "clean" /\ v.history = watcher[w].history
      /\ v.head = watcher[w].head /\ v.registered = watcher[w].registered
      /\ v.done = watcher[w].done
  BY <1>1, GotoRecord, ZenonT(60)
<1>3. watcher[w].pc = "select"
  BY DEF UpdateFails
<1>4. watcher' = [watcher EXCEPT ![w] = v]
  BY Zenon DEF UpdateFails, Goto
<1>5. /\ request' = [request EXCEPT ![w] = request[w]]
      /\ forward' = [forward EXCEPT ![w] = forward[w]]
      /\ asked' = [asked EXCEPT ![w] = asked[w]]
  BY Parts, Same, SMTT(60) DEF UpdateFails, WatcherTypes
<1>6. UNCHANGED <<reported, branch, call, locks>>
  BY SMTT(60) DEF UpdateFails
<1> HIDE DEF v
<1>7. \A t : (Known(v, t) <=> Known(watcher[w], t)) /\ (Entered(v, t) <=> Entered(watcher[w], t))
  BY <1>2, SameHistory, SMTT(60)
<1>8. MapInv(v) /\ RequestInv(v, request[w], forward[w], asked[w])
  BY <1>1, <1>2, <1>3, SMTT(60) DEF Good, MapInv, RequestInv
<1>9. LengthInv(v) /\ HistoryInv(v, request[w], forward[w], asked[w], reported[w])
  BY <1>1, <1>2, <1>3, <1>7 DEF Good, LengthInv, HistoryInv
<1>10. QED
  BY <1>1, <1>2, <1>3, <1>4, <1>5, <1>6, <1>8, <1>9, WatcherStep, ZenonT(60) DEF Good

\* Clean needs watcherLock, so no report is half done.
LEMMA CleanInv == ASSUME Inv, NEW w \in Watchers, Clean(w) PROVE Inv'
<1> DEFINE x == [watcher[w] EXCEPT !.pc = "stopped"]
<1> DEFINE u == [x EXCEPT !.done = "closed"]
<1> DEFINE v == [u EXCEPT !.registered = FALSE]
<1>1. /\ watcher[w] \in WatcherRecord
      /\ Good(watcher[w], request[w], forward[w], asked[w], reported[w])
      /\ request[w] \in Request /\ forward[w] \in ForwardRecord
      /\ asked[w] \in SUBSET Request
  BY Fields
<1>2. watcher' = [watcher EXCEPT ![w] = v]
  BY Zenon DEF Clean
<1>3. x \in WatcherRecord /\ x.pc = "stopped" /\ x.history = watcher[w].history
  BY <1>1, GotoRecord, Zenon
<1> HIDE DEF x
<1>4. u \in WatcherRecord
  BY <1>3, Zenon DEF WatcherRecord
<1>5. u.pc = "stopped" /\ u.history = watcher[w].history
  BY <1>3 DEF WatcherRecord
<1> HIDE DEF u
<1>6. v \in WatcherRecord
  BY <1>4, Zenon DEF WatcherRecord
<1>7. v.pc = "stopped" /\ v.history = watcher[w].history /\ v.registered = FALSE
  BY <1>4, <1>5 DEF WatcherRecord
<1> HIDE DEF v
<1>8. watcher[w].pc = "clean" /\ Free("watcherLock")
  BY DEF Clean
<1>9. /\ request' = [request EXCEPT ![w] = request[w]]
      /\ forward' = [forward EXCEPT ![w] = forward[w]]
      /\ asked' = [asked EXCEPT ![w] = asked[w]]
  BY Parts, Same, SMTT(60) DEF Clean, WatcherTypes
<1>10. UNCHANGED <<reported, branch, call, locks>>
  BY DEF Clean
<1>11. \A h \in Handlers : call[h].pc # "update"
  BY <1>8, NoUpdate
<1>12. MapInv(v) /\ RequestInv(v, request[w], forward[w], asked[w])
  BY <1>7, SMTT(60) DEF MapInv, RequestInv
<1>13. LengthInv(v) /\ HistoryInv(v, request[w], forward[w], asked[w], reported[w])
  BY <1>1, <1>7 DEF Good, LengthInv, HistoryInv
<1>14. QED
  BY <1>1, <1>2, <1>6, <1>7, <1>8, <1>9, <1>10, <1>11, <1>12, <1>13, WatcherStep,
     ZenonT(60) DEF Good

\* tidyUp is left holding historyLock.
LEMMA TidyUpInv == ASSUME Inv, NEW w \in Watchers, TidyUp(w) PROVE Inv'
<1> DEFINE v == [watcher[w] EXCEPT !.pc = "agg"]
<1>1. /\ watcher[w] \in WatcherRecord
      /\ Good(watcher[w], request[w], forward[w], asked[w], reported[w])
      /\ request[w] \in Request /\ forward[w] \in ForwardRecord
      /\ asked[w] \in SUBSET Request /\ reported[w] \in SUBSET Commits
  BY Fields
<1>2. /\ v \in WatcherRecord /\ v.pc = "agg" /\ v.history = watcher[w].history
      /\ v.head = watcher[w].head /\ v.registered = watcher[w].registered
      /\ v.done = watcher[w].done
  BY <1>1, GotoRecord, ZenonT(60)
<1>3. watcher[w].pc = "select"
  BY DEF TidyUp
<1>4. watcher' = [watcher EXCEPT ![w] = v]
  BY ZenonT(60) DEF TidyUp, Goto
<1>5. /\ request' = [request EXCEPT ![w] = request[w]]
      /\ forward' = [forward EXCEPT ![w] = forward[w]]
      /\ asked' = [asked EXCEPT ![w] = asked[w]]
      /\ reported' = [reported EXCEPT ![w] = reported[w]]
  BY Parts, Same, SMTT(60) DEF TidyUp, WatcherTypes
<1>6. UNCHANGED <<asked, branch, call>> /\ locks' = [locks EXCEPT ![w] = w]
  BY SMTT(60) DEF TidyUp, Lock
<1> HIDE DEF v
<1>7. \A t : (Known(v, t) <=> Known(watcher[w], t)) /\ (Entered(v, t) <=> Entered(watcher[w], t))
  BY <1>2, SameHistory, SMTT(60)
<1>8. MapInv(v) /\ RequestInv(v, request[w], forward[w], asked[w])
  BY <1>1, <1>2, <1>3, SMTT(60) DEF Good, MapInv, RequestInv
<1>9. LengthInv(v) /\ HistoryInv(v, request[w], forward[w], asked[w], reported[w])
  BY <1>1, <1>2, <1>3, <1>7, SMTT(60) DEF Good, LengthInv, HistoryInv
<1>10. WatcherTypes' /\ AllGood'
  BY <1>1, <1>2, <1>4, <1>5, <1>8, <1>9, StepOfOne, ZenonT(60) DEF Good
<1>11. watcher'[w] = v /\ \A u \in Watchers \ {w} : watcher'[u] = watcher[u]
  BY <1>4, Parts, SMTT(60) DEF WatcherTypes
<1>12. CallInv' /\ call' \in [Handlers -> CallRecord]
  BY <1>2, <1>3, <1>6, <1>11, CallsStay, SMTT(60)
<1>13. /\ LocksMatch /\ locks \in [Locks -> Handlers \cup Watchers \cup {Nobody}]
       /\ w \in Locks /\ "watcherLock" \in Locks /\ w # "watcherLock"
       /\ branch' \in [Watchers -> Commits]
  BY <1>6, Parts, WatcherAssumption DEF Locks
<1>14. /\ locks' \in [Locks -> Handlers \cup Watchers \cup {Nobody}]
       /\ locks'[w] = w /\ locks'["watcherLock"] = locks["watcherLock"]
       /\ \A u \in Watchers \ {w} : locks'[u] = locks[u]
  BY <1>6, <1>13, SMTT(60) DEF Locks
<1>15. LocksMatch'
  BY <1>2, <1>6, <1>11, <1>13, <1>14, SMTT(60) DEF LocksMatch
<1>16. QED
  BY <1>10, <1>12, <1>13, <1>14, <1>15, Parts, SMTT(60)
-----------------------------------------------------------------------------
(* ForwardKCS, pushes and crashes.                                         *)

\* KCS is asked for a test that is in the history.
LEMMA ForwardInv == ASSUME Inv, NEW w \in Watchers, Forward(w) PROVE Inv'
<1> DEFINE f == [forward[w] EXCEPT !.pending = @ - 1]
<1> DEFINE a == asked[w] \cup {request[w]}
<1>1. /\ watcher[w] \in WatcherRecord /\ forward[w].pending \in Nat
      /\ Good(watcher[w], request[w], forward[w], asked[w], reported[w])
      /\ request[w] \in Request /\ forward[w] \in ForwardRecord
      /\ asked[w] \in SUBSET Request
  BY Fields
<1>2. forward[w].pending > 0
  BY DEF Forward
<1>3. f \in ForwardRecord /\ a \in SUBSET Request /\ request[w] \in a
  BY <1>1, <1>2 DEF ForwardRecord
<1>4. forward' = [forward EXCEPT ![w] = f] /\ asked' = [asked EXCEPT ![w] = a]
  BY Zenon DEF Forward
<1>5. /\ watcher' = [watcher EXCEPT ![w] = watcher[w]]
      /\ request' = [request EXCEPT ![w] = request[w]]
  BY Parts, Same DEF Forward, WatcherTypes
<1>6. UNCHANGED <<reported, branch, call, locks>>
  BY DEF Forward
<1>7. MapInv(watcher[w]) /\ LengthInv(watcher[w]) /\ RequestInv(watcher[w], request[w], f, a)
  BY <1>1, <1>3, SMTT(60) DEF Good, RequestInv
<1>8. HistoryInv(watcher[w], request[w], f, a, reported[w])
  BY <1>1, <1>2 DEF Good, HistoryInv
<1> HIDE DEF f
<1>9. QED
  BY <1>1, <1>3, <1>4, <1>5, <1>6, <1>7, <1>8, WatcherStep, ZenonT(60) DEF Good

LEMMA ForwardFailsInv == ASSUME Inv, NEW w \in Watchers, ForwardFails(w) PROVE Inv'
<1> DEFINE g == [forward[w] EXCEPT !.pending = @ - 1]
<1> DEFINE f == [g EXCEPT !.failed = TRUE]
<1>1. /\ watcher[w] \in WatcherRecord /\ forward[w].pending \in Nat
      /\ Good(watcher[w], request[w], forward[w], asked[w], reported[w])
      /\ request[w] \in Request /\ forward[w] \in ForwardRecord
      /\ asked[w] \in SUBSET Request
  BY Fields
<1>2. forward[w].pending > 0
  BY DEF ForwardFails
<1>3. g \in ForwardRecord /\ g.pending = forward[w].pending - 1
  BY <1>1, <1>2 DEF ForwardRecord
<1>4. forward' = [forward EXCEPT ![w] = f]
  BY Zenon DEF ForwardFails
<1> HIDE DEF g
<1>5. f \in ForwardRecord /\ f.failed
  BY <1>3, ZenonT(60) DEF ForwardRecord
<1>6. f.pending = forward[w].pending - 1
  BY <1>3 DEF ForwardRecord
<1> HIDE DEF f
<1>7. /\ watcher' = [watcher EXCEPT ![w] = watcher[w]]
      /\ request' = [request EXCEPT ![w] = request[w]]
      /\ asked' = [asked EXCEPT ![w] = asked[w]]
  BY Parts, Same DEF ForwardFails, WatcherTypes
<1>8. UNCHANGED <<reported, branch, call, locks>>
  BY SMTT(60) DEF ForwardFails
<1>9. /\ MapInv(watcher[w]) /\ LengthInv(watcher[w])
      /\ RequestInv(watcher[w], request[w], f, asked[w])
  BY <1>1, <1>5, SMTT(60) DEF Good, RequestInv
<1>10. (f.pending > 0 => forward[w].pending > 0) /\ forward[w].pending # 0
  BY <1>1, <1>2, <1>6, SMTT(60)
<1>11. HistoryInv(watcher[w], request[w], f, asked[w], reported[w])
  BY <1>1, <1>10, SMTT(60) DEF Good, HistoryInv
<1>12. QED
  BY <1>1, <1>4, <1>5, <1>7, <1>8, <1>9, <1>11, WatcherStep, ZenonT(60) DEF Good

LEMMA PushInv == ASSUME Inv, NEW w \in Watchers, Push(w) PROVE Inv'
<1>1. /\ WatcherTypes /\ AllGood /\ CallInv /\ LocksMatch
      /\ branch \in [Watchers -> Commits] /\ call \in [Handlers -> CallRecord]
      /\ locks \in [Locks -> Handlers \cup Watchers \cup {Nobody}]
  BY Parts, SMTT(60)
<1>2. UNCHANGED <<watcher, request, forward, asked, reported, call, locks>>
  BY DEF Push
<1>3. branch' \in [Watchers -> Commits]
  BY <1>1, SMTT(60) DEF Push
<1>4. WatcherTypes' /\ AllGood' /\ CallInv' /\ LocksMatch'
  BY <1>1, <1>2 DEF WatcherTypes, AllGood, CallInv, LocksMatch
<1>5. QED
  BY <1>1, <1>2, <1>3, <1>4, Parts, SMTT(60)

\* A crash takes every watcher out of the map and every lock back.
LEMMA CrashInv == ASSUME Inv, Crash PROVE Inv'
<1>1. /\ WatcherTypes /\ branch \in [Watchers -> Commits]
      /\ call \in [Handlers -> CallRecord]
  BY Parts, Zenon
<1>2. /\ forward' = [w \in Watchers |-> NoForward] /\ call' = [h \in Handlers |-> NoCall]
      /\ locks' = [l \in Locks |-> Nobody]
      /\ UNCHANGED <<request, asked, reported, branch>>
  BY Zenon DEF Crash
<1>3. ASSUME NEW w \in Watchers
      PROVE  /\ watcher'[w] \in WatcherRecord /\ watcher'[w].registered = FALSE
             /\ watcher'[w].history = <<>>
             /\ watcher'[w].pc = IF watcher[w].pc = "none" THEN "none" ELSE "stopped"
  <2> DEFINE l == IF watcher[w].pc = "none" THEN watcher[w].pc ELSE "stopped"
  <2> DEFINE x == [watcher[w] EXCEPT !.pc = l]
  <2> DEFINE u == [x EXCEPT !.registered = FALSE]
  <2> DEFINE v == [u EXCEPT !.history = <<>>]
  <2>1. watcher'[w] = v
    BY Zenon DEF Crash
  <2>2. /\ l \in {"none", "append", "commit", "test", "select", "agg", "clean", "stopped"}
        /\ l = IF watcher[w].pc = "none" THEN "none" ELSE "stopped"
    BY SMTT(60)
  <2> HIDE DEF l
  <2>3. watcher[w] \in WatcherRecord
    BY Fields
  <2>4. x \in WatcherRecord /\ x.pc = l
    BY <2>2, <2>3, GotoRecord, ZenonT(120)
  <2> HIDE DEF x
  <2>5. u \in WatcherRecord
    BY <2>4, Zenon DEF WatcherRecord
  <2>6. u.pc = l /\ u.registered = FALSE
    BY <2>4 DEF WatcherRecord
  <2> HIDE DEF u
  <2>7. <<>> \in Seq(TestInfo)
    OBVIOUS
  <2>8. v \in WatcherRecord
    BY <2>5, <2>7, Zenon DEF WatcherRecord
  <2>9. v.pc = l /\ v.registered = FALSE /\ v.history = <<>>
    BY <2>5, <2>6 DEF WatcherRecord
  <2>10. QED
    BY <2>1, <2>2, <2>8, <2>9, SMTT(60)
<1>4. watcher' \in [Watchers -> WatcherRecord]
  <2>1. watcher' = [w \in Watchers |-> watcher'[w]]
    BY Zenon DEF Crash
  <2>2. QED
    BY <1>3, <2>1, Zenon
<1>5. NoForward \in ForwardRecord /\ NoForward.pending = 0
  BY DEF NoForward, ForwardRecord
<1>6. WatcherTypes'
  BY <1>1, <1>2, <1>4, <1>5, SMTT(60) DEF WatcherTypes
<1>7. NoCall \in CallRecord /\ NoCall.pc = "idle"
  BY DEF NoCall, CallRecord
<1>8. /\ branch' \in [Watchers -> Commits] /\ call' \in [Handlers -> CallRecord]
      /\ locks' \in [Locks -> Handlers \cup Watchers \cup {Nobody}]
  BY <1>1, <1>2, <1>7, SMTT(60)
<1>9. CallInv'
  BY <1>2, <1>7, SMTT(60) DEF CallInv
<1>10. LocksMatch'
  <2>1. \A w \in Watchers : watcher'[w].pc # "agg"
    BY <1>3, Zenon
  <2>2. \A h \in Handlers : call'[h].pc = "idle" /\ h # Nobody
    BY <1>2, <1>7, WatcherAssumption
  <2>3. locks'["watcherLock"] = Nobody /\ \A w \in Watchers : locks'[w] = Nobody
    BY <1>2, SMTT(60) DEF Locks
  <2>4. QED
    BY <2>1, <2>2, <2>3 DEF LocksMatch
<1>11. ASSUME NEW w \in Watchers
       PROVE  Good(watcher'[w], request'[w], forward'[w], asked'[w], reported'[w])
  <2>1. /\ Good(watcher[w], request[w], forward[w], asked[w], reported[w])
        /\ asked'[w] = asked[w] /\ reported'[w] = reported[w]
        /\ forward'[w].pending = 0
    BY <1>2, <1>5, Fields
  <2>2. MapInv(watcher'[w]) /\ RequestInv(watcher'[w], request'[w], forward'[w], asked'[w])
    BY <1>3, Zenon DEF MapInv, RequestInv
  <2>3. LengthInv(watcher'[w])
    <3>1. Len(<<>>) = 0
      OBVIOUS
    <3>2. Len(watcher'[w].history) = 0
      BY <1>3, <3>1, Zenon
    <3>3. QED
      BY <3>2, WatcherAssumption DEF LengthInv
  <2>4. HistoryInv(watcher'[w], request'[w], forward'[w], asked'[w], reported'[w])
    BY <1>3, <2>1, ZenonT(60) DEF Good, HistoryInv
  <2>5. QED
    BY <2>2, <2>3, <2>4, SMTT(60) DEF Good
<1>12. AllGood'
  BY <1>11, SMTT(60) DEF AllGood
<1>13. QED
  BY <1>6, <1>8, <1>9, <1>10, <1>12, Parts, SMTT(60)

-----------------------------------------------------------------------------
(* What the steps of a handler need.                                       *)

Holding == {"create", "infos", "update"}

\* CallInv for a handler h that goes on with c.
CallGood(h, c) ==
  /\ c.pc \in {"new", "create", "stop", "send", "report", "update"} => c.id \in Watchers
  /\ c.pc \in {"new", "create"} =>
       /\ watcher[c.id].pc = "none"
       /\ \A g \in Handlers \ {h} : call[g].pc \in {"new", "create"} => call[g].id # c.id
  /\ c.pc \in {"report", "update"} => \E p \in asked[c.id] : p.test = c.test
  /\ c.pc = "update" => watcher[c.id].registered

LEMMA Calls ==
  ASSUME Inv, NEW h \in Handlers PROVE call[h] \in CallRecord /\ CallGood(h, call[h])
<1>1. CallInv /\ call \in [Handlers -> CallRecord]
  BY Parts, SMTT(60)
<1>2. QED
  BY <1>1 DEF CallInv, CallGood

LEMMA NoCallFacts == NoCall \in CallRecord /\ NoCall.pc = "idle"
  BY DEF NoCall, CallRecord

\* A step that changes nothing but the handler and the locks.
LEMMA CallStep ==
  ASSUME Inv, NEW h \in Handlers, NEW c \in CallRecord, CallGood(h, c),
         call' = [call EXCEPT ![h] = c],
         UNCHANGED <<watcher, request, forward, asked, reported, branch>>,
         LocksMatch', locks' \in [Locks -> Handlers \cup Watchers \cup {Nobody}]
  PROVE  Inv'
<1>1. /\ WatcherTypes /\ AllGood /\ CallInv
      /\ branch \in [Watchers -> Commits] /\ call \in [Handlers -> CallRecord]
  BY Parts
<1>2. WatcherTypes' /\ AllGood' /\ branch' \in [Watchers -> Commits]
  BY <1>1 DEF WatcherTypes, AllGood
<1>3. /\ call' \in [Handlers -> CallRecord] /\ call'[h] = c
      /\ \A g \in Handlers \ {h} : call'[g] = call[g]
  BY <1>1, SMTT(60)
<1>4. CallInv'
  BY <1>1, <1>3, SMTT(60) DEF CallInv, CallGood
<1>5. QED
  BY <1>2, <1>3, <1>4, Parts, SMTT(60)

\* A handler returns while its watcher changes.
LEMMA CallsReturn ==
  ASSUME Inv, NEW h \in Handlers, call' = [call EXCEPT ![h] = NoCall],
         \A w \in Watchers : asked[w] \subseteq asked'[w],
         \A w \in Watchers : watcher[w].registered => watcher'[w].registered,
         \A g \in Handlers \ {h} :
           call[g].pc \in {"new", "create"} => watcher'[call[g].id].pc = "none"
  PROVE  CallInv' /\ call' \in [Handlers -> CallRecord]
<1>1. CallInv /\ call \in [Handlers -> CallRecord]
  BY Parts
<1>2. /\ call' \in [Handlers -> CallRecord] /\ call'[h].pc = "idle"
      /\ \A g \in Handlers \ {h} : call'[g] = call[g]
  BY <1>1, NoCallFacts, SMTT(60)
<1>3. QED
  BY <1>1, <1>2, SMTT(60) DEF CallInv

\* The three things a handler does with watcherLock: nothing, take, release.
LEMMA KeepLock ==
  ASSUME Inv, NEW h \in Handlers, NEW c \in CallRecord, call' = [call EXCEPT ![h] = c],
         UNCHANGED locks, c.pc \in Holding <=> call[h].pc \in Holding,
         \A w \in Watchers : watcher'[w].pc = "agg" <=> watcher[w].pc = "agg"
  PROVE  LocksMatch' /\ locks' \in [Locks -> Handlers \cup Watchers \cup {Nobody}]
<1>1. /\ LocksMatch /\ locks \in [Locks -> Handlers \cup Watchers \cup {Nobody}]
      /\ call \in [Handlers -> CallRecord]
  BY Parts
<1>2. call'[h] = c /\ \A g \in Handlers \ {h} : call'[g] = call[g]
  BY <1>1, SMTT(60)
<1>3. QED
  BY <1>1, <1>2, SMTT(60) DEF LocksMatch, Holding

LEMMA TakeLock ==
  ASSUME Inv, NEW h \in Handlers, NEW c \in CallRecord, call' = [call EXCEPT ![h] = c],
         Free("watcherLock"), Lock("watcherLock", h), c.pc \in Holding, UNCHANGED watcher
  PROVE  LocksMatch' /\ locks' \in [Locks -> Handlers \cup Watchers \cup {Nobody}]
<1>1. /\ LocksMatch /\ locks \in [Locks -> Handlers \cup Watchers \cup {Nobody}]
      /\ call \in [Handlers -> CallRecord]
  BY Parts
<1>2. call'[h] = c /\ \A g \in Handlers \ {h} : call'[g] = call[g]
  BY <1>1
<1>3. /\ locks' \in [Locks -> Handlers \cup Watchers \cup {Nobody}]
      /\ locks'["watcherLock"] = h /\ \A w \in Watchers : locks'[w] = locks[w]
  BY <1>1, WatcherAssumption, SMTT(60) DEF Lock, Locks
<1>4. \A g \in Handlers : call[g].pc \notin Holding
  BY NoUpdate, SMTT(60) DEF Holding
<1>5. QED
  BY <1>1, <1>2, <1>3, <1>4, SMTT(60) DEF LocksMatch, Holding

LEMMA DropLock ==
  ASSUME Inv, NEW h \in Handlers, call' = [call EXCEPT ![h] = NoCall],
         Lock("watcherLock", Nobody), call[h].pc \in Holding,
         \A w \in Watchers : watcher'[w].pc = "agg" <=> watcher[w].pc = "agg"
  PROVE  LocksMatch' /\ locks' \in [Locks -> Handlers \cup Watchers \cup {Nobody}]
<1>1. /\ LocksMatch /\ locks \in [Locks -> Handlers \cup Watchers \cup {Nobody}]
      /\ call \in [Handlers -> CallRecord]
  BY Parts, SMTT(60)
<1>2. call'[h].pc = "idle" /\ \A g \in Handlers \ {h} : call'[g] = call[g]
  BY <1>1, NoCallFacts, SMTT(60)
<1>3. /\ locks' \in [Locks -> Handlers \cup Watchers \cup {Nobody}]
      /\ locks'["watcherLock"] = Nobody /\ \A w \in Watchers : locks'[w] = locks[w]
  BY <1>1, WatcherAssumption, SMTT(60) DEF Lock, Locks
<1>4. locks["watcherLock"] = h
  BY <1>1, SMTT(60) DEF LocksMatch, Holding
<1>5. \A g \in Handlers : call'[g].pc \notin Holding /\ g # Nobody
  BY <1>1, <1>2, <1>4, WatcherAssumption, SMTT(60) DEF LocksMatch, Holding
<1>6. QED
  BY <1>1, <1>3, <1>5, SMTT(60) DEF LocksMatch, Holding

-----------------------------------------------------------------------------
(* The handlers.                                                           *)

LEMMA TakeInv ==
  ASSUME Inv, NEW h \in Handlers, NEW l \in {"new", "stop", "status", "report"},
         NEW w \in Watchers \cup {Nobody}, NEW t \in Commits \cup {Nobody},
         Take(h, l, w, t), CallGood(h, [pc |-> l, id |-> w, test |-> t, todo |-> {}])
  PROVE  Inv'
<1> DEFINE c == [pc |-> l, id |-> w, test |-> t, todo |-> {}]
<1>1. c \in CallRecord /\ c.pc = l
  BY SMTT(60) DEF CallRecord
<1>2. /\ call[h].pc = "idle" /\ call' = [call EXCEPT ![h] = c]
      /\ UNCHANGED <<watcher, request, forward, asked, reported, branch, locks>>
  BY SMTT(60) DEF Take
<1>3. CallGood(h, c)
  OBVIOUS
<1> HIDE DEF c
<1>4. LocksMatch' /\ locks' \in [Locks -> Handlers \cup Watchers \cup {Nobody}]
  BY <1>1, <1>2, KeepLock, ZenonT(60) DEF Holding
<1>5. QED
  BY <1>1, <1>2, <1>3, <1>4, CallStep, ZenonT(60)

\* What comes in from users and from test schedulers.
LEMMA ReceiveInv == ASSUME Inv, NEW h \in Handlers, Receive(h) PROVE Inv'
<1>1. CASE TakeStatus(h)
  <2>1. CallGood(h, [pc |-> "status", id |-> Nobody, test |-> Nobody, todo |-> {}])
    BY SMTT(60) DEF CallGood
  <2>2. QED
    BY <1>1, <2>1, TakeInv, SMTT(60), Z3T(60) DEF TakeStatus
<1>2. ASSUME NEW w \in Watchers, TakeNew(h, w) PROVE Inv'
  <2>1. CallGood(h, [pc |-> "new", id |-> w, test |-> Nobody, todo |-> {}])
    BY <1>2, SMTT(60) DEF CallGood, TakeNew
  <2>2. QED
    BY <1>2, <2>1, TakeInv, SMTT(60) DEF TakeNew
<1>3. ASSUME NEW w \in Watchers, TakeStop(h, w) PROVE Inv'
  <2>1. CallGood(h, [pc |-> "stop", id |-> w, test |-> Nobody, todo |-> {}])
    BY SMTT(60) DEF CallGood
  <2>2. QED
    BY <1>3, <2>1, TakeInv, SMTT(60) DEF TakeStop
<1>4. ASSUME NEW w \in Watchers, TakeReport(h, w) PROVE Inv'
  <2>1. PICK r \in asked[w] : Take(h, "report", w, r.test)
    BY <1>4, SMTT(60) DEF TakeReport
  <2>2. r.test \in Commits
    BY Fields, SMTT(60) DEF Request
  <2>3. CallGood(h, [pc |-> "report", id |-> w, test |-> r.test, todo |-> {}])
    BY DEF CallGood
  <2>4. QED
    BY <2>1, <2>2, <2>3, TakeInv, SMTT(60)
<1>5. QED
  BY <1>1, <1>2, <1>3, <1>4, SMTT(60) DEF Receive

\* A handler goes to another label.
LEMMA StepRecord ==
  ASSUME NEW x \in CallRecord,
         NEW l \in {"idle", "new", "create", "stop", "send", "status", "infos", "report",
                    "update"}
  PROVE  LET c == [x EXCEPT !.pc = l] IN
         c \in CallRecord /\ c.pc = l /\ c.id = x.id /\ c.test = x.test /\ c.todo = x.todo
<1> DEFINE c == [x EXCEPT !.pc = l]
<1>1. c \in CallRecord
  BY Zenon DEF CallRecord
<1>2. QED
  BY <1>1 DEF CallRecord

LEMMA NewLockInv == ASSUME Inv, NEW h \in Handlers, NewLock(h) PROVE Inv'
<1> DEFINE c == [call[h] EXCEPT !.pc = "create"]
<1>1. call[h] \in CallRecord /\ CallGood(h, call[h])
  BY Calls
<1>2. c \in CallRecord /\ c.pc = "create" /\ c.id = call[h].id
  BY <1>1, StepRecord, ZenonT(60)
<1>3. call' = [call EXCEPT ![h] = c]
  BY Zenon DEF NewLock, Step
<1>4. /\ call[h].pc = "new" /\ Free("watcherLock") /\ Lock("watcherLock", h)
      /\ UNCHANGED <<watcher, request, forward, asked, reported, branch>>
  BY SMTT(60) DEF NewLock
<1> HIDE DEF c
<1>5. CallGood(h, c)
  BY <1>1, <1>2, <1>4 DEF CallGood
<1>6. LocksMatch' /\ locks' \in [Locks -> Handlers \cup Watchers \cup {Nobody}]
  BY <1>2, <1>3, <1>4, TakeLock, ZenonT(60) DEF Holding
<1>7. QED
  BY <1>2, <1>3, <1>4, <1>5, <1>6, CallStep, ZenonT(60)

\* Nothing has been asked or reported under the testID of a new watcher.
LEMMA NewGitWatcherInv == ASSUME Inv, NEW h \in Handlers, NewGitWatcher(h) PROVE Inv'
<1> DEFINE w == call[h].id
<1> DEFINE v == [pc |-> "append", registered |-> TRUE, head |-> branch[w], history |-> <<>>,
                 done |-> "open"]
<1>1. /\ call[h].pc = "create" /\ watcher' = [watcher EXCEPT ![w] = v]
      /\ Lock("watcherLock", Nobody) /\ call' = [call EXCEPT ![h] = NoCall]
      /\ UNCHANGED <<request, forward, asked, reported, branch>>
  BY SMTT(60) DEF NewGitWatcher, Return
<1>2. /\ w \in Watchers /\ watcher[w].pc = "none"
      /\ \A g \in Handlers \ {h} : call[g].pc \in {"new", "create"} => call[g].id # w
  BY <1>1, Calls, SMTT(60) DEF CallGood
<1> HIDE DEF w
<1>3. /\ Good(watcher[w], request[w], forward[w], asked[w], reported[w])
      /\ request[w] \in Request /\ forward[w] \in ForwardRecord
      /\ asked[w] \in SUBSET Request /\ reported[w] \in SUBSET Commits
      /\ branch[w] \in Commits
  BY <1>2, Fields, SMTT(60)
<1>4. v \in WatcherRecord
  BY <1>3 DEF WatcherRecord
<1>5. v.pc = "append" /\ v.registered /\ v.done = "open" /\ v.history = <<>>
  OBVIOUS
<1> HIDE DEF v
<1>6. Len(<<>>) = 0
  OBVIOUS
<1>7. Len(v.history) = 0
  BY <1>5, <1>6, ZenonT(60)
<1>8. LengthInv(v)
  BY <1>7, WatcherAssumption, SMTT(60) DEF LengthInv
<1>9. MapInv(v) /\ RequestInv(v, request[w], forward[w], asked[w])
  BY <1>5, SMTT(60) DEF MapInv, RequestInv
<1>10. asked[w] = {} /\ reported[w] = {} /\ forward[w].pending = 0
  BY <1>2, <1>3, SMTT(60) DEF Good, HistoryInv
<1>11. HistoryInv(v, request[w], forward[w], asked[w], reported[w])
  BY <1>5, <1>10, SMTT(60) DEF HistoryInv
<1>12. /\ request' = [request EXCEPT ![w] = request[w]]
       /\ forward' = [forward EXCEPT ![w] = forward[w]]
       /\ asked' = [asked EXCEPT ![w] = asked[w]]
       /\ reported' = [reported EXCEPT ![w] = reported[w]]
  BY <1>1, <1>2, Parts, Same DEF WatcherTypes
<1>13. WatcherTypes' /\ AllGood'
  <2>1. Good(v, request[w], forward[w], asked[w], reported[w])
    BY <1>8, <1>9, <1>11, SMTT(60), Z3T(60) DEF Good
  <2>2. watcher' = [watcher EXCEPT ![w] = v]
    BY <1>1, SMTT(60)
  <2>3. QED
    BY <1>2, <1>3, <1>4, <1>12, <2>1, <2>2, StepOfOne, ZenonT(60)
<1>14. watcher'[w] = v /\ \A u \in Watchers \ {w} : watcher'[u] = watcher[u]
  BY <1>1, <1>2, Parts, SMTT(60) DEF WatcherTypes
<1>15. /\ \A u \in Watchers : watcher[u].registered => watcher'[u].registered
       /\ \A u \in Watchers : watcher'[u].pc = "agg" <=> watcher[u].pc = "agg"
  BY <1>2, <1>5, <1>14, SMTT(60)
<1>16. \A g \in Handlers \ {h} :
         call[g].pc \in {"new", "create"} => watcher'[call[g].id].pc = "none"
  BY <1>2, <1>14, Calls DEF CallGood
<1>17. CallInv' /\ call' \in [Handlers -> CallRecord]
  BY <1>1, <1>15, <1>16, CallsReturn, ZenonT(60)
<1>18. LocksMatch' /\ locks' \in [Locks -> Handlers \cup Watchers \cup {Nobody}]
  BY <1>1, <1>15, DropLock, ZenonT(60) DEF Holding
<1>19. QED
  BY <1>1, <1>13, <1>17, <1>18, Parts, SMTT(60)

\* A handler returns and changes nothing, with the lock or without.
LEMMA ReturnInv ==
  ASSUME Inv, NEW h \in Handlers, Return(h),
         UNCHANGED <<watcher, request, forward, asked, reported, branch>>,
         \/ call[h].pc \in Holding /\ Lock("watcherLock", Nobody)
         \/ call[h].pc \notin Holding /\ UNCHANGED locks
  PROVE  Inv'
<1>1. NoCall \in CallRecord /\ NoCall.pc = "idle" /\ NoCall.pc \notin Holding
  BY NoCallFacts, SMTT(60) DEF Holding
<1>2. CallGood(h, NoCall)
  BY <1>1 DEF CallGood
<1>3. call' = [call EXCEPT ![h] = NoCall]
  BY DEF Return
<1>4. \A w \in Watchers : watcher'[w].pc = "agg" <=> watcher[w].pc = "agg"
  OBVIOUS
<1>5. CASE call[h].pc \in Holding /\ Lock("watcherLock", Nobody)
  <2>1. LocksMatch' /\ locks' \in [Locks -> Handlers \cup Watchers \cup {Nobody}]
    BY <1>3, <1>4, <1>5, DropLock, ZenonT(60)
  <2>2. QED
    BY <1>1, <1>2, <1>3, <2>1, CallStep, ZenonT(60)
<1>6. CASE call[h].pc \notin Holding /\ UNCHANGED locks
  <2>1. LocksMatch' /\ locks' \in [Locks -> Handlers \cup Watchers \cup {Nobody}]
    BY <1>1, <1>3, <1>4, <1>6, KeepLock, ZenonT(60)
  <2>2. QED
    BY <1>1, <1>2, <1>3, <2>1, CallStep, Zenon
<1>7. QED
  BY <1>5, <1>6, SMTT(60)

LEMMA NewGitWatcherPanicsInv ==
  ASSUME Inv, NEW h \in Handlers, NewGitWatcherPanics(h) PROVE Inv'
  BY ReturnInv, SMTT(60) DEF NewGitWatcherPanics, Holding

LEMMA StatusDoneInv == ASSUME Inv, NEW h \in Handlers, StatusDone(h) PROVE Inv'
  BY ReturnInv, SMTT(60) DEF StatusDone, Holding

LEMMA SendPanicsInv == ASSUME Inv, NEW h \in Handlers, SendPanics(h) PROVE Inv'
  BY ReturnInv DEF SendPanics, Holding

LEMMA FindWatcherInv == ASSUME Inv, NEW h \in Handlers, FindWatcher(h) PROVE Inv'
<1>1. /\ call[h].pc = "stop"
      /\ UNCHANGED <<watcher, request, forward, asked, reported, branch, locks>>
      /\ Step(h, "send") \/ Return(h)
  BY DEF FindWatcher
<1>2. CASE Return(h)
  BY <1>1, <1>2, ReturnInv DEF Holding
<1>3. CASE Step(h, "send")
  <2> DEFINE c == [call[h] EXCEPT !.pc = "send"]
  <2>1. call[h] \in CallRecord /\ CallGood(h, call[h])
    BY Calls
  <2>2. c \in CallRecord /\ c.pc = "send" /\ c.id = call[h].id
    BY <2>1, StepRecord, Zenon
  <2>3. call' = [call EXCEPT ![h] = c]
    BY <1>3, ZenonT(60) DEF Step
  <2> HIDE DEF c
  <2>4. CallGood(h, c)
    BY <1>1, <2>1, <2>2 DEF CallGood
  <2>5. LocksMatch' /\ locks' \in [Locks -> Handlers \cup Watchers \cup {Nobody}]
    BY <1>1, <2>2, <2>3, KeepLock, ZenonT(40) DEF Holding
  <2>6. QED
    BY <1>1, <2>2, <2>3, <2>4, <2>5, CallStep, ZenonT(60)
<1>4. QED
  BY <1>1, <1>2, <1>3, SMTT(60)

LEMMA SendDoneInv == ASSUME Inv, NEW h \in Handlers, SendDone(h) PROVE Inv'
<1> DEFINE w == call[h].id
<1> DEFINE v == [watcher[w] EXCEPT !.pc = "clean"]
<1>1. /\ call[h].pc = "send" /\ watcher[w].pc = "select"
      /\ call' = [call EXCEPT ![h] = NoCall]
      /\ UNCHANGED <<request, forward, asked, reported, branch, locks>>
  BY DEF SendDone, Return
<1>2. watcher' = [watcher EXCEPT ![w] = v]
  BY ZenonT(60) DEF SendDone, Goto
<1>3. w \in Watchers
  BY <1>1, Calls, SMTT(60) DEF CallGood
<1> HIDE DEF w
<1>4. /\ Good(watcher[w], request[w], forward[w], asked[w], reported[w])
      /\ watcher[w] \in WatcherRecord
      /\ request[w] \in Request /\ forward[w] \in ForwardRecord
      /\ asked[w] \in SUBSET Request /\ reported[w] \in SUBSET Commits
  BY <1>3, Fields
<1>5. /\ v \in WatcherRecord /\ v.pc = "clean" /\ v.history = watcher[w].history
      /\ v.head = watcher[w].head /\ v.registered = watcher[w].registered
      /\ v.done = watcher[w].done
  BY <1>4, GotoRecord, ZenonT(60)
<1> HIDE DEF v
<1>6. \A t : (Known(v, t) <=> Known(watcher[w], t)) /\ (Entered(v, t) <=> Entered(watcher[w], t))
  BY <1>5, SameHistory, SMTT(120)
<1>7. MapInv(v) /\ RequestInv(v, request[w], forward[w], asked[w])
  BY <1>1, <1>4, <1>5, SMTT(120) DEF Good, MapInv, RequestInv
<1>8. LengthInv(v) /\ HistoryInv(v, request[w], forward[w], asked[w], reported[w])
  BY <1>1, <1>4, <1>5, <1>6, SMTT(60), Z3T(60) DEF Good, LengthInv, HistoryInv
<1>9. /\ request' = [request EXCEPT ![w] = request[w]]
      /\ forward' = [forward EXCEPT ![w] = forward[w]]
      /\ asked' = [asked EXCEPT ![w] = asked[w]]
      /\ reported' = [reported EXCEPT ![w] = reported[w]]
  BY <1>1, <1>3, Parts, Same, ZenonT(40) DEF WatcherTypes
<1>10. Good(v, request[w], forward[w], asked[w], reported[w])
  BY <1>7, <1>8 DEF Good
<1>11. WatcherTypes' /\ AllGood'
  BY <1>2, <1>3, <1>4, <1>5, <1>9, <1>10, StepOfOne, ZenonT(60)
<1>12. watcher'[w] = v /\ \A u \in Watchers \ {w} : watcher'[u] = watcher[u]
  BY <1>2, <1>3, Parts, SMTT(60) DEF WatcherTypes
<1>13. /\ \A u \in Watchers : watcher[u].registered => watcher'[u].registered
       /\ \A u \in Watchers : watcher'[u].pc = "agg" <=> watcher[u].pc = "agg"
       /\ \A u \in Watchers : watcher[u].pc = "none" => watcher'[u].pc = "none"
  BY <1>1, <1>5, <1>12, SMTT(60)
<1>14. \A g \in Handlers \ {h} :
         call[g].pc \in {"new", "create"} => watcher'[call[g].id].pc = "none"
  BY <1>13, Calls DEF CallGood
<1>15. CallInv' /\ call' \in [Handlers -> CallRecord]
  BY <1>1, <1>13, <1>14, CallsReturn, ZenonT(60)
<1>16. LocksMatch' /\ locks' \in [Locks -> Handlers \cup Watchers \cup {Nobody}]
  BY <1>1, <1>13, NoCallFacts, KeepLock, ZenonT(60) DEF Holding
<1>17. QED
  BY <1>1, <1>11, <1>15, <1>16, Parts, SMTT(60)

LEMMA StatusLockInv == ASSUME Inv, NEW h \in Handlers, StatusLock(h) PROVE Inv'
<1> DEFINE T == {w \in Watchers : watcher[w].registered}
<1> DEFINE b == [call[h] EXCEPT !.pc = "infos"]
<1> DEFINE c == [b EXCEPT !.todo = T]
<1>1. call[h] \in CallRecord
  BY Calls
<1>2. call' = [call EXCEPT ![h] = c]
  BY Zenon DEF StatusLock
<1>3. b \in CallRecord /\ b.pc = "infos" /\ T \in SUBSET Watchers
  BY <1>1, StepRecord, Zenon
<1> HIDE DEF b, T
<1>4. c \in CallRecord
  BY <1>3, Zenon DEF CallRecord
<1>5. c.pc = "infos"
  BY <1>3 DEF CallRecord
<1> HIDE DEF c
<1>6. /\ Free("watcherLock") /\ Lock("watcherLock", h)
      /\ UNCHANGED <<watcher, request, forward, asked, reported, branch>>
  BY DEF StatusLock
<1>7. CallGood(h, c)
  BY <1>5 DEF CallGood
<1>8. LocksMatch' /\ locks' \in [Locks -> Handlers \cup Watchers \cup {Nobody}]
  BY <1>2, <1>4, <1>5, <1>6, TakeLock, ZenonT(60) DEF Holding
<1>9. QED
  BY <1>2, <1>4, <1>6, <1>7, <1>8, CallStep, ZenonT(60)

LEMMA InfoInv ==
  ASSUME Inv, NEW h \in Handlers, NEW w \in Watchers, Info(h, w) PROVE Inv'
<1> DEFINE T == call[h].todo \ {w}
<1> DEFINE c == [call[h] EXCEPT !.todo = T]
<1>1. call[h] \in CallRecord /\ call[h].todo \in SUBSET Watchers
  BY Calls DEF CallRecord
<1>2. call' = [call EXCEPT ![h] = c]
  BY ZenonT(60) DEF Info
<1>3. T \in SUBSET Watchers
  BY <1>1
<1> HIDE DEF T
<1>4. c \in CallRecord
  BY <1>1, <1>3, Zenon DEF CallRecord
<1>5. /\ call[h].pc = "infos"
      /\ UNCHANGED <<watcher, request, forward, asked, reported, branch, locks>>
  BY DEF Info
<1>6. c.pc = "infos"
  BY <1>1, <1>5, SMTT(60) DEF CallRecord
<1> HIDE DEF c
<1>7. CallGood(h, c)
  BY <1>6 DEF CallGood
<1>8. LocksMatch' /\ locks' \in [Locks -> Handlers \cup Watchers \cup {Nobody}]
  BY <1>2, <1>4, <1>5, <1>6, KeepLock, ZenonT(60) DEF Holding
<1>9. QED
  BY <1>2, <1>4, <1>5, <1>7, <1>8, CallStep, ZenonT(60)

\* The watcher that is found under the lock stays in the map until it is released.
LEMMA ReportLockInv == ASSUME Inv, NEW h \in Handlers, ReportLock(h) PROVE Inv'
<1>1. /\ call[h].pc = "report" /\ Free("watcherLock")
      /\ UNCHANGED <<watcher, request, forward, asked, reported, branch>>
  BY SMTT(60) DEF ReportLock
<1>2. CASE ~watcher[call[h].id].registered
  <2>1. Return(h) /\ UNCHANGED locks
    BY <1>2 DEF ReportLock
  <2>2. QED
    BY <1>1, <2>1, ReturnInv, SMTT(60) DEF Holding
<1>3. CASE watcher[call[h].id].registered
  <2> DEFINE c == [call[h] EXCEPT !.pc = "update"]
  <2>1. call[h] \in CallRecord /\ CallGood(h, call[h])
    BY Calls
  <2>2. c \in CallRecord /\ c.pc = "update" /\ c.id = call[h].id /\ c.test = call[h].test
    BY <2>1, StepRecord, ZenonT(60)
  <2>3. Lock("watcherLock", h) /\ Step(h, "update")
    BY <1>3 DEF ReportLock
  <2>4. call' = [call EXCEPT ![h] = c]
    BY <2>3, ZenonT(60) DEF Step
  <2> HIDE DEF c
  <2>5. CallGood(h, c)
    BY <1>1, <1>3, <2>1, <2>2, SMTT(60) DEF CallGood
  <2>6. LocksMatch' /\ locks' \in [Locks -> Handlers \cup Watchers \cup {Nobody}]
    BY <1>1, <2>2, <2>3, <2>4, TakeLock, ZenonT(60) DEF Holding
  <2>7. QED
    BY <1>1, <2>2, <2>4, <2>5, <2>6, CallStep, ZenonT(60)
<1>4. QED
  BY <1>2, <1>3, SMTT(60)

\* UpdateTest finds an entry for a test that is in the history.
LEMMA EntryFound ==
  ASSUME Inv, NEW w \in Watchers, NEW t, Known(watcher[w], t)
  PROVE  \E i \in Entry(w, t) : i \in DOMAIN watcher[w].history
                               /\ watcher[w].history[i].test = t
<1>1. watcher[w].history \in Seq(TestInfo)
  BY Fields, SMTT(60)
<1>2. Entries(w, t) \subseteq Nat
  BY <1>1 DEF Entries
<1>3. Entries(w, t) # {}
  BY DEF Known, Entries
<1>4. PICK i \in Entries(w, t) : \A j \in Entries(w, t) : ~(<<j, i>> \in OpToRel(<, Nat))
  BY <1>2, <1>3, NatLessThanWellFounded, WFMin, ZenonT(60)
<1>5. \A j \in Entries(w, t) : ~(j < i)
  BY <1>2, <1>4, ZenonT(60) DEF OpToRel
<1>6. i \in Entry(w, t)
  BY <1>2, <1>5 DEF Entry
<1>7. QED
  BY <1>6, SMTT(60) DEF Entries

\* UpdateTest changes the status of entries and nothing else of the history.
LEMMA UpdatedHistory ==
  ASSUME NEW H \in Seq(TestInfo), NEW E, NEW result \in Results
  PROVE  LET n == [i \in DOMAIN H |-> IF i \in E THEN [H[i] EXCEPT !.status = result] ELSE H[i]]
         IN  /\ n \in Seq(TestInfo) /\ Len(n) = Len(H) /\ DOMAIN n = DOMAIN H
             /\ \A i \in DOMAIN H :
                  n[i].test = H[i].test
                  /\ n[i].status = IF i \in E THEN result ELSE H[i].status
<1> DEFINE n == [i \in DOMAIN H |-> IF i \in E THEN [H[i] EXCEPT !.status = result] ELSE H[i]]
<1>1. DOMAIN H = 1..Len(H) /\ Len(H) \in Nat /\ \A i \in DOMAIN H : H[i] \in TestInfo
  OBVIOUS
<1>2. \A i \in DOMAIN H : [H[i] EXCEPT !.status = result] \in TestInfo
  BY <1>1, Zenon DEF TestInfo
<1>3. ASSUME NEW i \in DOMAIN H
      PROVE  /\ n[i] \in TestInfo /\ n[i].test = H[i].test
             /\ n[i].status = IF i \in E THEN result ELSE H[i].status
  <2>1. H[i] \in TestInfo /\ [H[i] EXCEPT !.status = result] \in TestInfo
    BY <1>1, <1>2
  <2>2. n[i] = IF i \in E THEN [H[i] EXCEPT !.status = result] ELSE H[i]
    OBVIOUS
  <2> HIDE DEF n
  <2>3. QED
    BY <2>1, <2>2 DEF TestInfo
<1>4. n \in [1..Len(H) -> TestInfo]
  BY <1>1, <1>3
<1>5. DOMAIN n = DOMAIN H
  OBVIOUS
<1> HIDE DEF n
<1>6. n \in Seq(TestInfo) /\ Len(n) = Len(H)
  BY <1>1, <1>4, SeqDef, SMTT(60)
<1>7. QED
  BY <1>3, <1>5, <1>6, SMTT(60) DEF n

\* The result is entered: its test is known, because KCS was asked for it.
LEMMA UpdateTestInv == ASSUME Inv, NEW h \in Handlers, UpdateTest(h) PROVE Inv'
<1> DEFINE w == call[h].id
<1> DEFINE t == call[h].test
<1> DEFINE H == watcher[w].history
<1> DEFINE E == Entry(w, t)
<1>1. /\ call[h].pc = "update" /\ Lock("watcherLock", Nobody)
      /\ call' = [call EXCEPT ![h] = NoCall]
      /\ reported' = [reported EXCEPT ![w] = reported[w] \cup {t}]
      /\ UNCHANGED <<request, forward, asked, branch>>
  BY Zenon DEF UpdateTest, Return
<1>2. PICK result \in Results :
        watcher' = [watcher EXCEPT ![w].history =
          [i \in DOMAIN @ |-> IF i \in E THEN [@[i] EXCEPT !.status = result] ELSE @[i]]]
  BY Zenon DEF UpdateTest
<1> DEFINE n == [i \in DOMAIN H |-> IF i \in E THEN [H[i] EXCEPT !.status = result] ELSE H[i]]
<1> DEFINE v == [watcher[w] EXCEPT !.history = n]
<1>3. watcher' = [watcher EXCEPT ![w] = v]
  BY <1>2, Zenon
<1>4. w \in Watchers /\ watcher[w].registered /\ \E p \in asked[w] : p.test = t
  BY <1>1, Calls, ZenonT(60) DEF CallGood
<1>5. /\ Good(watcher[w], request[w], forward[w], asked[w], reported[w])
      /\ watcher[w] \in WatcherRecord /\ H \in Seq(TestInfo)
      /\ request[w] \in Request /\ forward[w] \in ForwardRecord
      /\ asked[w] \in SUBSET Request /\ reported[w] \in SUBSET Commits
  BY <1>4, Fields
<1>6. /\ n \in Seq(TestInfo) /\ Len(n) = Len(H) /\ DOMAIN n = DOMAIN H
      /\ \A i \in DOMAIN H :
           n[i].test = H[i].test /\ n[i].status = IF i \in E THEN result ELSE H[i].status
  <2> HIDE DEF H, E
  <2>1. H \in Seq(TestInfo)
    BY <1>5 DEF H
  <2>2. QED
    BY <2>1, UpdatedHistory, ZenonT(120)
<1>7. t \in Commits /\ result # "running" /\ Known(watcher[w], t)
  BY <1>4, <1>5, ZenonT(40) DEF Request, Results, Good, HistoryInv
<1>8. PICK k \in E : k \in DOMAIN H /\ H[k].test = t
  BY <1>4, <1>7, EntryFound
<1> HIDE DEF n, E, t, w
<1>9. v \in WatcherRecord
  BY <1>5, <1>6, Zenon DEF WatcherRecord
<1>10. /\ v.pc = watcher[w].pc /\ v.history = n /\ v.head = watcher[w].head
       /\ v.registered = watcher[w].registered /\ v.done = watcher[w].done
  BY <1>5 DEF WatcherRecord
<1> HIDE DEF v
<1>11. \A x : Known(watcher[w], x) => Known(v, x)
  BY <1>6, <1>10, SMTT(60) DEF Known
<1>12. \A x : Entered(watcher[w], x) => Entered(v, x)
  BY <1>6, <1>7, <1>10, SMTT(60) DEF Entered
<1>13. Entered(v, t)
  BY <1>6, <1>7, <1>8, <1>10, SMTT(30) DEF Entered
<1>14. MapInv(v) /\ RequestInv(v, request[w], forward[w], asked[w])
  BY <1>5, <1>10, ZenonT(60) DEF Good, MapInv, RequestInv
<1>15. LengthInv(v)
  BY <1>5, <1>6, <1>10, SMTT(30) DEF Good, LengthInv
<1>16. watcher[w].pc # "none"
  BY <1>4, <1>5, ZenonT(60) DEF Good, MapInv
<1>17. HistoryInv(v, request[w], forward[w], asked[w], reported[w] \cup {t})
  <2>1. HistoryInv(watcher[w], request[w], forward[w], asked[w], reported[w])
    BY <1>5 DEF Good
  <2>2. /\ v.pc # "none" /\ \A p \in asked[w] : Known(v, p.test)
        /\ forward[w].pending > 0 => Known(v, request[w].test)
        /\ v.pc \in {"commit", "test"} => Known(v, v.head)
    BY <1>4, <1>10, <1>11, <1>16, <2>1, ZenonT(60) DEF HistoryInv
  <2>3. \A x \in reported[w] \cup {t} : Entered(v, x)
    BY <1>4, <1>12, <1>13, <2>1, ZenonT(40) DEF HistoryInv
  <2>4. QED
    BY <2>2, <2>3, ZenonT(40) DEF HistoryInv
<1>18. Good(v, request[w], forward[w], asked[w], reported[w] \cup {t})
  BY <1>14, <1>15, <1>17, SMTT(60), Z3T(60) DEF Good
<1>19. /\ request' = [request EXCEPT ![w] = request[w]]
       /\ forward' = [forward EXCEPT ![w] = forward[w]]
       /\ asked' = [asked EXCEPT ![w] = asked[w]]
  BY <1>1, <1>4, Parts, Same, SMTT(60) DEF WatcherTypes
<1>20. reported[w] \cup {t} \in SUBSET Commits
  BY <1>5, <1>7, SMTT(60)
<1>21. reported' = [reported EXCEPT ![w] = reported[w] \cup {t}]
  BY <1>1
<1>22. WatcherTypes' /\ AllGood'
  BY <1>3, <1>4, <1>5, <1>9, <1>18, <1>19, <1>20, <1>21, StepOfOne, ZenonT(40)
<1>23. watcher'[w] = v /\ \A u \in Watchers \ {w} : watcher'[u] = watcher[u]
  BY <1>3, <1>4, Parts, SMTT(60) DEF WatcherTypes
<1>24. /\ \A u \in Watchers : watcher[u].registered => watcher'[u].registered
       /\ \A u \in Watchers : watcher'[u].pc = watcher[u].pc
  BY <1>10, <1>23, SMTT(60)
<1>25. \A g \in Handlers \ {h} :
         call[g].pc \in {"new", "create"} => watcher'[call[g].id].pc = "none"
  BY <1>24, Calls DEF CallGood
<1>26. CallInv' /\ call' \in [Handlers -> CallRecord]
  BY <1>1, <1>24, <1>25, CallsReturn, ZenonT(60)
<1>27. LocksMatch' /\ locks' \in [Locks -> Handlers \cup Watchers \cup {Nobody}]
  BY <1>1, <1>24, DropLock, ZenonT(60) DEF Holding
<1>28. QED
  BY <1>1, <1>22, <1>26, <1>27, Parts, SMTT(60)

-----------------------------------------------------------------------------
(* The theorems.                                                           *)

LEMMA InitInv == Init => Inv
<1> SUFFICES ASSUME Init PROVE Inv
  OBVIOUS
<1>1. PICK c \in Commits :
        /\ watcher = [v \in Watchers |-> NoWatcher(c)]
        /\ request = [v \in Watchers |-> [commit |-> c, test |-> c]]
        /\ forward = [v \in Watchers |-> NoForward]
        /\ asked = [v \in Watchers |-> {}]
        /\ reported = [v \in Watchers |-> {}]
        /\ branch = [v \in Watchers |-> c]
        /\ call = [h \in Handlers |-> NoCall]
        /\ locks = [l \in Locks |-> Nobody]
  BY DEF Init
<1>2. /\ NoWatcher(c).pc = "none" /\ NoWatcher(c).registered = FALSE
      /\ NoWatcher(c).history = <<>>
  BY DEF NoWatcher
<1>3. <<>> \in Seq(TestInfo) /\ Len(<<>>) = 0
  BY SMTT(60)
<1>4. NoWatcher(c) \in WatcherRecord
  BY <1>3 DEF NoWatcher, WatcherRecord
<1>5. NoForward \in ForwardRecord /\ NoForward.pending = 0
  BY DEF NoForward, ForwardRecord
<1>6. Len(NoWatcher(c).history) = 0
  BY <1>2, <1>3, ZenonT(60)
<1>7. Len(NoWatcher(c).history) <= MaxTests + 1 /\ LengthInv(NoWatcher(c))
  BY <1>6, WatcherAssumption, SMTT(60) DEF LengthInv
<1>8. Good(NoWatcher(c), [commit |-> c, test |-> c], NoForward, {}, {})
  BY <1>2, <1>5, <1>7, SMTT(60) DEF Good, MapInv, RequestInv, HistoryInv
<1>9. AllGood
  BY <1>1, <1>8, SMTT(60) DEF AllGood
<1>10. TypeOK
  <2>1. /\ watcher \in [Watchers -> WatcherRecord] /\ forward \in [Watchers -> ForwardRecord]
        /\ \A w \in Watchers : Len(watcher[w].history) <= MaxTests + 1
    BY <1>1, <1>4, <1>5, <1>7, SMTT(60)
  <2>2. request \in [Watchers -> Request]
    BY <1>1, SMTT(60) DEF Request
  <2>3. /\ asked \in [Watchers -> SUBSET Request] /\ reported \in [Watchers -> SUBSET Commits]
        /\ branch \in [Watchers -> Commits] /\ call \in [Handlers -> CallRecord]
        /\ locks \in [Locks -> Handlers \cup Watchers \cup {Nobody}]
    BY <1>1, NoCallFacts
  <2>4. QED
    BY <2>1, <2>2, <2>3, SMTT(60) DEF TypeOK
<1>11. CallInv
  BY <1>1, NoCallFacts, ZenonT(60) DEF CallInv
<1>12. LocksMatch
  BY <1>1, <1>2, NoCallFacts, WatcherAssumption, SMTT(60) DEF LocksMatch, Locks
<1>13. QED
  BY <1>9, <1>10, <1>11, <1>12, SMTT(60) DEF Inv

LEMMA HandleInv == ASSUME Inv, NEW h \in Handlers, Handle(h) PROVE Inv'
<1>1. CASE MapRace(h)
  BY <1>1, CrashInv, SMTT(60) DEF MapRace
<1>2. CASE \E w \in Watchers : Info(h, w)
  BY <1>2, InfoInv, SMTT(60)
<1>3. QED
  BY SMTT(60), <1>1, <1>2, NewLockInv, NewGitWatcherInv, NewGitWatcherPanicsInv,
     FindWatcherInv,
     SendDoneInv, SendPanicsInv, StatusLockInv, StatusDoneInv, ReportLockInv, UpdateTestInv
  DEF Handle

LEMMA StutterInv == ASSUME Inv, UNCHANGED vars PROVE Inv'
<1>1. UNCHANGED <<watcher, request, forward, asked, reported, branch, call, locks>>
  BY DEF vars
<1>2. /\ WatcherTypes /\ AllGood /\ CallInv /\ LocksMatch
      /\ branch \in [Watchers -> Commits] /\ call \in [Handlers -> CallRecord]
      /\ locks \in [Locks -> Handlers \cup Watchers \cup {Nobody}]
  BY Parts, ZenonT(120)
<1>3. WatcherTypes'
  BY <1>1, <1>2, ZenonT(60) DEF WatcherTypes
<1>4. AllGood'
  BY <1>1, <1>2, ZenonT(60) DEF AllGood
<1>5. CallInv'
  BY <1>1, <1>2, SMTT(60) DEF CallInv
<1>6. LocksMatch'
  BY <1>1, <1>2, SMTT(60) DEF LocksMatch
<1>7. QED
  BY <1>1, <1>2, <1>3, <1>4, <1>5, <1>6, Parts, ZenonT(60)

\* Every step of a watcher, a ForwardKCS goroutine or a handler keeps Inv.
THEOREM Invariance == Spec => []Inv
<1>1. Inv /\ [Next]_vars => Inv'
  <2> SUFFICES ASSUME Inv, [Next]_vars PROVE Inv'
    OBVIOUS
  <2>1. ASSUME NEW w \in Watchers, Push(w) PROVE Inv'
    BY <2>1, PushInv
  <2>2. ASSUME NEW w \in Watchers, Watch(w) PROVE Inv'
    BY <2>2, SMTT(30), AppendTestInv, SetCommitInv, SetTestInv, UpdateInv, UpdateFailsInv,
       TidyUpInv,
       CleanInv DEF Watch
  <2>3. ASSUME NEW w \in Watchers, ForwardKCS(w) PROVE Inv'
    BY <2>3, ForwardInv, ForwardFailsInv, CrashInv, SMTT(60) DEF ForwardKCS, ForwardPanics
  <2>4. ASSUME NEW h \in Handlers, Receive(h) \/ Handle(h) PROVE Inv'
    BY <2>4, ReceiveInv, HandleInv
  <2>5. CASE UNCHANGED vars
    BY <2>5, StutterInv
  <2>6. QED
    BY <2>1, <2>2, <2>3, <2>4, <2>5 DEF Next
<1>2. QED
  BY <1>1, InitInv, PTL DEF Spec

\* The records keep their types, and a history never outgrows its bound.
THEOREM TypeCorrect == Spec => []TypeOK
<1>1. Inv => TypeOK
  BY SMTT(60) DEF Inv
<1>2. QED
  BY <1>1, Invariance, PTL

\* No lock is left behind, by return, by panic or by a crash: watcherLock is held
\* exactly by a request in the code it protects, historyLock by a tidyUp.
THEOREM NoLockLeft == Spec => []LocksMatch
<1>1. Inv => LocksMatch
  BY SMTT(60) DEF Inv
<1>2. QED
  BY <1>1, Invariance, PTL

\* watcherMap holds exactly the watchers that run, each with an open channel.
THEOREM MapIsRight == Spec => []RegisteredRuns
<1>1. Inv => RegisteredRuns
  BY ZenonT(40) DEF Inv, AllGood, Good, MapInv, RegisteredRuns
<1>2. QED
  BY <1>1, Invariance, PTL

\* Every result that UpdateWatcherTest took is in the history of its watcher.
THEOREM ResultsAreRecorded == Spec => []ResultsRecorded
<1>1. Inv => ResultsRecorded
  BY ZenonT(60) DEF Inv, AllGood, Good, HistoryInv, Entered, ResultsRecorded
<1>2. QED
  BY <1>1, Invariance, PTL

\* Although every ForwardKCS of a watcher sends the one request, KCS was asked
\* to test the newest commit once nothing is on its way and nothing failed.
THEOREM LatestTested == Spec => []LatestIsTested
<1>1. ASSUME Inv, NEW w \in Watchers, watcher[w].pc = "select", forward[w] = NoForward
      PROVE  [commit |-> watcher[w].head, test |-> watcher[w].head] \in asked[w]
  <2>1. /\ request[w] \in Request
        /\ Good(watcher[w], request[w], forward[w], asked[w], reported[w])
    BY <1>1, Fields, SMTT(60)
  <2>2. forward[w].pending = 0 /\ ~forward[w].failed
    BY <1>1, SMTT(60) DEF NoForward
  <2>3. /\ request[w].commit = watcher[w].head /\ request[w].test = watcher[w].head
        /\ request[w] \in asked[w]
    BY <1>1, <2>1, <2>2, SMTT(60) DEF Good, RequestInv
  <2>4. request[w] = [commit |-> watcher[w].head, test |-> watcher[w].head]
    BY <2>1, <2>3, SMTT(60) DEF Request
  <2>5. QED
    BY <2>3, <2>4, ZenonT(60)
<1>2. Inv => LatestIsTested
  BY <1>1 DEF LatestIsTested
<1>3. QED
  BY <1>2, Invariance, PTL
=============================================================================

-------------------------- MODULE KCSAccessProofs ---------------------------
(***************************************************************************)
(* Proofs about KCSAccess.tla, for any number of callers, VMs and          *)
(* attempts.  Inv is inductive.  What it adds to the properties: who is in *)
(* the script holds launchLock (LockInv), a server process needs a running *)
(* VM and a VM that is gone is not marked (VMInv), what the script's       *)
(* describe found stays true under the lock (CreateInv), and the address   *)
(* is known also to who holds the lock, until the script begins to change  *)
(* the file (Known), and sendRequest's loop, where alone KCS takes         *)
(* something, has attempts left (SendInv).                                 *)
(***************************************************************************)
EXTENDS KCSAccess, TLAPS

Script == {"describe", "touch", "trap", "create", "write", "address"}

LockInv == \A c \in Callers : call[c].pc \in Script <=> lock = c

VMInv == (kcs.pc # "off" => vm.status = "running") /\ (~Exists => ~vm.reason)

CreateInv ==
  \A c \in Callers :
    call[c].pc \in {"touch", "trap", "create"} /\ call[c].create /\ ~misled => ~Exists

Changing(c) == call[c].pc = "trap" \/ Trapped(c)

Known ==
  Exists /\ ~misled /\ ~untrapped /\ (\A c \in Callers : ~Changing(c))
    => file = vm.gen \/ (file = None /\ config = None)

SendInv ==
  \A c \in Callers : /\ call[c].pc = "send" => call[c].attempts > 0
                     /\ call[c].pc # "send" => call[c].taken = 0 /\ ~call[c].body

Inv ==
  /\ TypeOK /\ LockInv /\ VMInv /\ CreateInv /\ Known /\ SendInv
  /\ AtMostOnce /\ LateOnlyIfRaced

\* What a step that changes one call leaves of the others.
LEMMA OneCall ==
  ASSUME TypeOK, NEW c \in Callers, NEW r \in CallRecord, call' = [call EXCEPT ![c] = r]
  PROVE  /\ call' \in [Callers -> CallRecord] /\ call'[c] = r
         /\ \A d \in Callers : d # c => call'[d] = call[d]
BY DEF TypeOK

\* The fields of a call.
LEMMA CallFields ==
  ASSUME NEW r \in CallRecord
  PROVE  /\ r.pc \in CallPC /\ r.launch \in BOOLEAN /\ r.attempts \in 0..MaxAttempts
         /\ r.create \in BOOLEAN /\ r.ip \in 0..MaxVMs /\ r.body \in BOOLEAN
         /\ r.taken \in 0..2 /\ r.raced \in BOOLEAN
BY DEF CallRecord

LEMMA NoCallType == NoCall \in CallRecord
BY KCSAccessAssumption DEF NoCall, CallRecord, CallPC


LEMMA GotoCall ==
  ASSUME TypeOK, NEW c \in Callers, NEW label \in CallPC, Goto(c, label)
  PROVE  /\ call' \in [Callers -> CallRecord]
         /\ call'[c].pc = label /\ call'[c].raced = call[c].raced
         /\ ~call'[c].create /\ ~call'[c].body /\ call'[c].taken = 0
         /\ \A d \in Callers : d # c => call'[d] = call[d]
<1> DEFINE q == [NoCall EXCEPT !.pc = label]
           r == [q EXCEPT !.raced = call[c].raced]
<1>1. call[c].raced \in BOOLEAN
  BY CallFields DEF TypeOK
<1>2. q \in CallRecord /\ q.pc = label /\ ~q.create /\ ~q.body /\ q.taken = 0
  <2>1. q \in CallRecord
    BY NoCallType, Zenon DEF CallRecord
  <2>2. q.pc = label /\ ~q.create /\ ~q.body /\ q.taken = 0
    BY DEF NoCall
  <2> QED  BY <2>1, <2>2
<1>4. call' = [call EXCEPT ![c] = r]
  BY DEF Goto
<1> HIDE DEF q
<1>5. r \in CallRecord
  BY <1>1, <1>2, Zenon DEF CallRecord
<1>3. r.pc = label /\ r.raced = call[c].raced /\ ~r.create /\ ~r.body /\ r.taken = 0
  BY <1>2, <1>5 DEF CallRecord
<1> HIDE DEF r
<1> QED
  BY <1>3, <1>4, <1>5, OneCall

\* A step of the script that keeps the locals.
LEMMA SetPC ==
  ASSUME TypeOK, NEW c \in Callers, NEW label \in CallPC, call' = [call EXCEPT ![c].pc = label]
  PROVE  /\ call' \in [Callers -> CallRecord]
         /\ call'[c].pc = label /\ call'[c].raced = call[c].raced
         /\ call'[c].create = call[c].create
         /\ call'[c].body = call[c].body /\ call'[c].taken = call[c].taken
         /\ \A d \in Callers : d # c => call'[d] = call[d]
<1> DEFINE r == [call[c] EXCEPT !.pc = label]
<1>1. call[c] \in CallRecord /\ call' = [call EXCEPT ![c] = r]
  BY DEF TypeOK
<1>2. r \in CallRecord
  BY <1>1, Zenon DEF CallRecord
<1>3. /\ r.pc = label /\ r.raced = call[c].raced /\ r.create = call[c].create
      /\ r.body = call[c].body /\ r.taken = call[c].taken
  BY <1>1 DEF CallRecord
<1> HIDE DEF r
<1> QED
  BY <1>1, <1>2, <1>3, OneCall

LEMMA ReturnCall ==
  ASSUME TypeOK, NEW c \in Callers, Return(c)
  PROVE  /\ call' \in [Callers -> CallRecord]
         /\ call'[c].pc = "idle" /\ ~call'[c].body /\ call'[c].taken = 0
         /\ \A d \in Callers : d # c => call'[d] = call[d]
<1>1. call' = [call EXCEPT ![c] = NoCall]
  BY DEF Return
<1>2. NoCall.pc = "idle" /\ ~NoCall.body /\ NoCall.taken = 0
  BY DEF NoCall
<1> QED
  BY <1>1, <1>2, OneCall, NoCallType, Zenon

LEMMA InitInv == Init => Inv
<1> SUFFICES ASSUME Init PROVE Inv
  OBVIOUS
<1>0. vm \in VM /\ kcs \in KCSRecord
  <2>1. CASE vm = [gen |-> 0, status |-> "none", reason |-> FALSE]
             /\ kcs = [pc |-> "off", busy |-> FALSE]
    BY <2>1, KCSAccessAssumption DEF VM, KCSRecord
  <2>2. CASE MaxVMs > 0 /\ vm = [gen |-> 1, status |-> "running", reason |-> FALSE]
             /\ kcs = [pc |-> "up", busy |-> FALSE]
    BY <2>2, KCSAccessAssumption DEF VM, KCSRecord
  <2> QED  BY <2>1, <2>2 DEF Init
<1>1. TypeOK
  BY <1>0, NoCallType DEF Init, TypeOK
<1>2. \A c \in Callers : call[c].pc = "idle" /\ ~call[c].body /\ call[c].taken = 0
  BY DEF Init, NoCall
<1>3. LockInv /\ CreateInv /\ SendInv /\ AtMostOnce /\ LateOnlyIfRaced
  BY <1>2, KCSAccessAssumption
    DEF Init, LockInv, CreateInv, SendInv, AtMostOnce, LateOnlyIfRaced, Script
<1>4. VMInv /\ Known
  BY DEF Init, VMInv, Known, Exists
<1> QED
  BY <1>1, <1>3, <1>4 DEF Inv

LEMMA StutterInv == ASSUME Inv, UNCHANGED vars PROVE Inv'
BY DEF Inv, vars, TypeOK, LockInv, VMInv, CreateInv, Known, SendInv, AtMostOnce,
  LateOnlyIfRaced, Exists, Changing, Trapped

\* A step of one call that touches neither the file, the configuration and the
\* lock nor, but for its being busy, KCS.
LEMMA PrivateInv ==
  ASSUME Inv, NEW c \in Callers, UNCHANGED <<vm, file, config, lock, misled, untrapped>>,
         kcs' \in KCSRecord, kcs'.pc = kcs.pc,
         call' \in [Callers -> CallRecord],
         \A d \in Callers : d # c => call'[d] = call[d],
         call[c].pc \notin Script, call'[c].pc \notin Script,
         call'[c].pc = "send" => call'[c].attempts > 0,
         call'[c].pc # "send" => call'[c].taken = 0 /\ ~call'[c].body,
         call'[c].body => call'[c].taken = 0,
         vm.reason /\ call'[c].pc \notin {"idle", "info"} => call'[c].raced
  PROVE  Inv'
<1>1. TypeOK'
  BY DEF Inv, TypeOK
<1>2. LockInv'
  BY DEF Inv, LockInv
<1>3. VMInv'
  BY DEF Inv, VMInv, Exists
<1>4. CreateInv'
  BY DEF Inv, CreateInv, Exists, Script
<1>5. Known'
  <2>1. \A d \in Callers : Changing(d)' <=> Changing(d)
    BY DEF Changing, Trapped, Script
  <2> QED
    BY <2>1 DEF Inv, Known, Exists
<1>6. AtMostOnce'
  BY DEF Inv, AtMostOnce
<1>7. LateOnlyIfRaced'
  BY DEF Inv, LateOnlyIfRaced
<1>8. SendInv'
  BY DEF Inv, SendInv
<1> QED
  BY <1>1, <1>2, <1>3, <1>4, <1>5, <1>6, <1>7, <1>8 DEF Inv

\* accessKCS: who goes on found no VM, or one that is not marked.
LEMMA AccessInv == ASSUME Inv, NEW c \in Callers, AccessKCS(c) PROVE Inv'
<1>1. TypeOK /\ kcs \in KCSRecord /\ call[c] \in CallRecord /\ call[c].pc = "info"
      /\ UNCHANGED <<vm, kcs, file, config, lock, misled, untrapped>>
  BY DEF Inv, TypeOK, AccessKCS, InfoNotFound, InfoActive, InfoInactive, InfoPanics
<1>2. CASE Return(c)
  BY <1>1, <1>2, ReturnCall, PrivateInv DEF Script
<1>3. CASE Goto(c, "lock") /\ ~vm.reason
  <2>1. "lock" \in CallPC
    BY DEF CallPC
  <2> QED
    BY <1>1, <1>3, <2>1, GotoCall, PrivateInv DEF Script
<1>4. CASE Goto(c, "update") /\ ~vm.reason
  <2>1. "update" \in CallPC
    BY DEF CallPC
  <2> QED
    BY <1>1, <1>4, <2>1, GotoCall, PrivateInv DEF Script
<1>5. CASE call[c].attempts > 1 /\ call' = [call EXCEPT ![c].attempts = @ - 1]
  <2> DEFINE r == [call[c] EXCEPT !.attempts = @ - 1]
  <2>1. call[c].attempts - 1 \in 0..MaxAttempts
    BY <1>1, <1>5, CallFields, KCSAccessAssumption
  <2>2. r \in CallRecord
    BY <1>1, <2>1, Zenon DEF CallRecord
  <2>3. r.pc = call[c].pc /\ r.body = call[c].body /\ r.taken = call[c].taken
    BY <1>1 DEF CallRecord
  <2>4. call' = [call EXCEPT ![c] = r]
    BY <1>1, <1>5
  <2> HIDE DEF r
  <2>5. call[c].taken = 0 /\ ~call[c].body
    BY <1>1 DEF Inv, SendInv
  <2> QED
    BY <1>1, <2>2, <2>3, <2>4, <2>5, OneCall, PrivateInv DEF Script
<1>6. ~Exists => ~vm.reason
  BY DEF Inv, VMInv
<1> QED
  BY <1>1, <1>2, <1>3, <1>4, <1>5, <1>6
    DEF AccessKCS, InfoNotFound, InfoActive, Active, InfoInactive, InfoPanics

LEMMA CallInv == ASSUME Inv, NEW c \in Callers, NEW launch \in BOOLEAN, Call(c, launch) PROVE Inv'
<1> DEFINE p == [NoCall EXCEPT !.pc = "info"]
           q == [p EXCEPT !.launch = launch]
           r == [q EXCEPT !.attempts = MaxAttempts]
<1>1. TypeOK /\ kcs \in KCSRecord /\ call[c].pc = "idle"
      /\ UNCHANGED <<vm, kcs, file, config, lock, misled, untrapped>>
  BY DEF Inv, TypeOK, Call
<1>2. call' = [call EXCEPT ![c] = r]
  BY DEF Call
<1>3. p \in CallRecord
  BY NoCallType, Zenon DEF CallRecord, CallPC
<1>4. p.pc = "info" /\ ~p.body /\ p.taken = 0
  BY DEF NoCall
<1> HIDE DEF p
<1>5. q \in CallRecord
  BY <1>3, Zenon DEF CallRecord
<1>6. q.pc = "info" /\ ~q.body /\ q.taken = 0
  BY <1>3, <1>4 DEF CallRecord
<1> HIDE DEF q
<1>7. MaxAttempts \in 0..MaxAttempts
  BY KCSAccessAssumption
<1>8. r \in CallRecord
  BY <1>5, <1>7, Zenon DEF CallRecord
<1>9. r.pc = "info" /\ ~r.body /\ r.taken = 0
  BY <1>5, <1>6 DEF CallRecord
<1> HIDE DEF r
<1> QED
  BY <1>1, <1>2, <1>8, <1>9, OneCall, PrivateInv DEF Script

\* One attempt fails, or the last one: what it leaves can be sent only when KCS
\* has not taken it.
LEMMA AttemptInv ==
  ASSUME Inv, NEW c \in Callers, NEW taken \in 0..2, NEW body \in BOOLEAN,
         AttemptFails(c, taken, body), body => taken = 0, call[c].pc = "send",
         UNCHANGED <<vm, file, config, lock, misled, untrapped>>, kcs' \in KCSRecord, kcs'.pc = kcs.pc
  PROVE  Inv'
<1>1. TypeOK /\ call[c] \in CallRecord
  BY DEF Inv, TypeOK
<1>2. CASE call[c].attempts = 1
  BY <1>1, <1>2, ReturnCall, PrivateInv DEF AttemptFails, Script
<1>3. CASE call[c].attempts # 1
  <2>1. call' = [call EXCEPT ![c].attempts = @ - 1, ![c].taken = taken, ![c].body = body]
    BY <1>3 DEF AttemptFails
  <2> DEFINE p == [call[c] EXCEPT !.attempts = @ - 1]
             q == [p EXCEPT !.taken = taken]
             r == [q EXCEPT !.body = body]
  <2>2. call' = [call EXCEPT ![c] = r]
    BY <1>1, <2>1 DEF TypeOK
  <2>3. call[c].attempts - 1 \in 0..MaxAttempts /\ call[c].attempts - 1 > 0
    BY <1>1, <1>3, CallFields, KCSAccessAssumption DEF Inv, SendInv
  <2>4. p \in CallRecord
    BY <1>1, <2>3, Zenon DEF CallRecord
  <2>5. p.pc = "send" /\ p.raced = call[c].raced /\ p.attempts = call[c].attempts - 1
    BY <1>1 DEF CallRecord
  <2> HIDE DEF p
  <2>6. q \in CallRecord
    BY <2>4, Zenon DEF CallRecord
  <2>7. q.pc = "send" /\ q.raced = call[c].raced /\ q.taken = taken
        /\ q.attempts = call[c].attempts - 1
    BY <2>4, <2>5 DEF CallRecord
  <2> HIDE DEF q
  <2>8. r \in CallRecord
    BY <2>6, Zenon DEF CallRecord
  <2>9. r.pc = "send" /\ r.raced = call[c].raced /\ r.taken = taken /\ r.body = body
        /\ r.attempts = call[c].attempts - 1
    BY <2>6, <2>7 DEF CallRecord
  <2> HIDE DEF r
  <2>10. vm.reason => call[c].raced
    BY DEF Inv, LateOnlyIfRaced
  <2>11. /\ call' \in [Callers -> CallRecord] /\ call'[c] = r
         /\ \A d \in Callers : d # c => call'[d] = call[d]
    BY <1>1, <2>2, <2>8, OneCall
  <2>12. "send" \notin Script
    BY DEF Script
  <2> QED
    BY <1>1, <2>3, <2>9, <2>10, <2>11, <2>12, PrivateInv
<1> QED
  BY <1>2, <1>3


LEMMA SendRequestInv == ASSUME Inv, NEW c \in Callers, SendRequest(c) PROVE Inv'
<1>1. TypeOK /\ kcs \in KCSRecord /\ call[c] \in CallRecord
  BY DEF Inv, TypeOK
<1>2. CASE Update(c)
  <2>1. /\ call[c].pc = "update" /\ Goto(c, "ip")
        /\ config' = IF file = None THEN config ELSE file
        /\ UNCHANGED <<vm, kcs, file, lock, misled, untrapped>>
    BY <1>2 DEF Update
  <2>2. /\ call' \in [Callers -> CallRecord]
        /\ call'[c].pc = "ip" /\ call'[c].raced = call[c].raced
        /\ ~call'[c].body /\ call'[c].taken = 0
        /\ \A d \in Callers : d # c => call'[d] = call[d]
    <3>1. "ip" \in CallPC
      BY DEF CallPC
    <3> QED
      BY <1>1, <2>1, <3>1, GotoCall
  <2>3. TypeOK'
    BY <1>1, <2>1, <2>2 DEF TypeOK
  <2>4. LockInv' /\ VMInv' /\ CreateInv' /\ SendInv'
    BY <2>1, <2>2 DEF Inv, LockInv, VMInv, CreateInv, SendInv, Exists, Script
  <2>5. Known'
    <3>1. \A d \in Callers : Changing(d)' <=> Changing(d)
      BY <2>1, <2>2 DEF Changing, Trapped
    <3> QED
      BY <2>1, <3>1 DEF Inv, Known, Exists
  <2>6. AtMostOnce' /\ LateOnlyIfRaced'
    BY <2>1, <2>2 DEF Inv, AtMostOnce, LateOnlyIfRaced
  <2> QED
    BY <2>3, <2>4, <2>5, <2>6 DEF Inv
<1>3. CASE GetIP(c)
  <2>1. CASE config \in {None, 0}
    BY <1>1, <1>3, <2>1, ReturnCall, PrivateInv DEF GetIP, Script
  <2>2. CASE config \notin {None, 0}
    <3>1. /\ call[c].pc = "ip" /\ UNCHANGED <<vm, kcs, file, config, lock, misled, untrapped>>
          /\ call' = [call EXCEPT ![c].pc = "send", ![c].ip = config,
                        ![c].body = TRUE, ![c].attempts = MaxAttempts]
      BY <1>3, <2>2 DEF GetIP
    <3> DEFINE o == [call[c] EXCEPT !.pc = "send"]
               p == [o EXCEPT !.ip = config]
               q == [p EXCEPT !.body = TRUE]
               r == [q EXCEPT !.attempts = MaxAttempts]
    <3>2. call' = [call EXCEPT ![c] = r]
      BY <1>1, <3>1 DEF TypeOK
    <3>3. config \in 0..MaxVMs
      BY <1>1, <2>2 DEF TypeOK
    <3>4. o \in CallRecord
      BY <1>1, Zenon DEF CallRecord, CallPC
    <3>5. o.pc = "send" /\ o.raced = call[c].raced /\ o.taken = call[c].taken
      BY <1>1 DEF CallRecord
    <3> HIDE DEF o
    <3>6. p \in CallRecord
      BY <3>3, <3>4, Zenon DEF CallRecord
    <3>7. p.pc = "send" /\ p.raced = call[c].raced /\ p.taken = call[c].taken
      BY <3>4, <3>5 DEF CallRecord
    <3> HIDE DEF p
    <3>8. q \in CallRecord
      BY <3>6, Zenon DEF CallRecord
    <3>9. q.pc = "send" /\ q.raced = call[c].raced /\ q.taken = call[c].taken
      BY <3>6, <3>7 DEF CallRecord
    <3> HIDE DEF q
    <3>10. MaxAttempts \in 0..MaxAttempts /\ MaxAttempts > 0
      BY KCSAccessAssumption
    <3>11. r \in CallRecord
      BY <3>8, <3>10, Zenon DEF CallRecord
    <3>12. /\ r.pc = "send" /\ r.raced = call[c].raced /\ r.taken = call[c].taken
           /\ r.attempts = MaxAttempts
      BY <3>8, <3>9 DEF CallRecord
    <3> HIDE DEF r
    <3>13. vm.reason => call[c].raced
      BY <3>1 DEF Inv, LateOnlyIfRaced
    <3>14. call[c].taken = 0
      BY <3>1 DEF Inv, SendInv
    <3>15. /\ call' \in [Callers -> CallRecord] /\ call'[c] = r
           /\ \A d \in Callers : d # c => call'[d] = call[d]
      BY <1>1, <3>2, <3>11, OneCall
    <3>16. "ip" \notin Script /\ "send" \notin Script
      BY DEF Script
    <3> QED
      BY <1>1, <3>1, <3>10, <3>12, <3>13, <3>14, <3>15, <3>16, PrivateInv
  <2> QED
    BY <2>1, <2>2
<1>4. ASSUME Taken(c)
      PROVE  /\ call[c].pc = "send" /\ call[c].taken = 0 /\ call[c].body
             /\ kcs' \in KCSRecord /\ kcs'.pc = kcs.pc
  <2>1. PICK busy \in {kcs.busy, TRUE} : kcs' = [kcs EXCEPT !.busy = busy]
    BY <1>4 DEF Taken
  <2>2. busy \in BOOLEAN
    BY <1>1, <2>1 DEF KCSRecord
  <2>3. kcs' \in KCSRecord
    BY <1>1, <2>1, <2>2, Zenon DEF KCSRecord
  <2>4. kcs'.pc = kcs.pc
    BY <1>1, <2>1 DEF KCSRecord
  <2> QED
    BY <1>4, <2>3, <2>4 DEF Taken, Inv, AtMostOnce
<1>5. CASE Answered(c)
  BY <1>1, <1>4, <1>5, ReturnCall, PrivateInv DEF Answered, Script
<1>6. CASE AnswerLost(c)
  <2>1. /\ Taken(c) /\ AttemptFails(c, call[c].taken + 1, FALSE)
        /\ UNCHANGED <<vm, file, config, lock, misled, untrapped>>
    BY <1>6 DEF AnswerLost
  <2>2. call[c].taken + 1 \in 0..2
    BY <1>4, <2>1
  <2> QED
    BY <1>4, <2>1, <2>2, AttemptInv
<1>7. CASE SendFails(c)
  <2>1. PICK body \in {call[c].body, FALSE} : AttemptFails(c, call[c].taken, body)
    BY <1>7 DEF SendFails
  <2>2. body \in BOOLEAN /\ call[c].taken \in 0..2
    BY <1>1, <2>1, CallFields
  <2>3. body => call[c].taken = 0
    BY <2>1 DEF Inv, AtMostOnce
  <2> QED
    BY <1>1, <1>7, <2>1, <2>2, <2>3, AttemptInv DEF SendFails
<1>8. CASE Refused(c)
  BY <1>1, <1>8, ReturnCall, PrivateInv DEF Refused, Script
<1> QED
  BY <1>2, <1>3, <1>5, <1>6, <1>7, <1>8 DEF SendRequest

\* runLaunchKCS takes the lock.
LEMMA LaunchLockInv == ASSUME Inv, NEW c \in Callers, LaunchLock(c) PROVE Inv'
<1>1. /\ TypeOK /\ call[c].pc = "lock" /\ lock = None /\ lock' = c /\ Goto(c, "describe")
      /\ UNCHANGED <<vm, kcs, file, config, misled, untrapped>>
  BY DEF Inv, LaunchLock
<1>2. /\ call' \in [Callers -> CallRecord]
      /\ call'[c].pc = "describe" /\ call'[c].raced = call[c].raced
      /\ ~call'[c].body /\ call'[c].taken = 0
      /\ \A d \in Callers : d # c => call'[d] = call[d]
  <2>1. "describe" \in CallPC
    BY DEF CallPC
  <2> QED
    BY <1>1, <2>1, GotoCall
<1>3. TypeOK'
  BY <1>1, <1>2 DEF TypeOK
<1>4. LockInv'
  BY <1>1, <1>2, KCSAccessAssumption DEF Inv, LockInv, Script
<1>5. VMInv' /\ CreateInv' /\ SendInv'
  BY <1>1, <1>2 DEF Inv, VMInv, CreateInv, SendInv, Exists
<1>6. Known'
  <2>1. \A d \in Callers : Changing(d)' <=> Changing(d)
    BY <1>1, <1>2 DEF Changing, Trapped
  <2> QED
    BY <1>1, <2>1 DEF Inv, Known, Exists
<1>7. AtMostOnce' /\ LateOnlyIfRaced'
  BY <1>1, <1>2 DEF Inv, AtMostOnce, LateOnlyIfRaced
<1> QED
  BY <1>3, <1>4, <1>5, <1>6, <1>7 DEF Inv

\* What the holder of launchLock does next to its call; the others are not in
\* the script.
LEMMA HolderInv ==
  ASSUME Inv, NEW c \in Callers, call[c].pc \in Script, kcs' = kcs, config' = config,
         vm' \in VM, vm'.reason => vm.reason, VMInv',
         file' \in 0..MaxVMs \cup {None}, misled' \in BOOLEAN, misled => misled',
         untrapped' \in BOOLEAN,
         lock' = IF call'[c].pc \in Script THEN lock ELSE None,
         call' \in [Callers -> CallRecord],
         \A d \in Callers : d # c => call'[d] = call[d],
         ~call'[c].body, call'[c].taken = 0, call'[c].pc # "send",
         call'[c].pc \notin {"idle", "info"} => call'[c].raced = call[c].raced,
         call'[c].pc \in {"touch", "trap", "create"} /\ call'[c].create /\ ~misled' => ~Exists',
         ~Changing(c)' => 
           (Exists' /\ ~misled' /\ ~untrapped' => file' = vm'.gen \/ (file' = None /\ config = None))
  PROVE  Inv'
<1>1. lock = c /\ \A d \in Callers : d # c => call[d].pc \notin Script
  BY DEF Inv, LockInv
<1>2. TypeOK'
  BY <1>1 DEF Inv, TypeOK
<1>3. LockInv'
  BY <1>1, KCSAccessAssumption DEF Inv, LockInv
<1>4. CreateInv'
  <2>1. \A d \in Callers : d # c => call'[d].pc \notin {"touch", "trap", "create"}
    BY <1>1 DEF Script
  <2> QED
    BY <2>1 DEF CreateInv
<1>5. Known'
  BY DEF Known
<1>6. SendInv' /\ AtMostOnce'
  BY DEF Inv, SendInv, AtMostOnce
<1>7. LateOnlyIfRaced'
  <2>1. vm.reason => call[c].raced
    BY DEF Inv, LateOnlyIfRaced, Script
  <2> QED
    BY <2>1 DEF Inv, LateOnlyIfRaced
<1> QED
  BY <1>2, <1>3, <1>4, <1>5, <1>6, <1>7 DEF Inv

\* Under the lock, and before the script changes the file.
LEMMA Quiet ==
  ASSUME Inv, NEW c \in Callers, call[c].pc \in {"describe", "touch"}
  PROVE  Exists /\ ~misled /\ ~untrapped => file = vm.gen \/ (file = None /\ config = None)
<1>1. \A d \in Callers : ~Changing(d)
  BY DEF Inv, LockInv, Script, Changing, Trapped
<1> QED
  BY <1>1 DEF Inv, Known

LEMMA LaunchKCSInv == ASSUME Inv, NEW c \in Callers, LaunchKCS(c) PROVE Inv'
<1>1. TypeOK /\ vm \in VM /\ file \in 0..MaxVMs \cup {None} /\ misled \in BOOLEAN
      /\ untrapped \in BOOLEAN /\ call[c] \in CallRecord /\ VMInv
  BY DEF Inv, TypeOK
<1>2. call[c].pc \in Script
  BY DEF LaunchKCS, Describe, PrecheckFails, Touch, Trap, Create, CreateFails, Write,
     WriteAddress, Script
<1>3. lock = c
  BY <1>2 DEF Inv, LockInv
<1>4. \A l \in {"touch", "trap", "create", "write", "address"} : l \in CallPC /\ l \in Script
  BY DEF CallPC, Script
<1>5. \A l \in {"update", "idle"} :
        l \in CallPC /\ l \notin Script /\ l \notin {"trap", "create", "write", "address"}
  BY DEF CallPC, Script
<1>6. call[c].taken = 0 /\ ~call[c].body
  BY <1>2 DEF Inv, SendInv, Script
<1>10. CASE Describe(c)
  <2>1. PICK found \in {Exists, FALSE} :
          /\ misled' = (misled \/ found # Exists)
          /\ IF found /\ file # None
             THEN Goto(c, "update") /\ lock' = None
             ELSE /\ call' = [call EXCEPT ![c].pc = "touch", ![c].create = ~found]
                  /\ UNCHANGED lock
    BY <1>10 DEF Describe
  <2>2. call[c].pc = "describe" /\ UNCHANGED <<vm, kcs, file, config, untrapped>>
    BY <1>10 DEF Describe
  <2>3. Exists \in BOOLEAN /\ Exists' = Exists
    BY <2>2 DEF Exists
  <2>4. misled' \in BOOLEAN /\ (misled => misled') /\ (~misled' => ~misled /\ found = Exists)
    BY <1>1, <2>1, <2>3
  <2>5. VMInv'
    BY <1>1, <2>2, <2>3 DEF VMInv
  <2>6. Exists /\ ~misled /\ ~untrapped => file = vm.gen \/ (file = None /\ config = None)
    BY <2>2, Quiet
  <2>7. CASE found /\ file # None
    <3>1. Goto(c, "update") /\ lock' = None
      BY <2>1, <2>7
    <3>2. /\ call' \in [Callers -> CallRecord]
          /\ call'[c].pc = "update" /\ call'[c].raced = call[c].raced
          /\ ~call'[c].body /\ call'[c].taken = 0
          /\ \A d \in Callers : d # c => call'[d] = call[d]
      BY <1>1, <1>5, <3>1, GotoCall
    <3> QED
      BY <1>1, <1>2, <1>3, <1>5, <2>2, <2>3, <2>4, <2>5, <2>6, <3>1, <3>2, HolderInv
  <2>8. CASE ~(found /\ file # None)
    <3>1. call' = [call EXCEPT ![c].pc = "touch", ![c].create = ~found] /\ lock' = lock
      BY <2>1, <2>8
    <3> DEFINE q == [call[c] EXCEPT !.pc = "touch"]
               r == [q EXCEPT !.create = ~found]
    <3>2. call' = [call EXCEPT ![c] = r]
      BY <1>1, <3>1 DEF TypeOK
    <3>3. q \in CallRecord
      BY <1>1, <1>4, Zenon DEF CallRecord
    <3>4. q.pc = "touch" /\ q.raced = call[c].raced /\ ~q.body /\ q.taken = 0
      BY <1>1, <1>6 DEF CallRecord
    <3> HIDE DEF q
    <3>5. (~found) \in BOOLEAN
      BY <2>1, <2>3
    <3>6. r \in CallRecord
      BY <3>3, <3>5, Zenon DEF CallRecord
    <3>7. r.pc = "touch" /\ r.raced = call[c].raced /\ ~r.body /\ r.taken = 0 /\ r.create = ~found
      BY <3>3, <3>4 DEF CallRecord
    <3> HIDE DEF r
    <3>8. /\ call' \in [Callers -> CallRecord] /\ call'[c] = r
          /\ \A d \in Callers : d # c => call'[d] = call[d]
      BY <1>1, <3>2, <3>6, OneCall
    <3>9. call'[c].create /\ ~misled' => ~Exists'
      BY <2>3, <2>4, <3>7, <3>8
    <3>10. Exists' /\ ~misled' /\ ~untrapped' => file' = vm'.gen \/ (file' = None /\ config = None)
      BY <2>2, <2>3, <2>4, <2>6
    <3>11. /\ ~call'[c].body /\ call'[c].taken = 0 /\ call'[c].pc = "touch"
           /\ call'[c].raced = call[c].raced /\ "touch" \in Script
      BY <1>4, <3>7, <3>8
    <3> QED
      BY <1>1, <1>2, <2>2, <2>4, <2>5, <3>1, <3>8, <3>9, <3>10, <3>11, HolderInv
  <2> QED
    BY <2>7, <2>8
<1>11. CASE PrecheckFails(c)
  <2>1. /\ call[c].pc \in {"describe", "touch"} /\ lock' = None /\ Return(c)
        /\ UNCHANGED <<vm, kcs, file, config, misled, untrapped>>
    BY <1>11 DEF PrecheckFails
  <2>2. /\ call' \in [Callers -> CallRecord]
        /\ call'[c].pc = "idle" /\ ~call'[c].body /\ call'[c].taken = 0
        /\ \A d \in Callers : d # c => call'[d] = call[d]
    BY <1>1, <2>1, ReturnCall
  <2>3. VMInv' /\ Exists' = Exists
    BY <1>1, <2>1 DEF VMInv, Exists
  <2>4. Exists /\ ~misled /\ ~untrapped => file = vm.gen \/ (file = None /\ config = None)
    BY <2>1, Quiet
  <2> QED
    BY <1>1, <1>2, <1>5, <2>1, <2>2, <2>3, <2>4, HolderInv
<1>12. CASE Touch(c)
  <2>1. /\ call[c].pc = "touch" /\ call' = [call EXCEPT ![c].pc = "trap"]
        /\ file' = (IF file = None THEN 0 ELSE file)
        /\ UNCHANGED <<vm, kcs, config, lock, misled, untrapped>>
    BY <1>12 DEF Touch
  <2> DEFINE r == [call[c] EXCEPT !.pc = "trap"]
  <2>2. call' = [call EXCEPT ![c] = r]
    BY <1>1, <2>1 DEF TypeOK
  <2>3. r \in CallRecord
    BY <1>1, <1>4, Zenon DEF CallRecord
  <2>4. /\ r.pc = "trap" /\ r.raced = call[c].raced /\ ~r.body /\ r.taken = 0
        /\ r.create = call[c].create
    BY <1>1, <1>6 DEF CallRecord
  <2> HIDE DEF r
  <2>5. /\ call' \in [Callers -> CallRecord] /\ call'[c] = r
        /\ \A d \in Callers : d # c => call'[d] = call[d]
    BY <1>1, <2>2, <2>3, OneCall
  <2>6. VMInv' /\ Exists' = Exists
    BY <1>1, <2>1 DEF VMInv, Exists
  <2>7. call[c].create /\ ~misled => ~Exists
    BY <2>1 DEF Inv, CreateInv
  <2>8. Changing(c)'
    BY <2>4, <2>5 DEF Changing, Trapped
  <2>9. file' \in 0..MaxVMs \cup {None}
    BY <1>1, <2>1, KCSAccessAssumption
  <2>10. /\ ~call'[c].body /\ call'[c].taken = 0 /\ call'[c].pc = "trap"
         /\ call'[c].raced = call[c].raced /\ "trap" \in Script
         /\ call'[c].create /\ ~misled' => ~Exists'
    BY <1>4, <2>1, <2>4, <2>5, <2>6, <2>7
  <2> QED
    BY <1>1, <1>2, <2>1, <2>5, <2>6, <2>8, <2>9, <2>10, HolderInv
<1>18. CASE Trap(c)
  <2>1. /\ call[c].pc = "trap" /\ call' = [call EXCEPT ![c].pc = "create"]
        /\ UNCHANGED <<vm, kcs, file, config, lock, misled, untrapped>>
    BY <1>18 DEF Trap
  <2> DEFINE r == [call[c] EXCEPT !.pc = "create"]
  <2>2. call' = [call EXCEPT ![c] = r]
    BY <1>1, <2>1 DEF TypeOK
  <2>3. r \in CallRecord
    BY <1>1, <1>4, Zenon DEF CallRecord
  <2>4. /\ r.pc = "create" /\ r.raced = call[c].raced /\ ~r.body /\ r.taken = 0
        /\ r.create = call[c].create
    BY <1>1, <1>6 DEF CallRecord
  <2> HIDE DEF r
  <2>5. /\ call' \in [Callers -> CallRecord] /\ call'[c] = r
        /\ \A d \in Callers : d # c => call'[d] = call[d]
    BY <1>1, <2>2, <2>3, OneCall
  <2>6. VMInv' /\ Exists' = Exists
    BY <1>1, <2>1 DEF VMInv, Exists
  <2>7. call[c].create /\ ~misled => ~Exists
    BY <2>1 DEF Inv, CreateInv
  <2>8. Changing(c)'
    BY <2>4, <2>5 DEF Changing, Trapped
  <2>9. file' \in 0..MaxVMs \cup {None}
    BY <1>1, <2>1, KCSAccessAssumption
  <2>10. /\ ~call'[c].body /\ call'[c].taken = 0 /\ call'[c].pc = "create"
         /\ call'[c].raced = call[c].raced /\ "create" \in Script
         /\ call'[c].create /\ ~misled' => ~Exists'
    BY <1>4, <2>1, <2>4, <2>5, <2>6, <2>7
  <2> QED
    BY <1>1, <1>2, <2>1, <2>5, <2>6, <2>8, <2>9, <2>10, HolderInv
<1>13. ASSUME ~Exists, vm.gen < MaxVMs, vm' = NewVM
       PROVE  vm' \in VM /\ ~vm'.reason /\ (kcs' = kcs => VMInv')
  <2>1. vm.gen + 1 \in 0..MaxVMs
    BY <1>1, <1>13, KCSAccessAssumption DEF VM
  <2>2. vm' \in VM /\ ~vm'.reason /\ vm'.status = "starting"
    BY <1>13, <2>1 DEF NewVM, VM
  <2>3. kcs.pc = "off"
    BY <1>1, <1>13 DEF VMInv, Exists
  <2> QED
    BY <2>2, <2>3 DEF VMInv, Exists
<1>14. CASE Create(c)
  <2>1. /\ call[c].pc = "create" /\ call' = [call EXCEPT ![c].pc = "write"]
        /\ UNCHANGED <<kcs, file, config, lock, misled, untrapped>>
    BY <1>14 DEF Create
  <2>2. vm' \in VM /\ (vm'.reason => vm.reason) /\ VMInv'
    BY <1>1, <1>13, <1>14, <2>1 DEF Create, VMInv, Exists
  <2>3. /\ call' \in [Callers -> CallRecord]
        /\ call'[c].pc = "write" /\ call'[c].raced = call[c].raced
        /\ ~call'[c].body /\ call'[c].taken = 0
        /\ \A d \in Callers : d # c => call'[d] = call[d]
    BY <1>1, <1>4, <1>6, <2>1, SetPC
  <2>4. Changing(c)'
    BY <2>3 DEF Changing, Trapped
  <2> QED
    BY <1>1, <1>2, <1>4, <2>1, <2>2, <2>3, <2>4, HolderInv
<1>15. CASE CreateFails(c)
  <2>1. /\ call[c].pc = "create" /\ call[c].create /\ Return(c)
        /\ file' = None /\ untrapped' = FALSE /\ lock' = None /\ UNCHANGED <<kcs, config>>
    BY <1>15 DEF CreateFails
  <2>2. /\ vm' \in VM /\ (vm'.reason => vm.reason) /\ VMInv'
        /\ misled' \in BOOLEAN /\ (misled => misled')
    <3>1. CASE UNCHANGED <<vm, misled>>
      BY <1>1, <2>1, <3>1 DEF VMInv, Exists
    <3>2. CASE ~Exists /\ vm.gen < MaxVMs /\ vm' = NewVM /\ misled' = TRUE
      BY <1>13, <2>1, <3>2
    <3> QED
      BY <1>15, <3>1, <3>2 DEF CreateFails
  <2>3. ~misled' => ~Exists'
    BY <1>15, <2>1 DEF CreateFails, Inv, CreateInv, Exists
  <2>4. /\ call' \in [Callers -> CallRecord]
        /\ call'[c].pc = "idle" /\ ~call'[c].body /\ call'[c].taken = 0
        /\ \A d \in Callers : d # c => call'[d] = call[d]
    BY <1>1, <2>1, ReturnCall
  <2> QED
    BY <1>1, <1>2, <1>5, <2>1, <2>2, <2>3, <2>4, HolderInv
<1>16. CASE Write(c)
  <2>1. /\ call[c].pc = "write" /\ call' = [call EXCEPT ![c].pc = "address"]
        /\ file' = 0 /\ untrapped' = FALSE /\ UNCHANGED <<vm, kcs, config, lock, misled>>
    BY <1>16 DEF Write
  <2>2. VMInv' /\ 0 \in 0..MaxVMs
    BY <1>1, <2>1, KCSAccessAssumption DEF VMInv, Exists
  <2>3. /\ call' \in [Callers -> CallRecord]
        /\ call'[c].pc = "address" /\ call'[c].raced = call[c].raced
        /\ ~call'[c].body /\ call'[c].taken = 0
        /\ \A d \in Callers : d # c => call'[d] = call[d]
    BY <1>1, <1>4, <1>6, <2>1, SetPC
  <2>4. Changing(c)'
    BY <2>3 DEF Changing, Trapped
  <2> QED
    BY <1>1, <1>2, <1>4, <2>1, <2>2, <2>3, <2>4, HolderInv
<1>17. CASE WriteAddress(c)
  <2>1. /\ call[c].pc = "address" /\ Goto(c, "update") /\ lock' = None
        /\ UNCHANGED <<vm, kcs, config, untrapped>>
    BY <1>17 DEF WriteAddress
  <2>2. PICK found \in {Exists, FALSE} :
          file' = (IF found THEN vm.gen ELSE 0) /\ misled' = (misled \/ found # Exists)
    BY <1>17 DEF WriteAddress
  <2>3. VMInv' /\ file' \in 0..MaxVMs
    BY <1>1, <2>1, <2>2, KCSAccessAssumption DEF VMInv, Exists, VM
  <2>4. misled' \in BOOLEAN /\ (misled => misled') /\ (Exists' /\ ~misled' => file' = vm'.gen)
    BY <1>1, <2>1, <2>2 DEF Exists
  <2>5. /\ call' \in [Callers -> CallRecord]
        /\ call'[c].pc = "update" /\ call'[c].raced = call[c].raced
        /\ ~call'[c].body /\ call'[c].taken = 0
        /\ \A d \in Callers : d # c => call'[d] = call[d]
    BY <1>1, <1>5, <2>1, GotoCall
  <2> QED
    BY <1>1, <1>2, <1>5, <2>1, <2>3, <2>4, <2>5, HolderInv
<1> QED
  BY <1>10, <1>11, <1>12, <1>14, <1>15, <1>16, <1>17, <1>18 DEF LaunchKCS

\* A step of KCS or its VM, which may mark the VM; the calls are as before but
\* for their history.
LEMMA ServerStep ==
  ASSUME Inv, UNCHANGED <<file, config, lock, misled, untrapped>>,
         vm' \in VM, kcs' \in KCSRecord, VMInv', vm'.gen = vm.gen, Exists' => Exists,
         call' \in [Callers -> CallRecord],
         \A c \in Callers :
           /\ call'[c].pc = call[c].pc /\ call'[c].create = call[c].create
           /\ call'[c].body = call[c].body /\ call'[c].taken = call[c].taken
           /\ call'[c].attempts = call[c].attempts,
         \A c \in Callers : vm'.reason /\ call[c].pc \notin {"idle", "info"} => call'[c].raced
  PROVE  Inv'
<1>1. TypeOK'
  BY DEF Inv, TypeOK
<1>2. LockInv' /\ CreateInv' /\ SendInv' /\ AtMostOnce' /\ LateOnlyIfRaced'
  BY DEF Inv, LockInv, CreateInv, SendInv, AtMostOnce, LateOnlyIfRaced
<1>3. Known'
  BY DEF Inv, Known, Changing, Trapped
<1> QED
  BY <1>1, <1>2, <1>3 DEF Inv

LEMMA ServerInv == ASSUME Inv, Server PROVE Inv'
<1>1. /\ vm \in VM /\ kcs \in KCSRecord /\ call \in [Callers -> CallRecord] /\ VMInv
      /\ UNCHANGED <<file, config, lock, misled, untrapped>>
  BY DEF Inv, TypeOK, Server, VMRuns, Boot, HourPasses, TimerFires, SetMetadata, CloseServer,
    DeleteInstance, ShutdownPanics, VMGone
<1>2. \A c \in Callers : vm.reason /\ call[c].pc \notin {"idle", "info"} => call[c].raced
  BY DEF Inv, LateOnlyIfRaced
<1>3. ASSUME UNCHANGED <<vm, call>>, kcs' \in KCSRecord, kcs.pc # "off"
      PROVE  Inv'
  <2>1. VMInv' /\ Exists' = Exists
    BY <1>1, <1>3 DEF VMInv, Exists
  <2> QED
    BY <1>1, <1>2, <1>3, <2>1, ServerStep
<1>4. CASE VMRuns
  <2>1. vm' = [vm EXCEPT !.status = "running"] /\ kcs' = [pc |-> "boot", busy |-> FALSE]
        /\ vm.status = "starting" /\ UNCHANGED call
    BY <1>4 DEF VMRuns
  <2>2. vm' \in VM /\ vm'.gen = vm.gen /\ vm'.reason = vm.reason /\ vm'.status = "running"
    BY <1>1, <2>1 DEF VM
  <2>3. kcs' \in KCSRecord
    BY <2>1 DEF KCSRecord
  <2>4. VMInv' /\ Exists /\ Exists'
    BY <2>1, <2>2 DEF VMInv, Exists
  <2> QED
    BY <1>1, <1>2, <2>1, <2>2, <2>3, <2>4, ServerStep
<1>5. CASE Boot \/ HourPasses \/ TimerFires \/ CloseServer \/ ShutdownPanics
  <2>1. UNCHANGED <<vm, call>> /\ kcs.pc # "off"
    BY <1>5 DEF Boot, HourPasses, TimerFires, CloseServer, ShutdownPanics
  <2>2. \/ \E l \in {"up", "mark", "delete"} : kcs' = [kcs EXCEPT !.pc = l]
        \/ kcs' = [kcs EXCEPT !.busy = FALSE]
        \/ kcs' = [pc |-> "boot", busy |-> FALSE]
    BY <1>5 DEF Boot, HourPasses, TimerFires, CloseServer, ShutdownPanics
  <2>3. kcs' \in KCSRecord
    <3>1. ASSUME NEW l \in {"up", "mark", "delete"}, kcs' = [kcs EXCEPT !.pc = l]
          PROVE  kcs' \in KCSRecord
      BY <1>1, <3>1, Zenon DEF KCSRecord
    <3>2. CASE kcs' = [kcs EXCEPT !.busy = FALSE]
      BY <1>1, <3>2, Zenon DEF KCSRecord
    <3>3. CASE kcs' = [pc |-> "boot", busy |-> FALSE]
      BY <3>3 DEF KCSRecord
    <3> QED
      BY <2>2, <3>1, <3>2, <3>3
  <2> QED
    BY <1>3, <2>1, <2>3
<1>6. CASE SetMetadata
  <2>1. kcs.pc = "mark" /\ kcs' = [kcs EXCEPT !.pc = "close"]
    BY <1>6 DEF SetMetadata
  <2>2. kcs' \in KCSRecord
    BY <1>1, <2>1 DEF KCSRecord
  <2>3. CASE UNCHANGED <<vm, call>>
    BY <1>3, <2>1, <2>2, <2>3
  <2>4. CASE /\ vm' = [vm EXCEPT !.reason = TRUE]
             /\ call' = [c \in Callers |->
                  [call[c] EXCEPT !.raced = @ \/ call[c].pc \notin {"idle", "info"}]]
    <3>1. vm' \in VM /\ vm'.gen = vm.gen /\ vm'.status = vm.status
      BY <1>1, <2>4 DEF VM
    <3>2. VMInv' /\ Exists' = Exists
      BY <1>1, <2>1, <3>1 DEF VMInv, Exists
    <3>3. ASSUME NEW c \in Callers
          PROVE  /\ call'[c] \in CallRecord
                 /\ call'[c].pc = call[c].pc /\ call'[c].create = call[c].create
                 /\ call'[c].body = call[c].body /\ call'[c].taken = call[c].taken
                 /\ call'[c].attempts = call[c].attempts
                 /\ call[c].pc \notin {"idle", "info"} => call'[c].raced
      <4> DEFINE b == call[c].raced \/ call[c].pc \notin {"idle", "info"}
      <4>1. call[c] \in CallRecord
        BY <1>1
      <4>2. call'[c] = [call[c] EXCEPT !.raced = b]
        BY <2>4
      <4>3. b \in BOOLEAN
        BY Zenon
      <4>4. call'[c] \in CallRecord
        BY <4>1, <4>2, <4>3, Zenon DEF CallRecord
      <4>5. call'[c].raced = b
        BY <4>1, <4>2 DEF CallRecord
      <4>6. /\ call'[c].pc = call[c].pc /\ call'[c].create = call[c].create
            /\ call'[c].body = call[c].body /\ call'[c].taken = call[c].taken
            /\ call'[c].attempts = call[c].attempts
        BY <4>1, <4>2 DEF CallRecord
      <4> QED
        BY <4>4, <4>5, <4>6
    <3>4. call' \in [Callers -> CallRecord]
      BY <2>4, <3>3
    <3> QED
      BY <1>1, <2>2, <3>1, <3>2, <3>3, <3>4, ServerStep
  <2> QED
    BY <1>6, <2>3, <2>4 DEF SetMetadata
<1>7. CASE DeleteInstance
  <2>1. /\ kcs.pc = "delete" /\ kcs' = [pc |-> "off", busy |-> FALSE] /\ UNCHANGED call
        /\ vm' = [vm EXCEPT !.status = "stopping"]
    BY <1>7 DEF DeleteInstance
  <2>2. vm' \in VM /\ vm'.gen = vm.gen /\ vm'.status = "stopping" /\ vm'.reason = vm.reason
    BY <1>1, <2>1 DEF VM
  <2>3. kcs' \in KCSRecord /\ kcs'.pc = "off"
    BY <2>1 DEF KCSRecord
  <2>4. VMInv' /\ Exists
    BY <1>1, <2>1, <2>2, <2>3 DEF VMInv, Exists
  <2> QED
    BY <1>1, <1>2, <2>1, <2>2, <2>3, <2>4, ServerStep
<1>8. CASE VMGone
  <2>1. /\ vm.status = "stopping" /\ vm' = [vm EXCEPT !.status = "none", !.reason = FALSE]
        /\ call' = [c \in Callers |-> [call[c] EXCEPT !.raced = FALSE]] /\ UNCHANGED kcs
    BY <1>8 DEF VMGone
  <2>2. vm' \in VM /\ vm'.gen = vm.gen /\ vm'.status = "none" /\ ~vm'.reason
    BY <1>1, <2>1 DEF VM
  <2>3. VMInv' /\ ~Exists'
    BY <1>1, <2>1, <2>2 DEF VMInv, Exists
  <2>4. ASSUME NEW c \in Callers
        PROVE  /\ call'[c] \in CallRecord
               /\ call'[c].pc = call[c].pc /\ call'[c].create = call[c].create
               /\ call'[c].body = call[c].body /\ call'[c].taken = call[c].taken
               /\ call'[c].attempts = call[c].attempts
    <3>1. call[c] \in CallRecord
      BY <1>1
    <3>2. call'[c] = [call[c] EXCEPT !.raced = FALSE]
      BY <2>1
    <3>3. call'[c] \in CallRecord
      BY <3>1, <3>2, Zenon DEF CallRecord
    <3> QED
      BY <3>1, <3>2, <3>3 DEF CallRecord
  <2>5. call' \in [Callers -> CallRecord]
    BY <2>1, <2>4
  <2> QED
    BY <1>1, <2>1, <2>2, <2>3, <2>4, <2>5, ServerStep
<1> QED
  BY <1>4, <1>5, <1>6, <1>7, <1>8 DEF Server

LEMMA RestartInv == ASSUME Inv, Restart PROVE Inv'
<1>1. /\ TypeOK /\ VMInv /\ Known /\ vm \in VM /\ file \in 0..MaxVMs \cup {None}
      /\ kcs' = kcs /\ misled' = misled /\ lock' = None /\ config' = file'
      /\ untrapped' = (file' # None /\ (untrapped \/ \E c \in Callers : call[c].pc = "trap"))
      /\ file' = (IF \E c \in Callers : Trapped(c) THEN None ELSE file)
      /\ call' = [c \in Callers |-> NoCall]
  BY DEF Inv, TypeOK, Restart
<1>2. \/ vm' = vm
      \/ /\ \E c \in Callers : Trapped(c)
         /\ ~Exists /\ vm.gen < MaxVMs /\ vm' = NewVM
  BY DEF Restart, Trapped
<1>3. vm' \in VM /\ VMInv'
  <2>1. CASE vm' = vm
    BY <1>1, <2>1 DEF VMInv, Exists
  <2>2. CASE ~Exists /\ vm.gen < MaxVMs /\ vm' = NewVM
    <3>1. vm.gen + 1 \in 0..MaxVMs
      BY <1>1, <2>2, KCSAccessAssumption DEF VM
    <3>2. vm' \in VM /\ ~vm'.reason /\ vm'.status = "starting"
      BY <2>2, <3>1 DEF NewVM, VM
    <3>3. kcs.pc = "off"
      BY <1>1, <2>2 DEF VMInv, Exists
    <3> QED
      BY <1>1, <3>2, <3>3 DEF VMInv, Exists
  <2> QED
    BY <1>2, <2>1, <2>2
<1>4. file' \in 0..MaxVMs \cup {None}
  BY <1>1
<1>5. TypeOK'
  <2>1. untrapped' \in BOOLEAN
    BY <1>1, Zenon
  <2> QED
    BY <1>1, <1>3, <1>4, <2>1, NoCallType DEF TypeOK
<1>6. \A c \in Callers : call'[c].pc = "idle" /\ ~call'[c].body /\ call'[c].taken = 0
  BY <1>1 DEF NoCall
<1>7. LockInv' /\ CreateInv' /\ SendInv' /\ AtMostOnce' /\ LateOnlyIfRaced'
  BY <1>1, <1>6, KCSAccessAssumption
    DEF LockInv, CreateInv, SendInv, AtMostOnce, LateOnlyIfRaced, Script
<1>8. Known'
  <2>1. CASE file' = None
    BY <1>1, <2>1 DEF Known
  <2>2. CASE file' # None
    BY <1>1, <1>2, <2>2 DEF Known, Exists, Changing
  <2> QED
    BY <2>1, <2>2
<1> QED
  BY <1>3, <1>5, <1>7, <1>8 DEF Inv

LEMMA NextInv == Inv /\ [Next]_vars => Inv'
<1> SUFFICES ASSUME Inv, [Next]_vars PROVE Inv'
  OBVIOUS
<1>1. CASE UNCHANGED vars
  BY <1>1, StutterInv
<1>2. ASSUME NEW c \in Callers, SendInternalRequest(c) PROVE Inv'
  BY <1>2, AccessInv, LaunchKCSInv, SendRequestInv DEF SendInternalRequest
<1>3. CASE Next
  BY <1>2, <1>3, CallInv, LaunchLockInv, ServerInv, RestartInv DEF Next
<1> QED
  BY <1>1, <1>3

LEMMA Always == Spec => []Inv
BY InitInv, NextInv, PTL DEF Spec

-----------------------------------------------------------------------------
\* The variables have their types: the loops of accessKCS and sendRequest never
\* use up more attempts than they have.
THEOREM TypeCorrect == Spec => []TypeOK
<1>1. Inv => TypeOK
  BY DEF Inv
<1> QED
  BY <1>1, Always, PTL

\* gce-launch-kcs asks for a VM only while there is none, unless gcloud told it
\* something that is not so.
THEOREM OneVM == Spec => []NoSecondVM
<1>1. Inv => NoSecondVM
  BY DEF Inv, CreateInv, NoSecondVM
<1> QED
  BY <1>1, Always, PTL

\* Whenever KCS exists and launchLock is free, the file or a new run of the
\* script gives the next request its address, unless gcloud misled the script or
\* LTM died between the script's touch and its trap.
THEOREM NextCallFindsKCS == Spec => []AddressKnown
<1>1. Inv => AddressKnown
  <2> SUFFICES ASSUME Inv, lock = None PROVE AddressKnown
    BY DEF AddressKnown
  <2>1. \A c \in Callers : ~Changing(c)
    BY KCSAccessAssumption DEF Inv, LockInv, Script, Changing, Trapped
  <2> QED
    BY <2>1 DEF Inv, Known, AddressKnown
<1> QED
  BY <1>1, Always, PTL

\* sendRequest never has something to send that KCS took already.
THEOREM TakenOnce == Spec => []AtMostOnce
<1>1. Inv => AtMostOnce
  BY DEF Inv
<1> QED
  BY <1>1, Always, PTL

\* Only who was past the check when KCS marked itself can reach a marked KCS.
THEOREM MarkedIsLeftAlone == Spec => []LateOnlyIfRaced
<1>1. Inv => LateOnlyIfRaced
  BY DEF Inv
<1> QED
  BY <1>1, Always, PTL
=============================================================================

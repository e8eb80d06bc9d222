----------------------------- MODULE KCSAccess ------------------------------
(***************************************************************************)
(* How LTM reaches the kernel compile server (KCS): accessKCS looks for    *)
(* its VM, runs the script gce-launch-kcs when there is none, reads the    *)
(* address that the script leaves in .kcs_instance, and sends the request. *)
(* The other side is the KCS VM, which marks itself with shutdown_reason   *)
(* and deletes itself when it has been idle for an hour.                   *)
(*                                                                         *)
(* KCS VMs are numbered in the order of their creation; a VM's number      *)
(* stands for its internal address.  The file and the configuration read   *)
(* from it are the address they hold, 0 when they exist without one.       *)
(***************************************************************************)
EXTENDS Naturals

CONSTANTS
  Callers,      \* bound: requests and status queries at one time
  MaxVMs,       \* bound: KCS VMs created
  MaxAttempts,  \* maxAttempts
  None          \* nobody, no file, gcp.KCSConfig = nil

ASSUME KCSAccessAssumption ==
  /\ MaxVMs \in Nat /\ MaxAttempts \in Nat \ {0}
  /\ None \notin Callers /\ None \notin Nat

VARIABLES
  vm,           \* the instance xfstests-kcs
  kcs,          \* the server process on it
  file,         \* .kcs_instance on LTM's disk
  config,       \* gcp.KCSConfig
  lock,         \* holder of launchLock
  call,         \* the calls of SendInternalRequest and InternalQuery
  misled,       \* history: gcloud told the script something that is not so
  untrapped     \* history: the file is from a script that died before its trap

vars == <<vm, kcs, file, config, lock, call, misled, untrapped>>

VM ==
  [gen : 0..MaxVMs,
   status : {"none", "starting", "running", "stopping"},
   reason : BOOLEAN]                    \* shutdown_reason is in its metadata

KCSRecord ==
  [pc : {"off", "boot", "up", "mark", "close", "delete"},
   busy : BOOLEAN]                      \* a build or bisection within the last hour

CallPC ==
  {"idle", "info", "lock", "describe", "touch", "trap", "create", "write", "address",
   "update", "ip", "send"}

CallRecord ==
  [pc : CallPC,
   launch : BOOLEAN,                    \* accessKCS's argument
   attempts : 0..MaxAttempts,
   create : BOOLEAN,                    \* the script's NO_ACTION is not set
   ip : 0..MaxVMs,
   body : BOOLEAN,                      \* the body of the http request is unread
   taken : 0..2,                        \* history: times KCS took the request
   raced : BOOLEAN]                     \* history: this KCS was marked after the check

NoCall ==
  [pc |-> "idle", launch |-> FALSE, attempts |-> 0, create |-> FALSE, ip |-> 0,
   body |-> FALSE, taken |-> 0, raced |-> FALSE]

\* LTM starts without a .kcs_instance; a KCS of an earlier LTM may be up.
Init ==
  /\ \/ vm = [gen |-> 0, status |-> "none", reason |-> FALSE]
        /\ kcs = [pc |-> "off", busy |-> FALSE]
     \/ MaxVMs > 0 /\ vm = [gen |-> 1, status |-> "running", reason |-> FALSE]
        /\ kcs = [pc |-> "up", busy |-> FALSE]
  /\ file = None /\ config = None /\ lock = None
  /\ call = [c \in Callers |-> NoCall]
  /\ misled = FALSE /\ untrapped = FALSE

Exists == vm.status # "none"

\* The locals of the step that ends go out of scope.
Goto(c, label) ==
  call' = [call EXCEPT ![c] = [NoCall EXCEPT
    !.pc = label, !.raced = call[c].raced]]

\* The call returns or panics; ForwardKCS and the handlers recover.
Return(c) == call' = [call EXCEPT ![c] = NoCall]

-----------------------------------------------------------------------------
(***************************************************************************)
(* accessKCS                                                               *)
(***************************************************************************)

Call(c, launch) ==
  /\ call[c].pc = "idle"
  /\ call' = [call EXCEPT ![c] = [NoCall EXCEPT
       !.pc = "info", !.launch = launch, !.attempts = MaxAttempts]]
  /\ UNCHANGED <<vm, kcs, file, config, lock, misled, untrapped>>

InfoNotFound(c) ==
  /\ call[c].pc = "info" /\ ~Exists
  /\ IF call[c].launch THEN Goto(c, "lock") ELSE Return(c)
  /\ UNCHANGED <<vm, kcs, file, config, lock, misled, untrapped>>

Active == vm.status = "running" /\ ~vm.reason

InfoActive(c) ==
  /\ call[c].pc = "info" /\ Active
  /\ Goto(c, IF config = None THEN "lock" ELSE "update")
  /\ UNCHANGED <<vm, kcs, file, config, lock, misled, untrapped>>

\* It is being created, or shutting down: try again later.
InfoInactive(c) ==
  /\ call[c].pc = "info" /\ Exists /\ ~Active
  /\ \/ call[c].launch /\ call[c].attempts > 1
        /\ call' = [call EXCEPT ![c].attempts = @ - 1]
     \/ (~call[c].launch \/ call[c].attempts = 1) /\ Return(c)
  /\ UNCHANGED <<vm, kcs, file, config, lock, misled, untrapped>>

InfoPanics(c) ==
  /\ call[c].pc = "info" /\ Return(c)
  /\ UNCHANGED <<vm, kcs, file, config, lock, misled, untrapped>>

-----------------------------------------------------------------------------
(***************************************************************************)
(* runLaunchKCS and the script gce-launch-kcs                              *)
(***************************************************************************)

LaunchLock(c) ==
  /\ call[c].pc = "lock" /\ lock = None
  /\ lock' = c /\ Goto(c, "describe")
  /\ UNCHANGED <<vm, kcs, file, config, misled, untrapped>>

\* Mutant: the script does not look for a VM.
DescribeNothing(c) ==
  /\ call[c].pc = "describe"
  /\ call' = [call EXCEPT ![c].pc = "touch", ![c].create = TRUE]
  /\ UNCHANGED <<vm, kcs, file, config, lock, misled, untrapped>>

\* gcloud's describe prints nothing when there is no VM, and when it fails.
\* "The KCS instance already exists!" is not an error for runLaunchKCS.
Describe(c) ==
  /\ call[c].pc = "describe"
  /\ \E found \in {Exists, FALSE} :
       /\ misled' = (misled \/ found # Exists)
       /\ IF found /\ file # None
          THEN Goto(c, "update") /\ lock' = None
          ELSE /\ call' = [call EXCEPT ![c].pc = "touch", ![c].create = ~found]
               /\ UNCHANGED lock
  /\ UNCHANGED <<vm, kcs, file, config, untrapped>>

\* A VM of another architecture; no password, certificate or configuration.
PrecheckFails(c) ==
  /\ call[c].pc = "touch" \/ (call[c].pc = "describe" /\ Exists)
  /\ lock' = None /\ Return(c)
  /\ UNCHANGED <<vm, kcs, file, config, misled, untrapped>>

\* touch leaves the content of an older file.
Touch(c) ==
  /\ call[c].pc = "touch"
  /\ file' = IF file = None THEN 0 ELSE file
  /\ call' = [call EXCEPT ![c].pc = "trap"]
  /\ UNCHANGED <<vm, kcs, config, lock, misled, untrapped>>

Trap(c) ==
  /\ call[c].pc = "trap"
  /\ call' = [call EXCEPT ![c].pc = "create"]
  /\ UNCHANGED <<vm, kcs, file, config, lock, misled, untrapped>>

NewVM == [gen |-> vm.gen + 1, status |-> "starting", reason |-> FALSE]

Create(c) ==
  /\ call[c].pc = "create"
  /\ \/ ~call[c].create /\ UNCHANGED vm
     \/ call[c].create /\ ~Exists /\ vm.gen < MaxVMs /\ vm' = NewVM
  /\ call' = [call EXCEPT ![c].pc = "write"]
  /\ UNCHANGED <<kcs, file, config, lock, misled, untrapped>>

\* Mutant: the panic of runLaunchKCS leaves the lock.
CreateFailsLocked(c) ==
  /\ call[c].pc = "create" /\ call[c].create
  /\ \/ UNCHANGED <<vm, misled>>
     \/ ~Exists /\ vm.gen < MaxVMs /\ vm' = NewVM /\ misled' = TRUE
  /\ file' = None /\ Return(c)
  /\ UNCHANGED <<kcs, config, lock, untrapped>>

\* The name is taken, or gcloud gives up, perhaps with the VM created; the
\* script's EXIT trap removes the file and runLaunchKCS panics.
CreateFails(c) ==
  /\ call[c].pc = "create" /\ call[c].create
  /\ \/ UNCHANGED <<vm, misled>>
     \/ ~Exists /\ vm.gen < MaxVMs /\ vm' = NewVM /\ misled' = TRUE
  /\ file' = None /\ untrapped' = FALSE /\ lock' = None /\ Return(c)
  /\ UNCHANGED <<kcs, config>>

Write(c) ==
  /\ call[c].pc = "write"
  /\ file' = 0 /\ untrapped' = FALSE
  /\ call' = [call EXCEPT ![c].pc = "address"]
  /\ UNCHANGED <<vm, kcs, config, lock, misled>>

\* wait_for_command goes on until describe finds the VM, but with NO_ACTION set
\* describe is not run and it ends at once.  Whether the describe that prints
\* the address succeeds is not looked at.
WriteAddress(c) ==
  /\ call[c].pc = "address" /\ (call[c].create => Exists)
  /\ \E found \in {Exists, FALSE} :
       /\ file' = IF found THEN vm.gen ELSE 0
       /\ misled' = (misled \/ found # Exists)
  /\ lock' = None /\ Goto(c, "update")
  /\ UNCHANGED <<vm, kcs, config, untrapped>>

-----------------------------------------------------------------------------
(***************************************************************************)
(* SendInternalRequest and InternalQuery, after accessKCS                  *)
(***************************************************************************)

\* gcp.Update reads the file while a script may be writing it.
Update(c) ==
  /\ call[c].pc = "update"
  /\ config' = IF file = None THEN config ELSE file
  /\ Goto(c, "ip")
  /\ UNCHANGED <<vm, kcs, file, lock, misled, untrapped>>

GetIP(c) ==
  /\ call[c].pc = "ip"
  /\ IF config \in {None, 0}
     THEN Return(c)
     ELSE call' = [call EXCEPT ![c].pc = "send", ![c].ip = config,
                     ![c].body = TRUE, ![c].attempts = MaxAttempts]
  /\ UNCHANGED <<vm, kcs, file, config, lock, misled, untrapped>>

\* The web server answers until shutdown closes it.
Serving == kcs.pc \in {"up", "mark", "close"} /\ vm.status = "running"

\* KCS takes what arrives whole; a build or a bisection keeps it busy, a query
\* does not.
Taken(c) ==
  /\ call[c].pc = "send" /\ call[c].ip = vm.gen /\ Serving /\ call[c].body
  /\ \E busy \in {kcs.busy, TRUE} : kcs' = [kcs EXCEPT !.busy = busy]

\* One attempt of sendRequest fails: nobody answers, or too late.
AttemptFails(c, taken, body) ==
  IF call[c].attempts = 1
  THEN Return(c)
  ELSE call' = [call EXCEPT ![c].attempts = @ - 1, ![c].taken = taken, ![c].body = body]

Answered(c) ==
  /\ Taken(c) /\ Return(c)
  /\ UNCHANGED <<vm, file, config, lock, misled, untrapped>>

\* Mutant: the body is sent again.
AnswerLostRewinds(c) ==
  /\ Taken(c)
  /\ AttemptFails(c, call[c].taken + 1, TRUE)
  /\ UNCHANGED <<vm, file, config, lock, misled, untrapped>>

\* The attempts use one request object: its body has been read, so the next
\* ones send a request that ends too early.
AnswerLost(c) ==
  /\ Taken(c)
  /\ AttemptFails(c, call[c].taken + 1, FALSE)
  /\ UNCHANGED <<vm, file, config, lock, misled, untrapped>>

\* No connection, or one that breaks while the body is sent.
SendFails(c) ==
  /\ call[c].pc = "send"
  /\ \E body \in {call[c].body, FALSE} : AttemptFails(c, call[c].taken, body)
  /\ UNCHANGED <<vm, kcs, file, config, lock, misled, untrapped>>

\* KCS answers that it does not take the request, or cannot be decoded.
Refused(c) ==
  /\ call[c].pc = "send" /\ call[c].ip = vm.gen /\ Serving /\ Return(c)
  /\ UNCHANGED <<vm, kcs, file, config, lock, misled, untrapped>>

-----------------------------------------------------------------------------
(***************************************************************************)
(* The KCS VM (external: GCE and systemd) and the tracker's shutdown       *)
(***************************************************************************)

VMRuns ==
  /\ vm.status = "starting"
  /\ vm' = [vm EXCEPT !.status = "running"]
  /\ kcs' = [pc |-> "boot", busy |-> FALSE]
  /\ UNCHANGED <<file, config, lock, call, misled, untrapped>>

Boot ==
  /\ kcs.pc = "boot" /\ kcs' = [kcs EXCEPT !.pc = "up"]
  /\ UNCHANGED <<vm, file, config, lock, call, misled, untrapped>>

\* An hour without a build or a bisection.
HourPasses ==
  /\ kcs.pc = "up" /\ kcs.busy /\ kcs' = [kcs EXCEPT !.busy = FALSE]
  /\ UNCHANGED <<vm, file, config, lock, call, misled, untrapped>>

TimerFires ==
  /\ kcs.pc = "up" /\ ~kcs.busy /\ kcs' = [kcs EXCEPT !.pc = "mark"]
  /\ UNCHANGED <<vm, file, config, lock, call, misled, untrapped>>

\* A failing SetMetadata is only logged.
SetMetadata ==
  /\ kcs.pc = "mark" /\ kcs' = [kcs EXCEPT !.pc = "close"]
  /\ \/ vm' = [vm EXCEPT !.reason = TRUE]
        /\ call' = [c \in Callers |->
             [call[c] EXCEPT !.raced = @ \/ call[c].pc \notin {"idle", "info"}]]
     \/ UNCHANGED <<vm, call>>
  /\ UNCHANGED <<file, config, lock, misled, untrapped>>

\* saveLog, and the end of the web server.
CloseServer ==
  /\ kcs.pc = "close" /\ kcs' = [kcs EXCEPT !.pc = "delete"]
  /\ UNCHANGED <<vm, file, config, lock, call, misled, untrapped>>

DeleteInstance ==
  /\ kcs.pc = "delete"
  /\ kcs' = [pc |-> "off", busy |-> FALSE]
  /\ vm' = [vm EXCEPT !.status = "stopping"]
  /\ UNCHANGED <<file, config, lock, call, misled, untrapped>>

\* Mutant: nobody starts the process again.
ShutdownPanicsForGood ==
  /\ kcs.pc \in {"mark", "delete"}
  /\ kcs' = [pc |-> "off", busy |-> FALSE]
  /\ UNCHANGED <<vm, file, config, lock, call, misled, untrapped>>

\* A call to GCE fails: the process dies and systemd starts it again.
ShutdownPanics ==
  /\ kcs.pc \in {"mark", "delete"}
  /\ kcs' = [pc |-> "boot", busy |-> FALSE]
  /\ UNCHANGED <<vm, file, config, lock, call, misled, untrapped>>

VMGone ==
  /\ vm.status = "stopping"
  /\ vm' = [vm EXCEPT !.status = "none", !.reason = FALSE]
  /\ call' = [c \in Callers |-> [call[c] EXCEPT !.raced = FALSE]]
  /\ UNCHANGED <<kcs, file, config, lock, misled, untrapped>>

-----------------------------------------------------------------------------
\* The script has set its EXIT trap and is not yet done.  Between touch and trap
\* the file is there already.
Trapped(c) == call[c].pc \in {"create", "write", "address"}

\* Mutant: the script has no trap.
RestartKeepsFile ==
  /\ \/ UNCHANGED vm
     \/ /\ \E c \in Callers : call[c].pc = "create" /\ call[c].create
        /\ ~Exists /\ vm.gen < MaxVMs /\ vm' = NewVM
  /\ file' = file
  /\ config' = file' /\ lock' = None
  /\ untrapped' = (file' # None /\ (untrapped \/ \E c \in Callers : call[c].pc = "trap"))
  /\ call' = [c \in Callers |-> NoCall]
  /\ UNCHANGED <<kcs, misled>>

\* The LTM process dies and systemd starts it again: the script gets a SIGTERM
\* and runs its trap, what it asked GCE for may still happen, and gcp's init
\* reads the file.
Restart ==
  /\ \/ UNCHANGED vm
     \/ /\ \E c \in Callers : call[c].pc = "create" /\ call[c].create
        /\ ~Exists /\ vm.gen < MaxVMs /\ vm' = NewVM
  /\ file' = IF \E c \in Callers : Trapped(c) THEN None ELSE file
  /\ config' = file' /\ lock' = None
  /\ untrapped' = (file' # None /\ (untrapped \/ \E c \in Callers : call[c].pc = "trap"))
  /\ call' = [c \in Callers |-> NoCall]
  /\ UNCHANGED <<kcs, misled>>

-----------------------------------------------------------------------------
AccessKCS(c) == InfoNotFound(c) \/ InfoActive(c) \/ InfoInactive(c) \/ InfoPanics(c)

LaunchKCS(c) ==
  \/ Describe(c) \/ PrecheckFails(c) \/ Touch(c) \/ Trap(c) \/ Create(c) \/ CreateFails(c)
  \/ Write(c) \/ WriteAddress(c)

SendRequest(c) ==
  Update(c) \/ GetIP(c) \/ Answered(c) \/ AnswerLost(c) \/ SendFails(c) \/ Refused(c)

SendInternalRequest(c) == AccessKCS(c) \/ LaunchKCS(c) \/ SendRequest(c)

Server ==
  \/ VMRuns \/ Boot \/ HourPasses \/ TimerFires \/ SetMetadata \/ CloseServer
  \/ DeleteInstance \/ ShutdownPanics \/ VMGone

Next ==
  \/ \E c \in Callers :
       (\E launch \in BOOLEAN : Call(c, launch)) \/ LaunchLock(c) \/ SendInternalRequest(c)
  \/ Server \/ Restart

Spec == Init /\ [][Next]_vars

\* Goroutines and scripts go on, launchLock is given in turn, VMs start and
\* stop, and a call to GCE that KCS makes again and again succeeds.
Fairness ==
  /\ \A c \in Callers : WF_vars(SendInternalRequest(c)) /\ SF_vars(LaunchLock(c))
  /\ WF_vars(Server) /\ SF_vars(SetMetadata) /\ SF_vars(DeleteInstance)

FairSpec == Spec /\ Fairness

-----------------------------------------------------------------------------
\* Every variable has its type.
TypeOK ==
  /\ vm \in VM /\ kcs \in KCSRecord
  /\ file \in 0..MaxVMs \cup {None} /\ config \in 0..MaxVMs \cup {None}
  /\ lock \in Callers \cup {None}
  /\ call \in [Callers -> CallRecord]
  /\ misled \in BOOLEAN /\ untrapped \in BOOLEAN

\* gce-launch-kcs asks GCE for a VM only while there is none, whatever other
\* requests found out in the meantime: launchLock and the describe under it
\* make up for the check of accessKCS that is out of date by then.
NoSecondVM ==
  \A c \in Callers : call[c].pc = "create" /\ call[c].create /\ ~misled => ~Exists

\* While KCS exists and no launch is in progress, the next request will get its
\* address: .kcs_instance holds it, or there is neither a file nor a
\* configuration and accessKCS runs the script, which makes one.  This survives
\* failing scripts and LTM's restarts, except a restart that kills the script
\* between its touch and its trap (gce-launch-kcs:141-143): the empty file it
\* leaves keeps LTM from the script for as long as this KCS exists.
AddressKnown ==
  lock = None /\ Exists /\ ~misled /\ ~untrapped => file = vm.gen \/ (file = None /\ config = None)

\* KCS takes a request at most once, however often sendRequest tries: when an
\* answer was lost there is nothing left that could be sent again.
AtMostOnce == \A c \in Callers : call[c].body => call[c].taken = 0

\* A request gets to a KCS that is shutting down only when it was past its check
\* of the metadata already as they were set.
LateOnlyIfRaced ==
  \A c \in Callers : vm.reason /\ call[c].pc \notin {"idle", "info"} => call[c].raced

\* The script waits for the VM it created and somebody deleted: it does so for
\* ever.
Hanging == \E c \in Callers : call[c].pc = "address" /\ call[c].create /\ ~Exists

\* Every call of SendInternalRequest or InternalQuery returns or panics, unless
\* a VM is deleted before the gce-launch-kcs that created it sees it.
EveryCallEnds ==
  \A c \in Callers : call[c].pc # "idle" ~> (call[c].pc = "idle" \/ Hanging)

\* A KCS that has marked itself gets deleted, also when its first attempts to do
\* so fail: LTM stays away from it, so its process finds itself idle again.
MarkedIsDeleted == vm.reason ~> ~Exists
=============================================================================

------------------------------ MODULE ShardRun ------------------------------
(***************************************************************************)
(* From the command line to the test loop of a VM: the user's own machine  *)
(* reads it (parse_cli) and boots the VM with what -c names, or LTM's      *)
(* parser reads it and boots the VM, a shard, with the configurations it   *)
(* found.  request carries the command line along: args, and ltm.          *)
(***************************************************************************)
EXTENDS RunTests, Parser

\* The words the user asks for, as parse_cli reads them.
Asked(args) ==
  IF FirstC(args) # 0 THEN args[FirstC(args) + 1].words
  ELSE IF \E i \in DOMAIN args : args[i].kind = "smoke" THEN << <<"4k">> >>
  ELSE << <<"all">> >>

\* A command line that parse_cli accepts: -c with its argument, or smoke, once
\* at most, and an argument for every option that needs one, which is of the
\* kind other whatever it says.  The argument of -c is a word of its own and
\* not the empty string; an argument of kind other that is handed on is not
\* spelled like an option.
Accepted(args) ==
  LET kind(i) == IF i \in DOMAIN args THEN args[i].kind ELSE ""
  IN  /\ args \in Seq(Arguments)
      /\ \A i \in DOMAIN args : kind(i) = "words" <=> args[i].words # <<>>
      /\ \A i \in 0..Len(args) : kind(i) = "-c" <=> kind(i + 1) = "words"
      /\ \A i \in DOMAIN args : kind(i) = "opt" => kind(i + 1) = "other"
      /\ \A i, k \in DOMAIN args : {kind(i), kind(k)} \subseteq {"-c", "smoke"} => i = k

\* The orders in which a Go map of the file systems may be read.
Orders ==
  {order \in [1..Cardinality(FileSystems) -> FileSystems] : Members(order) = FileSystems}

\* A run of one shard: LTM hands the VM the configurations it found.
FSTESTCFG(r) ==
  IF r.ltm
  THEN {getConfigs(Cmd(r.args).configs, order) : order \in Orders}
  ELSE {Asked(r.args)}

\* The VMs a command line [args, ltm, rpt, loop, crashes] boots; no VM is
\* booted for no configuration.
RequestsOf(r) ==
  {[args |-> r.args, ltm |-> r.ltm, rpt |-> r.rpt, loop |-> r.loop,
    crashes |-> r.crashes, words |-> words] : words \in FSTESTCFG(r) \ {<<>>}}

\* A VM is booted for a command line and with the words that it leads to.
ASSUME RequestAssumption ==
  \A r \in Requests : Accepted(r.args) /\ r.ltm \in BOOLEAN /\ r \in RequestsOf(r)

-----------------------------------------------------------------------------
(***************************************************************************)
(* Properties                                                              *)
(***************************************************************************)

\* Words that name a configuration the same way for LTM and for the VM.
Plain(word) ==
  /\ Len(word) <= 2 /\ word[Len(word)] # "default"
  /\ Len(word) = 1 => word[1] \notin FileSystems

\* sanitizeCmd takes -c or smoke for the argument of an option that has none:
\* parser.go:28-30 lists --update-files, which stands alone (parse_cli:296-298).
Swallowed(args) ==
  \E i \in 1..(Len(args) - 1) :
    args[i].kind = "flag" /\ args[i + 1].kind \in {"-c", "smoke"}

\* LTM starts a shard with what the user asked for: the configurations that its
\* parser found (parser.go:56-210, where lists are opened once and comments are
\* kept) are, read again by the VM, those of the command line, and what it adds
\* beside its own -c (shard.go:84-97) has no second -c, no smoke, which parse_cli
\* refuses beside -c (parse_cli:317-323, 776-781), and no option meant for LTM,
\* but for those that its lists leave out, as --kbuild-opts, which parse_cli
\* refuses of a shard (parse_cli:998-1002).  Nothing is said of a command line
\* whose -c or smoke is swallowed: LTM reads that one as asking for all.
ShardArgs ==
  At("over") /\ request.ltm /\ ~Swallowed(request.args) =>
    /\ (\A w \in Members(Asked(request.args)) : Plain(w)) =>
         Named(Members(request.words)) = Named(Members(Asked(request.args)))
    /\ \A arg \in Members(Cmd(request.args).args) : arg.kind \in {"other", "unlisted"}
=============================================================================

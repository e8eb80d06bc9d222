------------------------------- MODULE Parser -------------------------------
(***************************************************************************)
(* LTM's parser of the command line (util/parser): it drops the options    *)
(* that make no sense for a shard, replaces the alias smoke, takes the     *)
(* argument of -c out and looks each configuration up in the same tree     *)
(* that the test VM uses.                                                  *)
(*                                                                         *)
(* An argument is a record of its kind and, for the argument of -c, the    *)
(* words between its commas.  The kind says what parse_cli and the lists   *)
(* here take it for; an argument with blanks has become several words.     *)
(***************************************************************************)
EXTENDS FsConfig

Kinds == {"bool",     \* a member of invalidBools
          "opt",      \* a member of invalidOpts, an argument follows
          "flag",     \* a member of invalidOpts that takes no argument: --update-files,
                      \* --update-xfstests, --update-xfstests-tar
          "unlisted", \* an option for LTM in neither list: --kbuild-opts, --email=...
          "smoke", "-c", "words", "other"}

Arguments == [kind : Kinds, words : Seq(Word \ {<<>>})]

Arg(kind) == [kind |-> kind, words |-> <<>>]
Words(words) == [kind |-> "words", words |-> words]

-----------------------------------------------------------------------------
sanitizeCmd(args) ==
  LET after[i \in 0..Len(args)] ==
        IF i = 0 THEN [skip |-> FALSE, valid |-> <<>>]
        ELSE IF after[i - 1].skip \/ args[i].kind \in {"bool", "opt", "flag"}
        THEN [skip |-> ~after[i - 1].skip /\ args[i].kind \in {"opt", "flag"},
              valid |-> after[i - 1].valid]
        ELSE [skip |-> FALSE, valid |-> Append(after[i - 1].valid, args[i])]
  IN  after[Len(args)].valid

Smoke == <<Arg("-c"), Words(<< <<"4k">> >>), Arg("other"), Arg("other")>>

\* Mutant: the alias stays where it was.
expandKeeps(args) ==
  IF \E i \in DOMAIN args : args[i].kind = "smoke" THEN Smoke \o args ELSE args

expandAliases(args) ==
  LET rest == Without(args, {Arg("smoke")})
  IN  IF Len(rest) < Len(args) THEN Smoke \o rest ELSE rest

(* The index of the first -c, 0 if there is none. *)
FirstC(args) ==
  LET found == {i \in DOMAIN args : args[i].kind = "-c"}
  IN  IF found = {} THEN 0 ELSE CHOOSE i \in found : \A k \in found : i <= k

-----------------------------------------------------------------------------
(* What singleConfig appends for one word, as <<fs, lines>>.  FileExists   *)
(* is false of a directory, so a word without a slash is always taken for  *)
(* a configuration of the primary file system; a word with a base type     *)
(* names no directory.                                                     *)
Found(word) ==
  LET path == IF Len(word) = 1 THEN <<PrimaryFS, word[1]>> ELSE word
  IN  IF path \in DOMAIN Lists THEN <<path[1], Lists[path]>>
      ELSE IF path \in Files THEN <<path[1], <<path[2]>> >>
      ELSE <<PrimaryFS, <<>> >>

NoConfigs == [fs \in FileSystems |-> <<>>]

singleConfig(configs, word) ==
  [configs EXCEPT ![Found(word)[1]] = @ \o Found(word)[2]]

(* The words of -c, one after the other. *)
allConfigs(words) ==
  LET after[i \in 0..Len(words)] ==
        IF i = 0 THEN NoConfigs ELSE singleConfig(after[i - 1], words[i])
  IN  after[Len(words)]

defaultConfigs(configs) ==
  [configs EXCEPT ![PrimaryFS] = @ \o Lists[<<PrimaryFS, "all">>]]

processConfigs(args) ==
  LET i == FirstC(args)
  IN  IF i = 0
      THEN [args |-> args, configs |-> defaultConfigs(NoConfigs)]
      ELSE [args |-> SubSeq(args, 1, i - 1) \o SubSeq(args, i + 2, Len(args)),
            configs |-> allConfigs(args[i + 1].words)]

Cmd(args) == processConfigs(expandAliases(sanitizeCmd(args)))

(* getConfigs: the map is read in any order of the file systems. *)
getConfigs(configs, order) ==
  LET of(fs) == [k \in DOMAIN configs[fs] |-> <<fs, configs[fs][k]>>]
      after[i \in 0..Len(order)] ==
        IF i = 0 THEN <<>> ELSE after[i - 1] \o of(order[i])
  IN  after[Len(order)]
=============================================================================

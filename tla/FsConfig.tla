------------------------------ MODULE FsConfig ------------------------------
(***************************************************************************)
(* The tree of file system configurations, /root/fs in the test appliance, *)
(* how runtests.sh finds the configuration a word of FSTESTCFG names       *)
(* (get_one_fs_config of runtests_utils), and the devices it then assigns. *)
(*                                                                         *)
(* A word is the sequence of its parts: <<cfg>> or <<fs>>, <<fs, cfg>>,    *)
(* and <<base, fs, cfg>> for base:fs/cfg.                                  *)
(***************************************************************************)
EXTENDS Naturals, Sequences, FiniteSets

CONSTANTS
  FileSystems,   \* the directories of /root/fs
  PrimaryFS,     \* FSTESTTYP; LTM's primaryFS
  Lists,         \* <<fs, cfg>> -> the lines of fs/<fs>/cfg/<cfg>.list
  Files,         \* the <<fs, cfg>> that have a file fs/<fs>/cfg/<cfg>
  Comments,      \* the lines that hold a #
  Alias,         \* fs -> what test_name_alias of fs makes of "default"
  Sets           \* <<fs, cfg>> -> what the configuration file sets

(***************************************************************************)
(* What a configuration file sets, as far as devices go: the size of the   *)
(* devices it wants ("" when it sets none), devices of its own, external   *)
(* log and realtime devices, a pool of scratch devices; and whether its    *)
(* mkfs options are the default ones.                                      *)
(***************************************************************************)
Setting == [size : {"", "small", "large"}, own : BOOLEAN, log : BOOLEAN,
            rt : BOOLEAN, pool : BOOLEAN, plain : BOOLEAN]

ASSUME TreeAssumption ==
  /\ FileSystems \subseteq STRING /\ Cardinality(FileSystems) \in Nat
  /\ PrimaryFS \in FileSystems
  /\ Files \subseteq FileSystems \X STRING
  /\ DOMAIN Lists \subseteq FileSystems \X STRING
  /\ \A path \in DOMAIN Lists : Lists[path] \in Seq(STRING)
  /\ Alias \in [FileSystems -> STRING]
  /\ Sets \in [Files -> Setting]

\* The tree has all.list and 4k, and no file's name holds a #.
ASSUME NamesAssumption ==
  /\ <<PrimaryFS, "all">> \in DOMAIN Lists /\ <<PrimaryFS, "4k">> \in Files
  /\ "default" \notin Comments
  /\ \A path \in Files \cup DOMAIN Lists : path[2] \notin Comments

Word == Seq(STRING)

Members(seq) == {seq[i] : i \in DOMAIN seq}

(* seq without the members of set. *)
Without(seq, set) ==
  LET kept[i \in 0..Len(seq)] ==
        IF i = 0 THEN <<>>
        ELSE IF seq[i] \in set THEN kept[i - 1] ELSE Append(kept[i - 1], seq[i])
  IN  kept[Len(seq)]

-----------------------------------------------------------------------------
(* get_one_fs_config *)

FsOf(word) ==
  IF Len(word) > 1 THEN word[Len(word) - 1]
  ELSE IF word[1] \in FileSystems THEN word[1] ELSE PrimaryFS

NameOf(word) ==
  IF Len(word) = 1 /\ word[1] \in FileSystems THEN "default" ELSE word[Len(word)]

(* FS and TC, once the alias is resolved; FS is known to be a directory. *)
Resolve(word) ==
  LET fs == FsOf(word)
      tc == NameOf(word)
  IN  <<fs, IF tc = "default" THEN Alias[fs] ELSE tc>>

Known(word) == FsOf(word) \in FileSystems

IsList(word) == Known(word) /\ Resolve(word) \in DOMAIN Lists

(* The words a list stands for, without its comments. *)
Lines(fs, lines) ==
  LET kept == Without(lines, Comments)
  IN  [i \in DOMAIN kept |-> <<fs, kept[i]>>]

(* What is left of a list is a list of words. *)
ASSUME ListAssumption ==
  \A path \in DOMAIN Lists : Lines(path[1], Lists[path]) \in Seq(Word)

(* A file that sets neither a device nor a size is refused. *)
IsConfig(word) ==
  /\ Known(word) /\ ~IsList(word)
  /\ Resolve(word) \in Files
  /\ Sets[Resolve(word)].own \/ Sets[Resolve(word)].size # ""

-----------------------------------------------------------------------------
(***************************************************************************)
(* The devices.  An assignment gives each variable of the script its       *)
(* value, "" when it is unset.                                             *)
(***************************************************************************)
Slots == {"TEST_DEV", "SCRATCH_DEV", "LOGWRITES_DEV", "SCRATCH_LOGDEV",
          "TEST_LOGDEV", "SCRATCH_RTDEV", "TEST_RTDEV"}

Devices == {"PRI_TST", "SM_TST", "SM_SCR", "LG_TST", "LG_SCR", "TINY_TST", "TINY_SCR"}

Values == Devices \cup {"", "XXX", "own_test", "own_scratch"}

NoDevices == [s \in Slots |-> ""]

TestDev(c) ==
  IF Sets[c].own THEN "own_test"
  ELSE IF Sets[c].size = "large" THEN "LG_TST"
  ELSE IF c[1] = PrimaryFS /\ Sets[c].plain THEN "PRI_TST" ELSE "SM_TST"

ScratchDev(c) ==
  IF Sets[c].own THEN "own_scratch"
  ELSE IF Sets[c].size = "large" THEN "LG_SCR" ELSE "SM_SCR"

\* Set together with SCRATCH_DEV; clear_fs_config does not clear it.
LogwritesDev(dev, c) ==
  IF Sets[c].own THEN dev["LOGWRITES_DEV"]
  ELSE IF Sets[c].size = "large" THEN "SM_SCR" ELSE "LG_SCR"

\* Mutant: is_dev_free without the line on LOGWRITES_DEV.
InUseButLog(test, scratch, logwrites, logs) == {test, scratch} \cup logs

\* What is_dev_free compares with.
InUse(test, scratch, logwrites, logs) == {test, scratch, logwrites} \cup logs

\* The first device of the chain of tests that is free; "XXX" if none is.
FirstFree(used) ==
  LET order == <<"SM_SCR", "LG_SCR", "SM_TST", "LG_TST", "PRI_TST">>
      free == {i \in DOMAIN order : order[i] \notin used}
  IN  IF free = {} THEN "XXX" ELSE order[CHOOSE i \in free : \A k \in free : i <= k]

\* The devices of configuration c after those of the one before it.
Assign(dev, c) ==
  LET log(d) == IF Sets[c].log THEN d ELSE ""
      used == InUse(TestDev(c), ScratchDev(c), LogwritesDev(dev, c),
                    {log("TINY_SCR"), log("TINY_TST")})
      first == FirstFree(used)
      rt(d) == IF Sets[c].rt THEN d ELSE ""
  IN  [s \in Slots |->
         CASE s = "TEST_DEV"       -> TestDev(c)
           [] s = "SCRATCH_DEV"    -> ScratchDev(c)
           [] s = "LOGWRITES_DEV"  -> LogwritesDev(dev, c)
           [] s = "SCRATCH_LOGDEV" -> log("TINY_SCR")
           [] s = "TEST_LOGDEV"    -> log("TINY_TST")
           [] s = "SCRATCH_RTDEV"  -> rt(first)
           [] s = "TEST_RTDEV"     -> rt(FirstFree(used \cup {first}))]
=============================================================================

----------------------------- MODULE MCRunTests -----------------------------
(* ShardRun with a tree of two file systems, one of whose names is also a   *)
(* configuration of the other, as ext3 is of ext4.                          *)
EXTENDS ShardRun

MCLists ==
  [p \in {<<"ext4", "all">>, <<"ext4", "huge">>} |->
     IF p[2] = "all" THEN <<"4k", "#old", "rt">> ELSE <<"all", "big">>]

MCFiles == {<<"ext4", "4k">>, <<"ext4", "rt">>, <<"ext4", "big">>, <<"ext4", "ext3">>,
            <<"ext3", "4k">>}

MCAlias == [fs \in {"ext4", "ext3"} |-> "4k"]

Small == [size |-> "small", own |-> FALSE, log |-> FALSE, rt |-> FALSE, pool |-> FALSE,
          plain |-> FALSE]

MCSets ==
  [c \in MCFiles |->
     CASE c[1] = "ext3"  -> [Small EXCEPT !.size = "", !.own = TRUE]
       [] c[2] = "4k" /\ c[1] = "ext4" -> [Small EXCEPT !.plain = TRUE]
       [] c[2] = "rt"    -> [Small EXCEPT !.rt = TRUE, !.log = TRUE]
       [] c[2] = "big"   -> [Small EXCEPT !.size = "large"]
       [] c[2] = "ext3"  -> [Small EXCEPT !.pool = TRUE]]

C(words) == <<Arg("-c"), Words(words)>>

Req(args, ltm, rpt, loop, crashes) ==
  [args |-> args, ltm |-> ltm, rpt |-> rpt, loop |-> loop, crashes |-> crashes]

CommandLines ==
  {Req(<<Arg("bool")>> \o C(<< <<"ext4", "4k">> >>) \o <<Arg("other")>>, TRUE, 1, 2, 3),
   Req(<<Arg("opt"), Arg("other"), Arg("smoke")>>, TRUE, 2, 0, 2),
   Req(<<Arg("other")>>, TRUE, 1, 0, 1),
   Req(<<Arg("flag"), Arg("other"), Arg("unlisted"), Arg("other")>> \o C(<< <<"big">> >>),
       TRUE, 1, 0, 0),
   Req(<<Arg("flag"), Arg("opt"), Arg("other"), Arg("smoke")>>, TRUE, 1, 0, 0),
   Req(<<Arg("flag"), Arg("smoke")>>, TRUE, 1, 0, 0),
   Req(<<Arg("flag")>> \o C(<< <<"ext3", "4k">> >>), TRUE, 1, 0, 0),
   Req(C(<< <<"huge">>, <<"ext4", "all">> >>), FALSE, 1, 0, 0),
   Req(C(<< <<"big">>, <<"ext3", "4k">>, <<"big">>, <<"nope">> >>), TRUE, 1, 0, 1),
   Req(C(<< <<"ext3">>, <<"ext4", "ext3", "default">>, <<"ext3", "default">> >>),
       FALSE, 1, 0, 0)}

MCRequests == UNION {RequestsOf(r) : r \in CommandLines}
=============================================================================

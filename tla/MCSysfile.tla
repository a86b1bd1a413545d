----------------------------- MODULE MCSysfile -----------------------------
(***************************************************************************)
(* Two processes on a disk with a root directory, one file /a and one free *)
(* inode.  One links, unlinks and opens the file, the other makes, enters, *)
(* fills and removes the directory /d that the first one links into.       *)
(***************************************************************************)
EXTENDS Sysfile, TLC

CONSTANTS p1, p2

Op(op, path) == [op |-> op, path |-> path, new |-> <<>>]

MCNames == {"a", "d"}
MCImage == [n \in MCNames |-> IF n = "a" THEN 2 ELSE 0]

MCCalls ==
  (p1 :> { [op |-> "link", path |-> <<"/", "a">>, new |-> <<"/", "d", "a">>],
           [op |-> "link", path |-> <<"/", "a">>, new |-> <<"/", "a">>],
           Op("unlink", <<"/", "a">>), Op("unlink", <<"/", "d", "a">>),
           Op("open", <<"/", "a">>), Op("open_rdwr", <<"/", "d">>), Op("unlink", <<"/", "a", "d">>) })
  @@
  (p2 :> { Op("mkdir", <<"/", "d">>), Op("unlink", <<"/", "d">>), Op("chdir", <<"/", "d">>),
           Op("open_create", <<"/", "d", "a">>), Op("unlink", <<"a">>) })

(* The calls of linkunlink() in usertests.c, made by parent and child.     *)
TestNames == {"cat", "x"}
TestImage == [n \in TestNames |-> IF n = "cat" THEN 2 ELSE 0]
TestCalls ==
  [p \in Procs |->
    { Op("open_create", <<"x">>), Op("unlink", <<"x">>),
      [op |-> "link", path |-> <<"cat">>, new |-> <<"x">>] }]
=============================================================================

----------------------------- MODULE MCFileData ----------------------------
(***************************************************************************)
(* FileData for TLC: two processes share two open file structures on a     *)
(* disk with a root directory and one program.  Blocks hold two bytes and  *)
(* a file has one direct and two indirect blocks; a piece of a write() is  *)
(* one block, so a write of five bytes takes three operations.              *)
(***************************************************************************)
EXTENDS FileData

CONSTANTS p1, p2, f1, f2

MCPrograms == <<<<1, 2, 3>>>>
MCBuffer == p1 :> <<1, 2, 1, 2, 1>> @@ p2 :> <<2, 2, 1, 1, 2>>

=============================================================================

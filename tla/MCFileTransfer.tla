--------------------------- MODULE MCFileTransfer ---------------------------
(* Five requests: a file that ends within a chunk, one that is not there, *)
(* one that ends with a chunk, a sum, and an empty file.                   *)
EXTENDS FileTransfer

Video(size) == [op |-> "video", size |-> size]
Sum == [op |-> "calculate", size |-> 0]

FiveRequests == <<Video(9), Video(Missing), Video(8), Sum, Video(0)>>
=============================================================================

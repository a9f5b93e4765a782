--------------------------- MODULE MCHostelRooms ---------------------------
(***************************************************************************)
(* Small instances of HostelRooms: one room of one or two beds and up to   *)
(* four students, who may all have a bed in it.                            *)
(***************************************************************************)
EXTENDS HostelRooms, TLC

Everyone == Students \X Rooms
Interchangeable == Permutations(Requests) \cup Permutations(Students)
=============================================================================

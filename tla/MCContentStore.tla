---------------------------- MODULE MCContentStore ----------------------------
(* Two V2 uploads and one V1 upload of the same original: all three share an  *)
(* image_files row, and the V2 uploads their one stored file.                 *)
EXTENDS ContentStore, TLC

CONSTANTS u1, u2, v1, master, original

MCHash    == [u \in {u1, u2, v1} |-> "h"]
MCPathsOf == u1 :> {master} @@ u2 :> {master} @@ v1 :> {original}
===============================================================================

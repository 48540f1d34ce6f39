------------------------------ MODULE MCFsSync ------------------------------
(***************************************************************************)
(* Small instances of FsSync: a public memory, and a personal one.         *)
(***************************************************************************)
EXTENDS FsSync

MCSegment == STRING

PublicX == BuildDtag("public", NoScope, <<"x">>)
MineX   == BuildDtag("personal", "k", <<"x">>)

MCTwo == {PublicX, MineX}
=============================================================================

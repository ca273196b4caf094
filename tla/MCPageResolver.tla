--------------------------- MODULE MCPageResolver ---------------------------
(* Paths of one to three names, one of which may be that of the index. *)
EXTENDS PageResolver

MCPaths == {<<"user">>, <<"index">>, <<"user", "32">>, <<"user", "index">>,
            <<"user", "32", "edit">>}
=============================================================================

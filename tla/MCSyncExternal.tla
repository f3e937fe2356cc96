---------------------------- MODULE MCSyncExternal ----------------------------
(* Two projects; from one run to the next a project goes from git to a local *)
(* directory or back, is dropped, or becomes an archive.                     *)
EXTENDS SyncExternal

MCConfigs == {<<"git", "pinned">>, <<"copy", "none">>, <<"archive", "link">>}
==============================================================================

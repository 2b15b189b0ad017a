-------------------------- MODULE MCPlatformHosts --------------------------
(* PlatformHosts with small tables: three handles in the browser, of which  *)
(* it may hold two, a supported and an unsupported Android, two sessions of *)
(* each route on the glasses, a mount three directories deep, a device that *)
(* is lost between two messages, two artifacts, scripts whose streams may   *)
(* be cut within a character, three services that may be offered.           *)
EXTENDS PlatformHosts

CONSTANTS h1, h2, h3

HandleSymmetry == Permutations(Handles)

MountPaths == {<<"a">>, <<"a", "b">>, <<"a", "b", "c">>, <<"d">>}
LossyScripts == {<<"m1", "lost", "m2">>, <<"m3">>}
=============================================================================

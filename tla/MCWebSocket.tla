---------------------------- MODULE MCWebSocket -----------------------------
(***************************************************************************)
(* Instances of WebSocket for TLC.                                         *)
(***************************************************************************)
EXTENDS WebSocket

\* The key before the host, after it, and none; four pieces may end inside the key.
SomeRequests ==
  {<<"x", "x", KeyName, "k1", "k2", Eol, HostName, "h1">>,
   <<HostName, "h1", Eol, KeyName, "k1", "k2">>,
   <<"x", "x", Eol, HostName, "h1", Eol>>}
=============================================================================

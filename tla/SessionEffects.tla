---------------------------- MODULE SessionEffects ----------------------------
(***************************************************************************)
(* What the callbacks of a ProxyTunnel may do to its two sockets and to    *)
(* the file of its cache.  Session is a tunnel that does just that, and    *)
(* ProxyTunnel is shown to implement it; ProxyClient has these effects     *)
(* happen to the descriptors of many tunnels.                              *)
(*                                                                         *)
(* An effect is a kind and the side that it is about:                      *)
(*   "none"   nothing changes;                                             *)
(*   "keep"   the rest is kept, and the socket watched for writing;        *)
(*   "sent"   the last kept packet is gone, and so is that watch;          *)
(*   "spill"  the cache opens its file;                                    *)
(*   "end"    the session is over, whatever ended it.                      *)
(* status says of each side what the Connection's status is.               *)
(***************************************************************************)

Side == {"local", "proxy"}

\* Connection::send() on a connected socket: what was kept goes first, and the
\* watch goes with the last of it.
SendEffects(side) ==
  {<<"none", side>>, <<"keep", side>>, <<"sent", side>>, <<"end", side>>}

\* handleInputNotification(): nothing when the connection is not connected; else
\* the other connection, or the same (a flush after the proxy's answer), is
\* written to, or the client's bytes go to the file, or the session ends.
InputEffects(status, side) ==
  IF status[side] # "Connected" THEN {<<"none", side>>}
  ELSE (IF side = "local" THEN {<<"spill", side>>} ELSE {}) \cup
       UNION {SendEffects(to) : to \in {s \in Side : status[s] = "Connected"}}

\* handleOutputNotification(), but for a connect() that has succeeded: what
\* onConnected() sends has SendEffects.
OutputEffects(status, side) ==
  IF status[side] = "Closed" THEN {<<"none", side>>}
  ELSE IF status[side] = "Connecting" THEN {<<"end", side>>}
  ELSE {<<"none", side>>, <<"sent", side>>, <<"end", side>>}
=============================================================================

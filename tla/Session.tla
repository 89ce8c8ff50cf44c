------------------------------- MODULE Session -------------------------------
(***************************************************************************)
(* One tunnel as the rest of the program sees it: two sockets with what    *)
(* they are watched for, perhaps an open file, and its place in            *)
(* ProxyClient.  TunnelProperties shows that ProxyTunnel, with its bytes,  *)
(* phases and nested callbacks, does nothing else.                         *)
(***************************************************************************)
EXTENDS SessionEffects

VARIABLES
  socket,  \* the status of each connection, and what it is registered for
  file,    \* whether the cache has its file open
  known,   \* whether the tunnel has a handler to report to
  place    \* "free", "active" or "broken"

vars == <<socket, file, known, place>>

Closed     == [status |-> "Closed", rd |-> FALSE, wr |-> FALSE]
Connected  == [status |-> "Connected", rd |-> TRUE, wr |-> FALSE]
Connecting == [status |-> "Connecting", rd |-> FALSE, wr |-> TRUE]

NoSockets == [side \in Side |-> Closed]
Status    == [side \in Side |-> socket[side].status]

Init == socket = NoSockets /\ file = FALSE /\ known = FALSE /\ place = "free"

\* The effect on sockets k of a tunnel that is in place p unless it ends.
After(k, effect, p) ==
  LET side == effect[2]
  IN  \/ /\ effect[1] \in {"none", "keep", "sent"}
         /\ socket' = [k EXCEPT ![side].wr = (@ \/ effect[1] = "keep") /\ effect[1] # "sent"]
         /\ place' = p /\ UNCHANGED file
      \/ /\ effect[1] = "spill" /\ ~ file
         /\ socket' = k /\ file' = TRUE /\ place' = p
      \/ /\ effect[1] = "end"
         /\ socket' = NoSockets /\ file' = FALSE
         /\ place' = IF known THEN "broken" ELSE p

Readable(side) ==
  /\ socket[side].rd
  /\ \E effect \in InputEffects(Status, side) : After(socket, effect, place)
  /\ UNCHANGED known

Writable(side) ==
  /\ socket[side].wr
  /\ \/ \E effect \in OutputEffects(Status, side) : After(socket, effect, place)
     \/ /\ Status[side] = "Connecting"
        /\ \E effect \in SendEffects(side) :
             After([socket EXCEPT ![side] = Connected], effect, place)
  /\ UNCHANGED known

\* onAccept(): the handler is set at the end, so that a tunnel whose first send
\* fails reports it only when it has been used before.
AcceptFails ==
  /\ place = "free" /\ place' = "broken"
  /\ UNCHANGED <<socket, file, known>>

Accept ==
  /\ place = "free" /\ known' = TRUE
  /\ \/ After([local |-> Connected, proxy |-> Connecting], <<"none", "proxy">>, "active")
     \/ \E effect \in SendEffects("proxy") :
          After([side \in Side |-> Connected], effect, "active")

\* A tunnel that is deleted is a new one when it is next seen.
Reclaim ==
  /\ place = "broken" /\ place' = "free"
  /\ known' \in {known, FALSE}
  /\ UNCHANGED <<socket, file>>

Next ==
  \/ \E side \in Side : Readable(side) \/ Writable(side)
  \/ Accept \/ AcceptFails \/ Reclaim

Spec == Init /\ [][Next]_vars
=============================================================================

---------------------------- MODULE MCKubeBrowse ----------------------------
(* Instances of the session lifecycle for TLC. *)
EXTENDS SessionProperties, TLC

(* Tunnels and requests are only compared; so are sessions. *)
Symmetry == Permutations(Conns) \cup Permutations(Sessions)
              \cup Permutations(Reqs)

(***************************************************************************)
(* Behaviours with two tunnels, and behaviours with one tunnel and         *)
(* requests: clients, who owe nothing, do not go on to make both of one.   *)
(* Nobody asks to join, which changes no session.                          *)
(***************************************************************************)
FirstConn == CHOOSE c \in Conns : TRUE

TunnelsOrRequests ==
    /\ (\E r \in Reqs : req[r].pc # "idle")
         => \A c \in Conns \ {FirstConn} : conn[c].pc = "idle"
    /\ \A r \in Reqs : req[r].pc # "joinCheck"

MCFairSpec == Init /\ [][Next /\ TunnelsOrRequests']_vars /\ Fairness
=============================================================================

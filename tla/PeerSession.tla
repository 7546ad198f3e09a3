---------------------------- MODULE PeerSession ----------------------------
(***************************************************************************)
(* What the finite state machine of one neighbor promises to the rest of   *)
(* the server, as an abstract specification: the order of the states the   *)
(* server is told of, that a session is only started while the neighbor is *)
(* administratively up, that it is only established on a connection whose  *)
(* OPEN was accepted, and that an administrative shutdown ends it.         *)
(* PeerFsm is checked to implement this specification.                     *)
(***************************************************************************)

VARIABLES st,     \* the state the server was last told of, "GONE" at the end
          adm,    \* the administrative state in force
          opened  \* the session's connection carries an accepted OPEN

vars == <<st, adm, opened>>

States == {"IDLE", "ACTIVE", "OPENSENT", "OPENCONFIRM", "ESTABLISHED", "GONE"}

AdminStates == {"Up", "Down", "PfxCt"}

Init ==
    /\ st = "IDLE"
    /\ adm \in {"Up", "Down"}
    /\ opened = FALSE

\* The idle hold timer of an enabled neighbor expires.
Start ==
    /\ st = "IDLE" /\ adm = "Up"
    /\ st' = "ACTIVE"
    /\ UNCHANGED <<adm, opened>>

\* A connection is adopted and the handshake moves on.
Handshake ==
    /\ \/ st = "ACTIVE" /\ st' = "OPENSENT"
       \/ st \in {"ACTIVE", "OPENSENT"} /\ opened /\ st' = "OPENCONFIRM"
    /\ UNCHANGED <<adm, opened>>

Establish ==
    /\ st = "OPENCONFIRM" /\ opened
    /\ st' = "ESTABLISHED"
    /\ UNCHANGED <<adm, opened>>

\* The OPEN of the peer is accepted, or its connection is given up.
Learn == st \in {"ACTIVE", "OPENSENT"} /\ opened' = TRUE /\ UNCHANGED <<st, adm>>
Lose == opened' = FALSE /\ UNCHANGED <<st, adm>>

\* The session fails or is ended, whatever stage it had reached.
Drop ==
    /\ st \notin {"GONE"}
    /\ st' = "IDLE"
    /\ opened' \in {opened, FALSE}
    /\ UNCHANGED adm

\* An administrative request is carried out. The connection of a session
\* that a shutdown ends is closed in the same step.
Administer ==
    /\ st # "GONE"
    /\ adm' \in AdminStates
    /\ opened' \in {opened, FALSE}
    /\ UNCHANGED st

Remove ==
    /\ st' = "GONE"
    /\ opened' = FALSE
    /\ UNCHANGED adm

Next == Start \/ Handshake \/ Establish \/ Learn \/ Lose \/ Drop \/ Administer \/ Remove

Spec == Init /\ [][Next]_vars

=============================================================================

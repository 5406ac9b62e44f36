---------------------------- MODULE Supervisors ----------------------------
(***************************************************************************)
(* The recorder supervisor and the cluster relay on one event bus, over    *)
(* the same publisher sessions.                                            *)
(***************************************************************************)
EXTENDS Recording, ClusterRelay

vars == <<pubVars, recVars, relayVars>>

Init == PubInit /\ RecInit /\ RelayInit

Next ==
  \/ PubNext /\ UNCHANGED <<recVars, relayVars>>
  \/ RecNext /\ UNCHANGED relayVars
  \/ RelayNext /\ UNCHANGED recVars

Spec == Init /\ [][Next]_vars

\* tokio runs the supervisors and their tasks.  Files get written and the peer
\* answers, somehow; frames need not arrive and sessions may do nothing.
FairSpec ==
  /\ Spec
  /\ WF_vars(TakeRecorderEvent /\ UNCHANGED relayVars)
  /\ WF_vars(TakeRecorderCmd /\ UNCHANGED relayVars)
  /\ \A r \in Recordings, f \in Formats :
       WF_vars((RecStart(r, f) \/ RecWritten(r, f) \/ RecClosed(r, f)) /\ UNCHANGED relayVars)
  /\ WF_vars(TakeRelayEvent /\ UNCHANGED recVars)
  /\ \A t \in Relays : WF_vars(RelayStep(t) /\ UNCHANGED recVars)

\* The type invariant: sessions, bus, recorders and relays.
TypeOK == PubTypeOK /\ RecTypeOK /\ RelayTypeOK
=============================================================================

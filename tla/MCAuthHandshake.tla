--------------------------- MODULE MCAuthHandshake ---------------------------
(* Instance of AuthHandshake for TLC.                                        *)
EXTENDS AuthHandshake, TLC

CONSTANTS r1, r2

\* The teacher with her key, with an old key and without one; the demo server
\* with the secret of its computer and with another; a demo client.
MCClients ==
  { [prefers |-> "DSA", key |-> k, secret |-> "wrong", listed |-> FALSE]
      : k \in {"right", "wrong", "none"} }
  \cup { [prefers |-> "CommonSecret", key |-> "none", secret |-> s, listed |-> FALSE]
          : s \in {"right", "wrong"} }
  \cup { [prefers |-> "HostBased", key |-> "none", secret |-> "wrong", listed |-> l]
          : l \in BOOLEAN }

Teacher == [prefers |-> "DSA", key |-> "right", secret |-> "wrong", listed |-> FALSE]

\* One client of any kind against the teacher, who may come first or second; the
\* settings about logons do not matter to the iTALC security type, what is offered
\* only to those who prefer the secret, and whether holders of keys are asked for
\* only to those with the right one.
MCInit == /\ HInit
          /\ client[r2] = Teacher
          /\ hasSecret \/ (client[r1].prefers = "CommonSecret" /\ client[r1].secret = "wrong")
          /\ config.keyAsks \/ client[r1] = Teacher
          /\ ~config.logonAsks /\ ~config.sameUserFree

MCSpec == MCInit /\ [][HNext]_hVars
          /\ \A r \in Requests : WF_hVars(Server(r)) /\ WF_hVars(ClientThread(r))
=============================================================================

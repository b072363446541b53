--------------------------- MODULE AccessDecision ---------------------------
(***************************************************************************)
(* What the user of a computer is promised about its desktop: a request is *)
(* granted only if an exception of the configuration covers it or the user *)
(* agreed to that very request, and the user is only asked about requests  *)
(* that are still open.                                                    *)
(***************************************************************************)
CONSTANTS Requests, NoAnswer

VARIABLES exempt,    \* request: it needs nobody's consent
          said,      \* request: what the user answered
          decision   \* request: "open", "granted" or "denied"

vars == <<exempt, said, decision>>

Init ==
  /\ exempt = [r \in Requests |-> FALSE]
  /\ said = [r \in Requests |-> NoAnswer]
  /\ decision = [r \in Requests |-> "open"]

\* The request is made; its method and the configuration decide if it is exempt.
Exempt(r) ==
  /\ decision[r] = "open"
  /\ exempt' = [exempt EXCEPT ![r] = TRUE]
  /\ UNCHANGED <<said, decision>>

Answer(r) ==
  /\ decision[r] = "open"
  /\ said[r] = NoAnswer
  /\ \E a \in {"Yes", "No"} : said' = [said EXCEPT ![r] = a]
  /\ UNCHANGED <<exempt, decision>>

Grant(r) ==
  /\ decision[r] = "open"
  /\ exempt[r] \/ said[r] = "Yes"
  /\ decision' = [decision EXCEPT ![r] = "granted"]
  /\ UNCHANGED <<exempt, said>>

Deny(r) ==
  /\ decision[r] = "open"
  /\ decision' = [decision EXCEPT ![r] = "denied"]
  /\ UNCHANGED <<exempt, said>>

Next == \E r \in Requests : Exempt(r) \/ Answer(r) \/ Grant(r) \/ Deny(r)

Spec == Init /\ [][Next]_vars
=============================================================================

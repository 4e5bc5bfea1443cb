---------------------------- MODULE StreamContract ----------------------------
(***************************************************************************)
(* What the transport promises a consumer of the Stream API, with no       *)
(* sockets, refs or timers in it: a consumer that holds a topic has a      *)
(* connection or is about to get one, losing a connection costs no topic,  *)
(* an unsubscribe is acknowledged exactly once, and disconnecting ends     *)
(* everything.  PhoenixTransport implements it.                            *)
(***************************************************************************)
EXTENDS Naturals

CONSTANT Subs    \* subscription objects

VARIABLES
  phase,   \* "idle", "up" (a socket exists) or "backoff" (a retry is due)
  life     \* the life of each subscription

vars == <<phase, life>>

Phases == {"idle", "up", "backoff"}
Lives == {"unused", "held", "leaving", "left", "dropped"}

TypeOK == phase \in Phases /\ life \in [Subs -> Lives]

Init == phase = "idle" /\ life = [i \in Subs |-> "unused"]

\* Mutant: a lost connection leaves its unsubscribes waiting.
KeepWaiting == life

\* Every unsubscribe that was waiting is acknowledged.
Settled == [i \in Subs |-> IF life[i] = "leaving" THEN "left" ELSE life[i]]

Open == phase # "up" /\ phase' = "up" /\ UNCHANGED life

Subscribe(i) ==
  /\ life[i] = "unused"
  /\ life' = [life EXCEPT ![i] = "held"]
  /\ phase' = "up"

\* A topic is left at once, or when the server has had its say.
Unsubscribe(i) ==
  /\ life[i] = "held"
  /\ \/ life' = [life EXCEPT ![i] = "left"]
     \/ phase = "up" /\ life' = [life EXCEPT ![i] = "leaving"]
  /\ UNCHANGED phase

Acknowledge(i) ==
  /\ life[i] = "leaving"
  /\ life' = [life EXCEPT ![i] = "left"]
  /\ UNCHANGED phase

\* The connection is lost: no topic is, and no unsubscribe is left waiting.
Lose == phase = "up" /\ phase' = "backoff" /\ life' = Settled

Retry == phase = "backoff" /\ phase' = "up" /\ UNCHANGED life

\* A retry that finds a socket in place changes nothing here.
Disconnect ==
  /\ phase' = "idle"
  /\ life' = [i \in Subs |-> IF life[i] = "held" THEN "dropped" ELSE Settled[i]]

Next ==
  \/ Open \/ Lose \/ Retry \/ Disconnect
  \/ \E i \in Subs : Subscribe(i) \/ Unsubscribe(i) \/ Acknowledge(i)

Spec ==
  /\ Init /\ [][Next]_vars
  /\ WF_vars(Retry)
  /\ \A i \in Subs : WF_vars(Acknowledge(i))

-----------------------------------------------------------------------------

\* Whoever holds a topic has a connection or will be given one, and nobody
\* waits for an acknowledgement without a connection to bring it.
HeldIsServed ==
  \A i \in Subs :
    /\ life[i] = "held" => phase # "idle"
    /\ life[i] = "leaving" => phase = "up"
=============================================================================

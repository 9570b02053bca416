-------------------------------- MODULE Turns --------------------------------
(***************************************************************************)
(* What a bridged connection promises to its client, whatever the upstream *)
(* does, however often a request is repeated and whenever the client goes: *)
(*                                                                         *)
(*   - its requests are answered one at a time, in the order in which they *)
(*     were sent, though some may be skipped;                              *)
(*   - an answer is what one response said, from its first event on and    *)
(*     without a gap, or as much of it as there was and then an error;     *)
(*   - it ends with its verdict, and without one there is no next answer;  *)
(*   - when the connection is given up nothing is told any more.           *)
(***************************************************************************)
EXTENDS SequencesExt, Naturals

CONSTANTS
    Verdicts,   \* the types of the events that end a response
    Error       \* the type of the proxy's own frame that ends an answer

VARIABLES
    phase,      \* "open" for a request, "serving" one, or "closed"
    request,    \* the number of the request in the connection, 0 before the first
    told        \* the answer so far: records with a type, an attempt and a number

turnsVars == <<phase, request, told>>

TurnsInit == phase = "open" /\ request = 0 /\ told = <<>>

Serve ==
    /\ phase = "open" /\ phase' = "serving"
    /\ request' > request
    /\ told' = <<>>

Ended == told # <<>> /\ Last(told).type \in Verdicts \cup {Error}

\* The next event of the response that is being told, or the error.
Follows(event) ==
    \/ event.type = Error
    \/ /\ event.no = Len(told) + 1
       /\ \A i \in DOMAIN told : told[i].attempt = event.attempt

Tell ==
    /\ phase = "serving" /\ ~Ended
    /\ told' # <<>> /\ told' = Append(told, Last(told')) /\ Follows(Last(told'))
    /\ UNCHANGED <<phase, request>>

Finish == phase = "serving" /\ Ended /\ phase' = "open" /\ UNCHANGED <<request, told>>

GiveUp == phase # "closed" /\ phase' = "closed" /\ UNCHANGED <<request, told>>

TurnsNext == Serve \/ Tell \/ Finish \/ GiveUp

TurnsSpec == TurnsInit /\ [][TurnsNext]_turnsVars
=============================================================================

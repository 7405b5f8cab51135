----------------------------- MODULE OrderedLink -----------------------------
(***************************************************************************)
(* What the sending side of a ws.Connection promises its callers: the      *)
(* messages Write accepted reach the socket in the order of acceptance,    *)
(* each at most once and without a gap, none of them once the socket is    *)
(* closed, and a connection on which Close was called does get closed.     *)
(* It does not promise that an accepted message is sent.                   *)
(***************************************************************************)
EXTENDS Naturals, Sequences

CONSTANT Msgs

VARIABLES accepted,  \* the messages Write returned nil for, in order
          sent,      \* the messages written to the socket, in order
          phase      \* "open", "closing" (Close was called) or "closed"

vars == <<accepted, sent, phase>>

Init == /\ accepted = <<>>
        /\ sent = <<>>
        /\ phase = "open"

Accept == /\ \E m \in Msgs : accepted' = Append(accepted, m)
          /\ UNCHANGED <<sent, phase>>

Transmit == /\ phase # "closed"
            /\ Len(sent) < Len(accepted)
            /\ sent' = Append(sent, accepted[Len(sent) + 1])
            /\ UNCHANGED <<accepted, phase>>

BeginClose == /\ phase = "open"
              /\ phase' = "closing"
              /\ UNCHANGED <<accepted, sent>>

Finish == /\ phase # "closed"
          /\ phase' = "closed"
          /\ UNCHANGED <<accepted, sent>>

Next == Accept \/ Transmit \/ BeginClose \/ Finish

SafeSpec == Init /\ [][Next]_vars

\* Only a link that is being closed has to finish.
Spec == SafeSpec /\ WF_vars(phase = "closing" /\ Finish)

=============================================================================

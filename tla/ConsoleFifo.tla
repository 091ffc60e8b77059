----------------------------- MODULE ConsoleFifo -----------------------------
(***************************************************************************)
(* What the serial console promises: characters leave on the wire in the   *)
(* order in which they were accepted, each once, and none is lost, whether *)
(* they are sent by DMA or polled out in synchronous mode.                 *)
(***************************************************************************)
EXTENDS Naturals, Sequences

CONSTANTS Char,     \* what can be sent
          Capacity  \* characters that can wait

VARIABLES queue,  \* accepted, not yet sent
          wire    \* the last character sent

Idle == "idle"

Init == queue = <<>> /\ wire = Idle

\* One character, or the two that a line feed becomes.
Accept == \E s \in UNION {[1 .. n -> Char] : n \in {1, 2}} :
            /\ Len(queue) + Len(s) <= Capacity
            /\ queue' = queue \o s
            /\ UNCHANGED wire

Emit == /\ queue # <<>>
        /\ wire' = Head(queue)
        /\ queue' = Tail(queue)

Next == Accept \/ Emit

Spec == Init /\ [][Next]_<<queue, wire>> /\ WF_<<queue, wire>>(Emit)
=============================================================================

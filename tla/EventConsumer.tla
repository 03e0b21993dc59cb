----------------------------- MODULE EventConsumer -----------------------------
(***************************************************************************)
(* What the heartbeat promises its producers: an at-least-once consumer of *)
(* a log that may be appended to behind its end.  Events go to the wake    *)
(* handler, possibly more than once and in any grouping; the position      *)
(* moves forward only, onto an appended event, and only when every         *)
(* material event up to it has been handled or came too late.  An event    *)
(* appended at the end of the log is never too late.  No workers, leases   *)
(* or faults: those are Heartbeat's.                                       *)
(***************************************************************************)
EXTENDS Naturals

CONSTANTS Events, Material

VARIABLES
    appended,  \* events appended so far
    position,  \* the last event consumed, 0 for none
    handled,   \* material events some finished wake was given
    excused    \* events that came behind the position or a page being handled

vars == <<appended, position, handled, excused>>

Init ==
    /\ appended = {}
    /\ position = 0
    /\ handled = {}
    /\ excused = {}

AtEnd(e) == \A f \in appended : f < e

Append(e) ==
    /\ appended' = appended \cup {e}
    /\ \/ /\ position < e
          /\ UNCHANGED excused
       \/ /\ ~AtEnd(e)
          /\ excused' = excused \cup {e}
    /\ UNCHANGED <<position, handled>>

Handle(batch) ==
    /\ handled' = handled \cup batch
    /\ UNCHANGED <<appended, position, excused>>

Advance(last) ==
    /\ position < last
    /\ \A e \in appended \cap Material : e <= last => e \in handled \cup excused
    /\ position' = last
    /\ UNCHANGED <<appended, handled, excused>>

Next ==
    \/ \E e \in Events : Append(e)
    \/ \E batch \in SUBSET (appended \cap Material) : Handle(batch)
    \/ \E last \in appended : Advance(last)

Spec == Init /\ [][Next]_vars

==============================================================================

---------------------------- MODULE HeartbeatProofs ----------------------------
(***************************************************************************)
(* Heartbeat for every set of workers and events, every page size and      *)
(* every bound: type correctness, the inductive invariant behind           *)
(* NoEventSkipped and OwnViewIsExact, the two action properties, and that  *)
(* the heartbeat is an at-least-once consumer.                             *)
(***************************************************************************)
EXTENDS Heartbeat, TLAPS

USE LeaseAssumption, HeartbeatAssumption
    DEF LeaseAssumption, HeartbeatAssumption

-----------------------------------------------------------------------------
(* Type correctness. *)

\* Every action keeps every variable in its type.
LEMMA TypeStep == TypeOK /\ [Next]_vars => TypeOK'
<1> SUFFICES ASSUME TypeOK, [Next]_vars PROVE TypeOK'
  OBVIOUS
<1> USE DEF TypeOK, LeaseRow, Tick, NoTick, Stage, NoEvent
<1>1. ASSUME NEW p \in Process, Claim(p) PROVE TypeOK'
  BY <1>1 DEF Claim, ClaimHeartbeatLease
<1>2. ASSUME NEW p \in Process, GetCursor(p) PROVE TypeOK'
  BY <1>2 DEF GetCursor
<1>3. ASSUME NEW p \in Process, ListEvents(p) PROVE TypeOK'
  <2>1. PICK last \in appended \cup {NoEvent}, materialJobs \in BOOLEAN :
          LET material == Listed(tick[p].from, last) \cap Material
          IN  /\ tick' = [tick EXCEPT ![p] =
                            [@ EXCEPT !.last = last, !.events = material]]
              /\ pc' = [pc EXCEPT ![p] = IF material = {} /\ ~materialJobs
                                         THEN "save" ELSE "wake"]
    BY <1>3 DEF ListEvents, AfterListing
  <2> DEFINE material == Listed(tick[p].from, last) \cap Material
  <2>2. last \in Nat
    OBVIOUS
  <2>3. material \in SUBSET Events
    OBVIOUS
  <2>4. [tick[p] EXCEPT !.last = last, !.events = material] \in Tick
    <3>1. tick[p] \in Tick
      OBVIOUS
    <3> HIDE DEF material
    <3> QED  BY <3>1, <2>2, <2>3
  <2>5. tick' \in [Process -> Tick]
    <3> HIDE DEF material, Tick
    <3> QED  BY <2>1, <2>4 DEF material
  <2>6. pc' \in [Process -> Stage]
    <3> HIDE DEF material
    <3> QED  BY <2>1 DEF material
  <2> QED
    BY <1>3, <2>5, <2>6 DEF ListEvents
<1>4. ASSUME NEW p \in Process, Wake(p) PROVE TypeOK'
  BY <1>4 DEF Wake
<1>5. ASSUME NEW p \in Process, SaveCursor(p) PROVE TypeOK'
  BY <1>5 DEF SaveCursor
<1>6. ASSUME NEW p \in Process, Release(p) PROVE TypeOK'
  BY <1>6 DEF Release, ReleaseHeartbeatLease, NamesLease
<1>7. ASSUME NEW p \in Process, Throw(p) PROVE TypeOK'
  BY <1>7 DEF Throw
<1>8. ASSUME NEW p \in Process, Crash(p) PROVE TypeOK'
  BY <1>8 DEF Crash
<1>9. ASSUME NEW p \in Process, Overrun(p) PROVE TypeOK'
  <2>1. lease' \in LeaseRow
    BY <1>9 DEF Overrun, ExpireLease
  <2>2. /\ faults' \in Nat
        /\ UNCHANGED <<appended, cursor, pc, tick, woken, late>>
    BY <1>9 DEF Overrun
  <2> QED
    BY <2>1, <2>2
<1>10. ASSUME NEW e \in Events, Append(e) PROVE TypeOK'
  BY <1>10 DEF Append
<1>11. CASE ExpireAbandoned
  BY <1>11 DEF ExpireAbandoned, ExpireLease
<1>12. CASE UNCHANGED vars
  BY <1>12 DEF vars
<1> QED
  BY <1>1, <1>2, <1>3, <1>4, <1>5, <1>6, <1>7, <1>8, <1>9, <1>10, <1>11, <1>12
  DEF Next, Step, Proceed

\* Every reachable state of the heartbeat is well typed.
THEOREM TypeCorrect == Spec => []TypeOK
<1>1. Init => TypeOK
  BY DEF Init, LeaseInit, TypeOK, LeaseRow, Tick, NoTick, Stage, NoEvent
<1> QED
  BY <1>1, TypeStep, PTL DEF Spec

-----------------------------------------------------------------------------
(* The inductive invariant.  NoEventSkipped is about the cursor alone, but   *)
(* whether a write keeps it depends on the tick that writes: its page must   *)
(* be complete up to its last event (PageIsComplete), start where the cursor *)
(* still is (OwnViewIsExact) and be handled by the time it is written        *)
(* (SaveIsHandled).  All three are about the one tick that owns the lease,   *)
(* which is one because fencing tokens are never issued twice (TokensIssued, *)
(* TokensUnique).                                                            *)

\* No token is ahead of the lease row, in a tick or in the stored cursor.
TokensIssued ==
    /\ cursor.token <= lease.token
    /\ \A p \in Process : pc[p] # "idle" => tick[p].token <= lease.token

\* Two running ticks never share a token.
TokensUnique ==
    \A p, q \in Process :
        pc[p] # "idle" /\ pc[q] # "idle" /\ tick[p].token = tick[q].token => p = q

\* A page ends at an appended event after its start, or is empty.
PageIsForward ==
    /\ cursor.pos \in appended \cup {NoEvent}
    /\ \A p \in Process : pc[p] \in {"wake", "save"} =>
          /\ tick[p].events \subseteq appended \cap Material
          /\ \/ tick[p].last = NoEvent
             \/ tick[p].last \in appended /\ tick[p].from < tick[p].last

\* The owner's page leaves out no material event up to its last one, except
\* those appended behind it.
PageIsComplete ==
    \A p \in Process :
        Holds(p) /\ pc[p] \in {"wake", "save"} =>
            \A e \in appended \cap Material :
                tick[p].from < e /\ e <= tick[p].last => e \in tick[p].events \cup late

\* A tick about to write the cursor has had its material events handled.
SaveIsHandled ==
    \A p \in Process : pc[p] = "save" => tick[p].events \subseteq woken

IInv ==
    /\ TypeOK
    /\ TokensIssued
    /\ TokensUnique
    /\ PageIsForward
    /\ OwnViewIsExact
    /\ PageIsComplete
    /\ SaveIsHandled
    /\ NoEventSkipped

\* At most one process owns a current lease.
LEMMA OneOwner ==
  ASSUME TokensUnique, NEW p \in Process, NEW q \in Process, Holds(p), Holds(q)
  PROVE  p = q
BY DEF TokensUnique, Holds, IsHeartbeatLeaseCurrent, NamesLease

\* Claiming: the new token is ahead of every other tick's, so the claimant is
\* the only owner, and it has no page yet.
LEMMA ClaimKeeps ==
  ASSUME IInv, TypeOK', NEW p \in Process, Claim(p)
  PROVE  IInv'
<1> USE DEF IInv
<1>1. /\ pc[p] = "idle"
      /\ lease' = [owner |-> OwnerOf[p], token |-> lease.token + 1, live |-> TRUE]
      /\ pc' = [pc EXCEPT ![p] = "cursor"]
      /\ tick' = [tick EXCEPT ![p] = [NoTick EXCEPT !.token = lease.token + 1]]
      /\ UNCHANGED <<appended, cursor, woken, late>>
  BY DEF Claim, ClaimHeartbeatLease
<1>2. /\ lease.token \in Nat
      /\ cursor.token \in Nat
      /\ \A q \in Process : tick[q].token \in Nat
  BY DEF TypeOK, LeaseRow, Tick
<1>3. /\ pc'[p] = "cursor"
      /\ tick'[p].token = lease.token + 1
      /\ \A q \in Process \ {p} : pc'[q] = pc[q] /\ tick'[q] = tick[q]
  BY <1>1 DEF TypeOK, NoTick
<1>4. TokensIssued'
  BY <1>1, <1>2, <1>3 DEF TokensIssued
<1>5. TokensUnique'
  BY <1>1, <1>2, <1>3 DEF TokensUnique, TokensIssued
<1>6. PageIsForward'
  BY <1>1, <1>3 DEF PageIsForward
<1>7. \A q \in Process : Holds(q)' => q = p
  BY <1>1, <1>2, <1>3 DEF Holds, IsHeartbeatLeaseCurrent, NamesLease, TokensIssued
<1>8. OwnViewIsExact'
  BY <1>3, <1>7 DEF OwnViewIsExact
<1>9. PageIsComplete'
  BY <1>3, <1>7 DEF PageIsComplete
<1>10. SaveIsHandled' /\ NoEventSkipped'
  BY <1>1, <1>3 DEF SaveIsHandled, NoEventSkipped
<1> QED
  BY <1>4, <1>5, <1>6, <1>8, <1>9, <1>10

\* Processes leave the stages of a tick, or the lease ends.
Withdraws ==
    /\ lease'.owner = lease.owner
    /\ lease'.token = lease.token
    /\ lease'.live => lease.live
    /\ \A q \in Process :
          \/ pc'[q] = pc[q]
          \/ pc'[q] = "idle"
          \/ pc'[q] = "release" /\ pc[q] # "idle"
    /\ UNCHANGED <<appended, cursor, tick, woken, late>>

\* Leaving a tick or losing the lease keeps the invariant: it only takes
\* processes out of the stages, and the ownership, the invariant speaks of.
LEMMA WithdrawKeeps ==
  ASSUME IInv, TypeOK', Withdraws
  PROVE  IInv'
<1> USE DEF IInv, Withdraws
<1>1. TokensIssued' /\ TokensUnique'
  BY DEF TokensIssued, TokensUnique
<1>2. \A q \in Process : Holds(q)' => Holds(q)
  BY DEF Holds, IsHeartbeatLeaseCurrent, NamesLease
<1>3. \A q \in Process : pc'[q] \in {"list", "wake", "save"} => pc'[q] = pc[q]
  OBVIOUS
<1>4. PageIsForward' /\ SaveIsHandled' /\ NoEventSkipped'
  BY <1>3 DEF PageIsForward, SaveIsHandled, NoEventSkipped
<1>5. OwnViewIsExact'
  BY <1>2, <1>3 DEF OwnViewIsExact
<1>6. PageIsComplete'
  BY <1>2, <1>3 DEF PageIsComplete
<1> QED
  BY <1>1, <1>4, <1>5, <1>6

\* Reading the cursor: the view of the process that reads is exact.
LEMMA GetCursorKeeps ==
  ASSUME IInv, TypeOK', NEW p \in Process, GetCursor(p)
  PROVE  IInv'
<1> USE DEF IInv
<1>1. /\ pc[p] = "cursor"
      /\ pc'[p] = "list"
      /\ tick'[p].from = cursor.pos
      /\ tick'[p].token = tick[p].token
      /\ \A q \in Process \ {p} : pc'[q] = pc[q] /\ tick'[q] = tick[q]
      /\ UNCHANGED <<lease, appended, cursor, woken, late>>
  BY DEF GetCursor, TypeOK, Tick
<1>2. TokensIssued' /\ TokensUnique'
  BY <1>1 DEF TokensIssued, TokensUnique
<1>3. PageIsForward' /\ SaveIsHandled' /\ NoEventSkipped'
  BY <1>1 DEF PageIsForward, SaveIsHandled, NoEventSkipped
<1>4. \A q \in Process \ {p} : Holds(q)' => Holds(q)
  BY <1>1 DEF Holds, IsHeartbeatLeaseCurrent, NamesLease
<1>5. OwnViewIsExact'
  BY <1>1, <1>4 DEF OwnViewIsExact
<1>6. PageIsComplete'
  BY <1>1, <1>4 DEF PageIsComplete
<1> QED
  BY <1>2, <1>3, <1>5, <1>6

\* Listing: the page holds every material event up to its last one.
LEMMA ListEventsKeeps ==
  ASSUME IInv, TypeOK', NEW p \in Process, ListEvents(p)
  PROVE  IInv'
<1> USE DEF IInv
<1>1. PICK last \in appended \cup {NoEvent} :
        /\ pc[p] = "list"
        /\ IsPage(tick[p].from, last)
        /\ tick' = [tick EXCEPT ![p] =
                      [@ EXCEPT !.last = last,
                                !.events = Listed(tick[p].from, last) \cap Material]]
        /\ \/ pc' = [pc EXCEPT ![p] = "save"]
              /\ Listed(tick[p].from, last) \cap Material = {}
           \/ pc' = [pc EXCEPT ![p] = "wake"]
        /\ UNCHANGED <<lease, appended, cursor, woken, late>>
  BY DEF ListEvents, AfterListing
<1> DEFINE material == Listed(tick[p].from, last) \cap Material
<1>2. /\ pc'[p] \in {"wake", "save"}
      /\ pc'[p] = "save" => material = {}
      /\ tick'[p].last = last
      /\ tick'[p].from = tick[p].from
      /\ tick'[p].token = tick[p].token
      /\ tick'[p].events = material
      /\ \A q \in Process \ {p} : pc'[q] = pc[q] /\ tick'[q] = tick[q]
  <2> HIDE DEF material
  <2> QED  BY <1>1 DEF TypeOK, Tick, material
<1>3. last = NoEvent \/ (last \in appended /\ tick[p].from < last)
  BY <1>1 DEF IsPage, Listed
<1>4. material \subseteq appended \cap Material
  BY DEF Listed
<1>5. \A e \in appended \cap Material :
        tick[p].from < e /\ e <= last => e \in material
  BY DEF Listed
<1> HIDE DEF material
<1>6. TokensIssued' /\ TokensUnique'
  BY <1>1, <1>2 DEF TokensIssued, TokensUnique
<1>7. PageIsForward'
  BY <1>1, <1>2, <1>3, <1>4 DEF PageIsForward
<1>8. SaveIsHandled' /\ NoEventSkipped'
  BY <1>1, <1>2 DEF SaveIsHandled, NoEventSkipped
<1>9. \A q \in Process : Holds(q)' => Holds(q)
  BY <1>1, <1>2 DEF Holds, IsHeartbeatLeaseCurrent, NamesLease
<1>10. OwnViewIsExact'
  BY <1>1, <1>2, <1>9 DEF OwnViewIsExact
<1>11. PageIsComplete'
  BY <1>1, <1>2, <1>5, <1>9 DEF PageIsComplete
<1> QED
  BY <1>6, <1>7, <1>8, <1>10, <1>11

\* Waking: the page's material events become handled.
LEMMA WakeKeeps ==
  ASSUME IInv, TypeOK', NEW p \in Process, Wake(p)
  PROVE  IInv'
<1> USE DEF IInv
<1>1. /\ pc[p] = "wake"
      /\ pc'[p] = "save"
      /\ \A q \in Process \ {p} : pc'[q] = pc[q]
      /\ woken' = woken \cup tick[p].events
      /\ UNCHANGED <<lease, appended, cursor, tick, late>>
  BY DEF Wake, TypeOK
<1>2. TokensIssued' /\ TokensUnique' /\ PageIsForward'
  BY <1>1 DEF TokensIssued, TokensUnique, PageIsForward
<1>3. SaveIsHandled' /\ NoEventSkipped'
  BY <1>1 DEF SaveIsHandled, NoEventSkipped
<1>4. \A q \in Process : Holds(q)' => Holds(q)
  BY <1>1 DEF Holds, IsHeartbeatLeaseCurrent, NamesLease
<1>5. OwnViewIsExact'
  BY <1>1, <1>4 DEF OwnViewIsExact
<1>6. PageIsComplete'
  BY <1>1, <1>4 DEF PageIsComplete
<1> QED
  BY <1>2, <1>3, <1>5, <1>6

\* Writing the cursor: what lies at or behind its new position is either
\* behind the old one or on the owner's page, which is handled; no other
\* process owns a view that the write could make stale.
LEMMA SaveCursorKeeps ==
  ASSUME IInv, TypeOK', NEW p \in Process, SaveCursor(p)
  PROVE  IInv'
<1> USE DEF IInv
<1>1. /\ pc[p] = "save"
      /\ pc'[p] = "release"
      /\ \A q \in Process \ {p} : pc'[q] = pc[q]
      /\ UNCHANGED <<lease, appended, tick, woken, late>>
  BY DEF SaveCursor, TypeOK
<1>2. \A q \in Process : Holds(q)' => Holds(q)
  BY <1>1 DEF Holds, IsHeartbeatLeaseCurrent, NamesLease
<1>3. TokensUnique' /\ SaveIsHandled'
  BY <1>1 DEF TokensUnique, SaveIsHandled
<1>4. PageIsComplete'
  BY <1>1, <1>2 DEF PageIsComplete
<1>5. CASE cursor' = cursor
  <2>1. TokensIssued' /\ PageIsForward' /\ NoEventSkipped'
    BY <1>1, <1>5 DEF TokensIssued, PageIsForward, NoEventSkipped
  <2>2. OwnViewIsExact'
    BY <1>1, <1>2, <1>5 DEF OwnViewIsExact
  <2> QED
    BY <1>3, <1>4, <2>1, <2>2
<1>6. CASE MaySaveCursor(p)
  <2>1. /\ cursor'.pos = IF tick[p].last = NoEvent THEN cursor.pos
                                                   ELSE tick[p].last
        /\ cursor'.token = tick[p].token
    BY <1>6 DEF SaveCursor
  <2>2. Holds(p)
    BY <1>1, <1>6 DEF Holds, MaySaveCursor
  <2>3. tick[p].from = cursor.pos
    BY <1>1, <2>2 DEF OwnViewIsExact
  <2>4. TokensIssued'
    BY <1>1, <2>1 DEF TokensIssued
  <2>5. PageIsForward'
    BY <1>1, <2>1 DEF PageIsForward
  <2>6. \A q \in Process : Holds(q)' => q = p
    BY <1>2, <2>2, OneOwner
  <2>7. OwnViewIsExact'
    BY <1>1, <2>6 DEF OwnViewIsExact
  <2>8. NoEventSkipped'
    <3> SUFFICES ASSUME NEW e \in appended \cap Material, e <= cursor'.pos
                 PROVE  e \in woken \cup late
      BY <1>1 DEF NoEventSkipped
    <3>1. /\ e \in Nat
          /\ cursor.pos \in Nat
          /\ tick[p].last \in Nat
      BY DEF TypeOK, Tick
    <3>2. CASE e <= cursor.pos
      BY <3>2 DEF NoEventSkipped
    <3>3. CASE cursor.pos < e
      <4>1. tick[p].from < e /\ e <= tick[p].last
        BY <2>1, <2>3, <3>1, <3>3
      <4>2. e \in tick[p].events \cup late
        BY <1>1, <2>2, <4>1 DEF PageIsComplete
      <4> QED
        BY <1>1, <4>2 DEF SaveIsHandled
    <3> QED
      BY <3>1, <3>2, <3>3
  <2> QED
    BY <1>3, <1>4, <2>4, <2>5, <2>7, <2>8
<1> QED
  BY <1>5, <1>6 DEF SaveCursor

\* Appending: an event behind the cursor or behind the owner's page is late.
LEMMA AppendKeeps ==
  ASSUME IInv, TypeOK', NEW e \in Events, Append(e)
  PROVE  IInv'
<1> USE DEF IInv
<1>1. /\ appended' = appended \cup {e}
      /\ late' = late \/ late' = late \cup {e}
      /\ UNCHANGED <<lease, cursor, pc, tick, woken>>
  BY DEF Append
<1>2. e <= cursor.pos => e \in late'
  BY DEF Append
<1>3. \A p \in Process :
        Holds(p) /\ pc[p] \in {"wake", "save"} /\ e < tick[p].last => e \in late'
  BY DEF Append
<1>4. \A q \in Process : Holds(q)' <=> Holds(q)
  BY <1>1 DEF Holds, IsHeartbeatLeaseCurrent, NamesLease
<1>5. TokensIssued' /\ TokensUnique' /\ PageIsForward' /\ SaveIsHandled'
  BY <1>1 DEF TokensIssued, TokensUnique, PageIsForward, SaveIsHandled
<1>6. OwnViewIsExact'
  BY <1>1, <1>4 DEF OwnViewIsExact
<1>7. NoEventSkipped'
  BY <1>1, <1>2 DEF NoEventSkipped
<1>8. PageIsComplete'
  <2> SUFFICES ASSUME NEW p \in Process, Holds(p), pc[p] \in {"wake", "save"},
                      NEW f \in appended' \cap Material,
                      tick[p].from < f, f <= tick[p].last
               PROVE  f \in tick[p].events \cup late'
    BY <1>1, <1>4 DEF PageIsComplete
  <2>1. CASE f \in appended
    BY <1>1, <2>1 DEF PageIsComplete
  <2>2. CASE f = e /\ f \notin appended
    <3>1. tick[p].last \in appended \cup {NoEvent}
      BY DEF PageIsForward
    <3>2. f \in Nat \ {0} /\ tick[p].last \in Nat
      BY DEF TypeOK, Tick
    <3>3. f < tick[p].last
      BY <2>2, <3>1, <3>2 DEF NoEvent
    <3> QED
      BY <1>3, <2>2, <3>3
  <2> QED
    BY <1>1, <2>1, <2>2
<1> QED
  BY <1>5, <1>6, <1>7, <1>8

\* IInv is inductive.
LEMMA InvariantStep == IInv /\ [Next]_vars => IInv'
<1> SUFFICES ASSUME IInv, [Next]_vars PROVE IInv'
  OBVIOUS
<1>1. TypeOK
  BY DEF IInv
<1>2. TypeOK'
  BY TypeStep DEF IInv
<1>3. ASSUME NEW p \in Process, Step(p) PROVE IInv'
  <2>1. CASE Release(p)
    <3>1. Withdraws
      BY <1>1, <2>1
      DEF Release, ReleaseHeartbeatLease, NamesLease, TypeOK, LeaseRow, Withdraws
    <3> QED
      BY <1>2, <3>1, WithdrawKeeps
  <2> QED
    BY <1>2, <1>3, <2>1, ClaimKeeps, GetCursorKeeps, ListEventsKeeps, WakeKeeps,
       SaveCursorKeeps DEF Step, Proceed
<1>4. ASSUME NEW p \in Process, Throw(p) PROVE IInv'
  <2>1. Withdraws
    BY <1>1, <1>4 DEF Throw, TypeOK, Withdraws
  <2> QED
    BY <1>2, <2>1, WithdrawKeeps
<1>5. ASSUME NEW p \in Process, Crash(p) PROVE IInv'
  <2>1. Withdraws
    BY <1>1, <1>5 DEF Crash, TypeOK, Withdraws
  <2> QED
    BY <1>2, <2>1, WithdrawKeeps
<1>6. ASSUME ExpireLease, UNCHANGED <<appended, cursor, pc, tick, woken, late>>
      PROVE  IInv'
  <2>1. Withdraws
    BY <1>1, <1>6 DEF ExpireLease, TypeOK, LeaseRow, Withdraws
  <2> QED
    BY <1>2, <2>1, WithdrawKeeps
<1>7. ASSUME NEW p \in Process, Overrun(p) PROVE IInv'
  BY <1>6, <1>7 DEF Overrun
<1>8. CASE ExpireAbandoned
  BY <1>6, <1>8 DEF ExpireAbandoned
<1>9. ASSUME NEW e \in Events, Append(e) PROVE IInv'
  BY <1>2, <1>9, AppendKeeps
<1>10. CASE UNCHANGED vars
  <2>1. Withdraws
    BY <1>10 DEF vars, Withdraws
  <2> QED
    BY <1>2, <2>1, WithdrawKeeps
<1> QED
  BY <1>3, <1>4, <1>5, <1>7, <1>8, <1>9, <1>10 DEF Next

\* IInv holds in every reachable state.
LEMMA InvariantHolds == Spec => []IInv
<1>1. Init => IInv
  <2> SUFFICES ASSUME Init PROVE IInv
    OBVIOUS
  <2>1. TypeOK
    BY DEF Init, LeaseInit, TypeOK, LeaseRow, Tick, NoTick, Stage, NoEvent
  <2>2. /\ cursor.token = 0 /\ lease.token = 0
        /\ cursor.pos = NoEvent /\ appended = {}
        /\ \A p \in Process : pc[p] = "idle"
    BY DEF Init, LeaseInit
  <2>3. /\ TokensIssued /\ TokensUnique /\ PageIsForward /\ OwnViewIsExact
        /\ PageIsComplete /\ SaveIsHandled /\ NoEventSkipped
    BY <2>2 DEF TokensIssued, TokensUnique, PageIsForward, OwnViewIsExact,
                PageIsComplete, SaveIsHandled, NoEventSkipped, Holds
  <2> QED
    BY <2>1, <2>3 DEF IInv
<1> QED
  BY <1>1, InvariantStep, PTL DEF Spec

-----------------------------------------------------------------------------
(* The safety properties. *)

\* No material event is passed unhandled unless it was appended behind the
\* listing, and the lease owner's view of the cursor is exact.
THEOREM NothingSkipped == Spec => [](NoEventSkipped /\ OwnViewIsExact)
<1>1. IInv => NoEventSkipped /\ OwnViewIsExact
  BY DEF IInv
<1> QED
  BY <1>1, InvariantHolds, PTL

\* Which actions write the cursor: only a save of the lease owner does.
LEMMA CursorWrites ==
  ASSUME TypeOK, [Next]_vars, cursor' # cursor
  PROVE  \E p \in Process : SaveCursor(p) /\ MaySaveCursor(p)
<1>1. ASSUME NEW p \in Process, SaveCursor(p) PROVE MaySaveCursor(p)
  BY <1>1 DEF SaveCursor
<1>2. \E p \in Process : SaveCursor(p)
  BY DEF Next, Step, Proceed, Claim, GetCursor, ListEvents, Wake, Release, Throw, Crash,
         Overrun, Append, ExpireAbandoned, vars
<1> QED
  BY <1>1, <1>2

\* Neither the position nor the token of the heartbeat cursor ever goes back.
THEOREM CursorMonotone == Spec => CursorNeverRegresses
<1> DEFINE Forward == cursor'.pos >= cursor.pos /\ cursor'.token >= cursor.token
<1>1. IInv /\ [Next]_vars => [Forward]_vars
  <2> SUFFICES ASSUME IInv, [Next]_vars PROVE Forward
    OBVIOUS
  <2>1. TypeOK
    BY DEF IInv
  <2>2. cursor.pos \in Nat /\ cursor.token \in Nat
    BY <2>1 DEF TypeOK
  <2>3. CASE cursor' = cursor
    BY <2>2, <2>3
  <2>4. CASE cursor' # cursor
    <3>1. PICK p \in Process : SaveCursor(p) /\ MaySaveCursor(p)
      BY <2>1, <2>4, CursorWrites
    <3>2. /\ cursor'.pos = IF tick[p].last = NoEvent THEN cursor.pos
                                                     ELSE tick[p].last
          /\ cursor'.token = tick[p].token
      BY <3>1 DEF SaveCursor
    <3> QED
      BY <2>2, <3>1, <3>2 DEF MaySaveCursor
  <2> QED
    BY <2>3, <2>4
<1> QED
  BY <1>1, InvariantHolds, PTL DEF Spec, CursorNeverRegresses

\* A process whose token has been overtaken changes neither lease nor cursor.
THEOREM StaleHolder == Spec => StaleHolderPowerless
<1> DEFINE Powerless ==
      \A p \in Process :
         /\ pc[p] \notin {"idle"}
         /\ tick[p].token < lease.token
         /\ pc'[p] # pc[p]
         => UNCHANGED <<lease, cursor>>
<1>1. IInv /\ [Next]_vars => [Powerless]_vars
  <2> SUFFICES ASSUME IInv, [Next]_vars, NEW p \in Process,
                      pc[p] # "idle", tick[p].token < lease.token, pc'[p] # pc[p]
               PROVE  UNCHANGED <<lease, cursor>>
    OBVIOUS
  <2>1. TypeOK
    BY DEF IInv
  <2>2. tick[p].token \in Nat /\ lease.token \in Nat
    BY <2>1 DEF TypeOK, Tick, LeaseRow
  <2>3. tick[p].token # lease.token
    BY <2>2
  <2>4. GetCursor(p) \/ ListEvents(p) \/ Wake(p) \/ SaveCursor(p) \/ Release(p)
        \/ Throw(p) \/ Crash(p)
    <3>1. ASSUME NEW q \in Process,
                 Claim(q) \/ GetCursor(q) \/ ListEvents(q) \/ Wake(q)
                          \/ SaveCursor(q) \/ Release(q) \/ Throw(q) \/ Crash(q)
          PROVE  q = p
      BY <2>1, <3>1 DEF Claim, GetCursor, ListEvents, Wake, SaveCursor, Release,
                        Throw, Crash, TypeOK
    <3>2. \E q \in Process :
            Claim(q) \/ GetCursor(q) \/ ListEvents(q) \/ Wake(q)
                     \/ SaveCursor(q) \/ Release(q) \/ Throw(q) \/ Crash(q)
      BY DEF Next, Step, Proceed, Overrun, Append, ExpireAbandoned, vars
    <3>3. ~Claim(p)
      BY DEF Claim
    <3> QED
      BY <3>1, <3>2, <3>3
  <2>5. SaveCursor(p) => UNCHANGED <<lease, cursor>>
    BY <2>3 DEF SaveCursor, MaySaveCursor, IsHeartbeatLeaseCurrent, NamesLease
  <2>6. Release(p) => UNCHANGED <<lease, cursor>>
    BY <2>1, <2>3 DEF Release, ReleaseHeartbeatLease, NamesLease, TypeOK, LeaseRow
  <2> QED
    BY <2>4, <2>5, <2>6 DEF GetCursor, ListEvents, Wake, Throw, Crash
<1> QED
  BY <1>1, InvariantHolds, PTL DEF Spec, StaleHolderPowerless

-----------------------------------------------------------------------------
(* Refinement: an EventConsumer. *)

\* Appending to the log is appending for the consumer; only an event that is not
\* the last can be behind the cursor or a page.
LEMMA AppendIsAppend ==
  ASSUME IInv, NEW e \in Events, Append(e)
  PROVE  Consumer!Append(e)
<1>1. /\ e \in Nat \ {0}
      /\ appended \subseteq Nat
      /\ cursor.pos \in Nat
  BY DEF IInv, TypeOK
<1>2. /\ appended' = appended \cup {e}
      /\ UNCHANGED <<cursor, woken>>
  BY DEF Append
<1>3. CASE late' = late \cup {e} /\ ~Consumer!AtEnd(e)
  BY <1>2, <1>3 DEF Consumer!Append
<1>4. CASE Consumer!AtEnd(e)
  <2>1. ASSUME NEW f \in appended \cup {NoEvent} PROVE ~(e <= f) /\ ~(e < f)
    BY <1>1, <1>4 DEF NoEvent, Consumer!AtEnd
  <2>2. /\ cursor.pos \in appended \cup {NoEvent}
        /\ \A p \in Process : pc[p] \in {"wake", "save"} =>
              tick[p].last \in appended \cup {NoEvent}
    BY DEF IInv, PageIsForward
  <2>3. late' = late
    BY <2>1, <2>2 DEF Append
  <2>4. cursor.pos < e
    BY <1>1, <2>1, <2>2
  <2> QED
    BY <1>2, <2>3, <2>4 DEF Consumer!Append
<1>5. CASE late' = late /\ ~(e <= cursor.pos)
  BY <1>1, <1>2, <1>5 DEF Consumer!Append
<1> QED
  BY <1>3, <1>4, <1>5 DEF Append

\* One step of the heartbeat is a step of the consumer or leaves it alone.
LEMMA ConsumerStep ==
  ASSUME IInv, IInv', Next
  PROVE  Consumer!Next \/ UNCHANGED Consumer!vars
<1> USE DEF Consumer!vars
<1>1. ASSUME NEW e \in Events, Append(e) PROVE Consumer!Next
  BY <1>1, AppendIsAppend DEF Consumer!Next
<1>2. ASSUME NEW p \in Process, Wake(p) PROVE Consumer!Next
  <2>1. tick[p].events \in SUBSET (appended \cap Material)
    BY <1>2 DEF Wake, IInv, PageIsForward
  <2>2. Consumer!Handle(tick[p].events)
    BY <1>2 DEF Wake, Consumer!Handle
  <2> QED
    BY <2>1, <2>2 DEF Consumer!Next
<1>3. ASSUME NEW p \in Process, SaveCursor(p)
      PROVE  Consumer!Next \/ UNCHANGED Consumer!vars
  <2>1. UNCHANGED <<appended, woken, late>>
    BY <1>3 DEF SaveCursor
  <2>2. CASE cursor'.pos = cursor.pos
    BY <2>1, <2>2
  <2>3. CASE cursor'.pos # cursor.pos
    <3>1. /\ pc[p] = "save"
          /\ MaySaveCursor(p)
          /\ tick[p].last # NoEvent
          /\ cursor'.pos = tick[p].last
      BY <1>3, <2>3 DEF SaveCursor
    <3>2. Holds(p)
      BY <3>1 DEF Holds, MaySaveCursor
    <3>3. cursor.pos < tick[p].last /\ tick[p].last \in appended
      BY <3>1, <3>2 DEF IInv, OwnViewIsExact, PageIsForward
    <3>4. \A e \in appended \cap Material : e <= tick[p].last => e \in woken \cup late
      BY <2>1, <3>1 DEF IInv, NoEventSkipped
    <3>5. Consumer!Advance(tick[p].last)
      BY <2>1, <3>1, <3>3, <3>4 DEF Consumer!Advance
    <3> QED
      BY <3>3, <3>5 DEF Consumer!Next
  <2> QED
    BY <2>2, <2>3
<1> QED
  BY <1>1, <1>2, <1>3
  DEF Next, Step, Proceed, Claim, GetCursor, ListEvents, Release, Throw, Crash, Overrun,
      ExpireAbandoned

\* The heartbeat implements the at-least-once consumer: takeovers, stale workers,
\* exceptions and crashes are all stutters of it.
THEOREM Refinement == Spec => ConsumerSpec
<1>1. Init => Consumer!Init
  BY DEF Init, Consumer!Init, NoEvent
<1>2. IInv /\ IInv' /\ [Next]_vars => [Consumer!Next]_(Consumer!vars)
  <2>1. UNCHANGED vars => UNCHANGED Consumer!vars
    BY DEF vars, Consumer!vars
  <2> QED
    BY <2>1, ConsumerStep
<1> QED
  BY <1>1, <1>2, InvariantHolds, PTL DEF Spec, ConsumerSpec, Consumer!Spec

==============================================================================

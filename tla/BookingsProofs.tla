--------------------------- MODULE BookingsProofs ---------------------------
(***************************************************************************)
(* What hangs on the booking handlers of Reservations: the synchronisation *)
(* with Google Calendar behind them, and the listing of free slots before  *)
(* them.  Both implement Reservations, so what was proved of the booking   *)
(* handlers alone holds of the endpoints with either.                      *)
(***************************************************************************)
EXTENDS MCBookings, ReservationsProofs, SequenceTheorems

-----------------------------------------------------------------------------
(* The calendar *)

LEMMA SyncImplementsInit == SyncInit => Init
BY DEF SyncInit

\* A step of a handler is a step of Reservations, the answer of an endpoint is
\* its Reply, and whatever talks to Google or to the mapping table stutters.
LEMMA SyncImplementsNext == [SyncNext]_allVars => [Next]_vars
<1> SUFFICES ASSUME [SyncNext]_allVars PROVE [Next]_vars
  OBVIOUS
<1>1. ASSUME NEW w \in Worker, HandlerStep(w) PROVE Next
  BY <1>1 DEF Next
<1>2. ASSUME NEW w \in Worker, SyncStep(w) PROVE UNCHANGED vars
  BY <1>2 DEF SyncStep, PushBegin, PushRead, PushToken, PushPost, PushPostFails,
     WithdrawBegin, WithdrawFind, WithdrawToken, WithdrawDelete, WithdrawDeleteFails,
     MarkSelect, MarkWrite, SyncRequestFails
<1>3. ASSUME NEW w \in Worker, Respond(w) PROVE Next
  BY <1>3 DEF Respond, Next
<1>4. Integrate => UNCHANGED vars
  BY DEF Integrate
<1>5. UNCHANGED allVars => UNCHANGED vars
  BY DEF allVars
<1>6. QED
  BY <1>1, <1>2, <1>3, <1>4, <1>5 DEF SyncNext

\* No synchronisation, and no failure of one, changes what the booking handlers
\* do: the endpoints with the calendar behind them implement Reservations.
THEOREM SyncImplementsReservations == SyncSpec => ImplementsReservations
BY SyncImplementsInit, SyncImplementsNext, PTL DEF SyncSpec, Spec, ImplementsReservations

\* So the re-check of confirm_reservation protects the calendar too: two
\* overlapping reservations are both confirmed only if a withdrawn one was.
THEOREM SyncConfirmSafe == SyncSpec => []DoubleConfirmNeedsResurrection
BY SyncImplementsReservations, ConfirmSafe, PTL DEF ImplementsReservations

-----------------------------------------------------------------------------
(* No event is lost sight of                                               *)

\* A worker whose event was created and whose mapping row is not written yet.
Holding(w) == sync[w].stage \in {"select", "write"} /\ sync[w].mark = "synced"

\* A worker about to delete an event that it found in a row.
Withdrawing(w) == sync[w].stage \in {"delToken", "delete"}

\* The booking handler of a worker that synchronises has its row and waits.
Resting ==
    \A w \in Worker : sync[w].stage # "off" =>
        handler[w].stage = "reply" /\ Target(w) \in Reservation

\* What a worker holds lives, is in no row yet, and nobody else has it.
HeldAlone ==
    \A w \in Worker : Holding(w) =>
        /\ sync[w].event \in events
        /\ owner[sync[w].event] = Target(w)
        /\ \A r \in Reservation : \A i \in DOMAIN rows[r] : rows[r][i].event # sync[w].event
        /\ \A v \in Worker \ {w} : Holding(v) \/ Withdrawing(v) => sync[v].event # sync[w].event

\* Events that are named, found in a row or alive were issued; a row names
\* events of its own reservation only.
OnlyIssued ==
    /\ \A r \in Reservation : \A i \in DOMAIN rows[r] :
          rows[r][i].event # NoEvent => owner[rows[r][i].event] = r
    /\ \A w \in Worker : Withdrawing(w) => sync[w].event \in EventId /\ Issued(sync[w].event)
    /\ \A e \in events : Issued(e)

\* The row a worker is about to write is one of those there were, and it knows
\* what to mark it as.
Pointing ==
    \A w \in Worker :
        /\ sync[w].stage \in {"select", "write"} => sync[w].mark # "none"
        /\ sync[w].stage = "write" => sync[w].row <= Len(rows[Target(w)])

SyncInv ==
    SyncTypeOK /\ Resting /\ HeldAlone /\ OnlyIssued /\ Pointing /\ LiveEventsAccounted

LEMMA SyncInvInit == SyncInit => SyncInv
<1> SUFFICES ASSUME SyncInit PROVE SyncInv
  OBVIOUS
<1>1. \A r \in Reservation : rows[r] = <<>> /\ DOMAIN rows[r] = {}
  BY DEF SyncInit
<1>2. \A w \in Worker : sync[w] = SyncOff
  BY DEF SyncInit
<1>3. SyncOff \in SyncState
  BY DEF SyncOff, SyncState, SyncStage, Mark
<1>4. SyncTypeOK
  BY <1>3 DEF SyncInit, SyncTypeOK
<1>5. \A w \in Worker : sync[w].stage = "off"
  BY <1>2 DEF SyncOff
<1>6. Resting /\ HeldAlone /\ Pointing
  BY <1>5 DEF Resting, HeldAlone, Pointing, Holding
<1>7. OnlyIssued /\ LiveEventsAccounted
  BY <1>1, <1>5 DEF SyncInit, OnlyIssued, Withdrawing, LiveEventsAccounted, EventStoredOnce
<1> QED BY <1>4, <1>6, <1>7 DEF SyncInv

\* A worker that moves on without writing anything: it holds an event only if
\* it held it before, and withdraws one that it did before or that a row names.
LEMMA TalkKeeps ==
  ASSUME SyncInv, NEW w \in Worker, NEW s \in SyncState,
         UNCHANGED <<vars, rows, events, owner, untracked>>, connected' = connected,
         sync' = [sync EXCEPT ![w] = s],
         s.stage # "off" => handler[w].stage = "reply" /\ Target(w) \in Reservation,
         s.stage \in {"select", "write"} /\ s.mark = "synced" =>
             Holding(w) /\ s.event = sync[w].event,
         s.stage \in {"delToken", "delete"} =>
             \/ Withdrawing(w) /\ s.event = sync[w].event
             \/ /\ s.event # NoEvent
                /\ \E r \in Reservation : \E i \in DOMAIN rows[r] : rows[r][i].event = s.event,
         s.stage \in {"select", "write"} => s.mark # "none",
         s.stage = "write" => s.row <= Len(rows[Target(w)])
  PROVE  SyncInv'
<1> USE DEF SyncInv, SyncTypeOK
<1>1. /\ sync'[w] = s
      /\ \A v \in Worker \ {w} : sync'[v] = sync[v]
      /\ sync' \in [Worker -> SyncState]
  OBVIOUS
<1>2. \A v \in Worker : handler'[v] = handler[v] /\ Target(v)' = Target(v)
  BY DEF vars, Target
<1>3. SyncTypeOK'
  BY <1>1 DEF vars
<1>4. Resting'
  BY <1>1, <1>2 DEF Resting
<1>5. \A v \in Worker : Holding(v)' => Holding(v) /\ sync'[v].event = sync[v].event
  BY <1>1 DEF Holding
<1>6. \A v \in Worker : Withdrawing(v)' =>
         \/ Withdrawing(v) /\ sync'[v].event = sync[v].event
         \/ /\ sync'[v].event # NoEvent
            /\ \E r \in Reservation : \E i \in DOMAIN rows[r] : rows[r][i].event = sync'[v].event
  BY <1>1 DEF Withdrawing
<1>7. HeldAlone'
  <2> SUFFICES ASSUME NEW v \in Worker, Holding(v)'
               PROVE  /\ sync'[v].event \in events
                      /\ owner[sync'[v].event] = Target(v)
                      /\ \A r \in Reservation : \A i \in DOMAIN rows[r] :
                            rows[r][i].event # sync'[v].event
                      /\ \A u \in Worker \ {v} : Holding(u)' \/ Withdrawing(u)' =>
                            sync'[u].event # sync'[v].event
    BY <1>2 DEF HeldAlone
  <2>1. Holding(v) /\ sync'[v].event = sync[v].event
    BY <1>5
  <2>2. \A u \in Worker \ {v} : Holding(u)' \/ Withdrawing(u)' => sync'[u].event # sync'[v].event
    BY <2>1, <1>5, <1>6 DEF HeldAlone
  <2> QED BY <2>1, <2>2 DEF HeldAlone
<1>8. OnlyIssued'
  <2>1. \A v \in Worker : Withdrawing(v)' => sync'[v].event \in EventId /\ Issued(sync'[v].event)
    <3> SUFFICES ASSUME NEW v \in Worker, Withdrawing(v)'
                 PROVE  sync'[v].event \in EventId /\ Issued(sync'[v].event)
      OBVIOUS
    <3>1. CASE Withdrawing(v) /\ sync'[v].event = sync[v].event
      BY <3>1 DEF OnlyIssued
    <3>2. CASE /\ sync'[v].event # NoEvent
               /\ \E r \in Reservation : \E i \in DOMAIN rows[r] : rows[r][i].event = sync'[v].event
      <4>1. sync'[v].event \in EventId
        BY <3>2, <1>1 DEF SyncState
      <4> QED BY <4>1, <3>2, NoReservationAssumption DEF OnlyIssued, Issued
    <3> QED BY <3>1, <3>2, <1>6
  <2> QED BY <2>1 DEF OnlyIssued, Issued
<1>9. Pointing'
  BY <1>1, <1>2 DEF Pointing
<1>10. LiveEventsAccounted'
  BY DEF LiveEventsAccounted, EventStoredOnce
<1> QED BY <1>3, <1>4, <1>7, <1>8, <1>9, <1>10

\* The booking handlers leave whoever synchronises alone.
LEMMA HandlerRests ==
  ASSUME TypeOK, SyncInv, NEW w \in Worker, HandlerStep(w)
  PROVE  \A v \in Worker : sync[v].stage # "off" =>
            handler'[v].stage = "reply" /\ Target(v)' = Target(v)
<1>1. \A v \in Worker : handler[v].stage = "reply" =>
         handler'[v].stage = "reply" /\ handler'[v].target = handler[v].target
  <2>1. ASSUME NEW r \in Reservation, CreateInsert(w, r)
        PROVE  \A v \in Worker : handler[v].stage = "reply" =>
                  handler'[v].stage = "reply" /\ handler'[v].target = handler[v].target
    BY <2>1, InsertFrame DEF CreateInsert, At
  <2>2. CASE ~\E r \in Reservation : CreateInsert(w, r)
    <3>1. handler[w].stage # "reply"
      <4>1. CASE \/ \E s \in Span, p \in Phone : CreateBegin(w, s, p)
                 \/ \E r \in Reservation : ConfirmRead(w, r) \/ RejectRead(w, r) \/ CancelRead(w, r)
        <5>1. handler[w] = Idle
          BY <4>1 DEF CreateBegin, ConfirmRead, RejectRead, CancelRead
        <5>2. Idle.stage = "idle"
          BY DEF Idle
        <5> QED BY <5>1, <5>2
      <4>2. CASE CreateCheck(w) \/ CreateFindCustomer(w) \/ CreateNewCustomer(w) \/ ConfirmCheck(w)
        BY <4>2 DEF CreateCheck, CreateFindCustomer, CreateNewCustomer, ConfirmCheck, At
      <4>3. CASE ConfirmWrite(w) \/ RejectWrite(w) \/ CancelWrite(w) \/ RequestFails(w)
        BY <4>3 DEF ConfirmWrite, RejectWrite, CancelWrite, RequestFails, At
      <4> QED BY <2>2, <4>1, <4>2, <4>3 DEF HandlerStep
    <3>2. \A v \in Worker \ {w} : handler'[v] = handler[v]
      <4>1. ASSUME NEW s \in Span, NEW p \in Phone, CreateBegin(w, s, p)
            PROVE  \A v \in Worker \ {w} : handler'[v] = handler[v]
        BY <4>1 DEF CreateBegin, TypeOK
      <4>2. CASE CreateCheck(w) \/ CreateFindCustomer(w) \/ CreateNewCustomer(w) \/ ConfirmCheck(w)
        BY <4>2 DEF CreateCheck, CreateFindCustomer, CreateNewCustomer, ConfirmCheck, Goto,
           Finish, TypeOK
      <4>3. ASSUME NEW r \in Reservation, ConfirmRead(w, r) \/ RejectRead(w, r) \/ CancelRead(w, r)
            PROVE  \A v \in Worker \ {w} : handler'[v] = handler[v]
        BY <4>3 DEF ConfirmRead, RejectRead, CancelRead, Start, TypeOK
      <4>4. CASE ConfirmWrite(w) \/ RejectWrite(w) \/ CancelWrite(w) \/ RequestFails(w)
        BY <4>4 DEF ConfirmWrite, RejectWrite, CancelWrite, RequestFails, Goto, Finish, TypeOK
      <4> QED BY <2>2, <4>1, <4>2, <4>3, <4>4 DEF HandlerStep
    <3> QED BY <3>1, <3>2
  <2> QED BY <2>1, <2>2
<1> QED BY <1>1 DEF SyncInv, Resting, Target

LEMMA HandlerKeeps ==
  ASSUME TypeOK, SyncInv, NEW w \in Worker, HandlerStep(w), UNCHANGED syncVars
  PROVE  SyncInv'
<1>1. \A v \in Worker : sync[v].stage # "off" =>
         handler'[v].stage = "reply" /\ Target(v)' = Target(v)
  BY HandlerRests
<1>2. UNCHANGED <<connected, rows, events, owner, untracked, sync>>
  BY DEF syncVars
<1>3. SyncTypeOK' /\ LiveEventsAccounted' /\ OnlyIssued'
  BY <1>2 DEF SyncInv, SyncTypeOK, LiveEventsAccounted, EventStoredOnce, OnlyIssued,
              Withdrawing, Issued
<1>4. Resting' /\ Pointing'
  BY <1>1, <1>2 DEF SyncInv, Resting, Pointing
<1>5. HeldAlone'
  BY <1>1, <1>2 DEF SyncInv, HeldAlone, Holding, Withdrawing
<1> QED BY <1>3, <1>4, <1>5 DEF SyncInv

LEMMA RespondKeeps ==
  ASSUME TypeOK, SyncInv, NEW w \in Worker, Respond(w)
  PROVE  SyncInv'
<1> USE DEF SyncInv, SyncTypeOK
<1>1. SyncOff \in SyncState
  BY DEF SyncOff, SyncState, SyncStage, Mark
<1>2. /\ sync'[w] = SyncOff /\ sync' \in [Worker -> SyncState]
      /\ \A v \in Worker \ {w} : sync'[v] = sync[v]
  BY <1>1 DEF Respond
<1>3. \A v \in Worker \ {w} : handler'[v] = handler[v] /\ Target(v)' = Target(v)
  BY FinishFrame DEF Respond, Reply, Target
<1>4. sync'[w].stage = "off"
  BY <1>2 DEF SyncOff
<1>5. UNCHANGED <<connected, rows, events, owner, untracked>>
  BY DEF Respond
<1>6. SyncTypeOK' /\ LiveEventsAccounted'
  BY <1>2, <1>5 DEF LiveEventsAccounted, EventStoredOnce
<1>7. Resting' /\ Pointing'
  BY <1>2, <1>3, <1>4, <1>5 DEF Resting, Pointing
<1>8. \A v \in Worker : Holding(v)' \/ Withdrawing(v)' => v # w
  BY <1>4 DEF Holding, Withdrawing
<1>9. OnlyIssued'
  BY <1>2, <1>5, <1>8 DEF OnlyIssued, Withdrawing, Issued
<1>10. HeldAlone'
  BY <1>2, <1>3, <1>5, <1>8 DEF HeldAlone, Holding, Withdrawing
<1> QED BY <1>6, <1>7, <1>9, <1>10

\* The POST: a new event is held, or lost sight of at once.
LEMMA PostKeeps ==
  ASSUME SyncInv, NEW w \in Worker, NEW e \in EventId, PushPost(w, e)
  PROVE  SyncInv'
<1> USE DEF SyncInv, SyncTypeOK
<1> DEFINE got == [sync[w] EXCEPT !.stage = "select", !.mark = "synced", !.event = e]
           lost == [sync[w] EXCEPT !.stage = "select", !.mark = "failed"]
<1>1. sync[w] \in SyncState /\ sync[w].stage = "post"
  BY DEF PushPost, SyncAt
<1>2. sync'[w] \in {got, lost} /\ \A v \in Worker \ {w} : sync'[v] = sync[v]
  BY DEF PushPost, GotoMark
<1>3. /\ got \in SyncState /\ got.stage = "select" /\ got.mark = "synced" /\ got.event = e
      /\ lost \in SyncState /\ lost.stage = "select" /\ lost.mark = "failed"
  BY <1>1 DEF SyncState, SyncStage, Mark
<1> HIDE DEF got, lost
<1>4. sync' \in [Worker -> SyncState]
  BY <1>2, <1>3 DEF PushPost, GotoMark
<1>5. /\ UNCHANGED <<handler, rows, connected>> /\ events' = events \cup {e}
      /\ owner' = [owner EXCEPT ![e] = Target(w)] /\ untracked' = untracked \cup {e}
  BY DEF PushPost, vars
<1>6. \A v \in Worker : Target(v)' = Target(v)
  BY <1>5 DEF Target
<1>7. Target(w) \in Reservation
  BY <1>1 DEF Resting
<1>8. /\ owner'[e] = Target(w)
      /\ \A f \in EventId \ {e} : owner'[f] = owner[f]
      /\ owner[e] = NoReservation
  BY <1>5 DEF PushPost, Issued
<1>9. \A r \in Reservation : \A i \in DOMAIN rows[r] :
         rows[r][i] \in Row /\ rows[r][i].event # e
  <2> SUFFICES ASSUME NEW r \in Reservation, NEW i \in DOMAIN rows[r]
               PROVE  rows[r][i] \in Row /\ rows[r][i].event # e
    OBVIOUS
  <2>1. rows[r] \in Seq(Row)
    OBVIOUS
  <2> QED BY <2>1, <1>8, EventAssumption, NoReservationAssumption DEF OnlyIssued
<1>10. \A v \in Worker : Holding(v) \/ Withdrawing(v) => sync[v].event \in EventId \ {e}
  <2>1. \A v \in Worker : Holding(v) => sync[v].event \in EventId \ {e}
    BY <1>8 DEF HeldAlone, OnlyIssued, Issued
  <2>2. \A v \in Worker : Withdrawing(v) => sync[v].event \in EventId \ {e}
    BY <1>8 DEF OnlyIssued, Issued
  <2> QED BY <2>1, <2>2
<1>11. /\ Holding(w)' => sync'[w].event = e
       /\ ~Withdrawing(w)' /\ ~Holding(w) /\ ~Withdrawing(w)
       /\ \A v \in Worker \ {w} : (Holding(v)' <=> Holding(v)) /\ (Withdrawing(v)' <=> Withdrawing(v))
  BY <1>1, <1>2, <1>3 DEF Holding, Withdrawing
<1>12. SyncTypeOK'
  BY <1>4, <1>5, <1>7
<1>13. Resting' /\ Pointing'
  BY <1>1, <1>2, <1>3, <1>5, <1>6 DEF Resting, Pointing
<1>14. HeldAlone'
  <2> SUFFICES ASSUME NEW v \in Worker, Holding(v)'
               PROVE  /\ sync'[v].event \in events'
                      /\ owner'[sync'[v].event] = Target(v)
                      /\ \A r \in Reservation : \A i \in DOMAIN rows[r] :
                            rows[r][i].event # sync'[v].event
                      /\ \A u \in Worker \ {v} : Holding(u)' \/ Withdrawing(u)' =>
                            sync'[u].event # sync'[v].event
    BY <1>5, <1>6 DEF HeldAlone
  <2>1. CASE v = w
    BY <2>1, <1>2, <1>5, <1>8, <1>9, <1>10, <1>11
  <2>2. CASE v # w
    BY <2>2, <1>2, <1>5, <1>8, <1>10, <1>11 DEF HeldAlone
  <2> QED BY <2>1, <2>2
<1>15. OnlyIssued'
  <2>1. \A r \in Reservation : \A i \in DOMAIN rows[r] :
           rows[r][i].event # NoEvent => owner'[rows[r][i].event] = r
    BY <1>8, <1>9 DEF OnlyIssued, Row
  <2>2. \A v \in Worker : Withdrawing(v)' =>
           sync'[v].event \in EventId /\ owner'[sync'[v].event] # NoReservation
    BY <1>2, <1>8, <1>10, <1>11 DEF OnlyIssued, Issued
  <2>3. \A f \in events' : Issued(f)'
    BY <1>5, <1>7, <1>8, NoReservationAssumption DEF OnlyIssued, Issued
  <2> QED BY <2>1, <2>2, <2>3, <1>5 DEF OnlyIssued, Issued
<1>16. LiveEventsAccounted'
  <2>1. EventStoredOnce'
    BY <1>5 DEF LiveEventsAccounted, EventStoredOnce
  <2> SUFFICES ASSUME NEW f \in events', f \notin untracked'
               PROVE  \E i \in DOMAIN rows[owner'[f]] : rows[owner'[f]][i].event = f
    BY <2>1, <1>5 DEF LiveEventsAccounted
  <2>2. f \in events /\ f \in EventId \ {e} /\ f \notin untracked
    BY <1>5
  <2> QED BY <2>2, <1>8 DEF LiveEventsAccounted
<1> QED BY <1>12, <1>13, <1>14, <1>15, <1>16

\* The deletion: nobody holds what was found in a row.
LEMMA DeleteKeeps ==
  ASSUME SyncInv, NEW w \in Worker, WithdrawDelete(w)
  PROVE  SyncInv'
<1> USE DEF SyncInv, SyncTypeOK
<1> DEFINE marks == [sync[w] EXCEPT !.stage = "select", !.mark = "cancelled"]
           ends == [sync[w] EXCEPT !.stage = "done"]
           e == sync[w].event
<1>1. sync[w] \in SyncState /\ sync[w].stage = "delete" /\ e \in events
  BY DEF WithdrawDelete, SyncAt
<1>2. sync'[w] \in {marks, ends} /\ \A v \in Worker \ {w} : sync'[v] = sync[v]
  BY DEF WithdrawDelete, GotoMark, SyncGoto
<1>3. /\ marks \in SyncState /\ marks.stage = "select" /\ marks.mark = "cancelled"
      /\ ends \in SyncState /\ ends.stage = "done"
  BY <1>1 DEF SyncState, SyncStage, Mark
<1> HIDE DEF marks, ends
<1>4. sync' \in [Worker -> SyncState]
  BY <1>2, <1>3 DEF WithdrawDelete, GotoMark, SyncGoto
<1>5. /\ UNCHANGED <<handler, rows, connected, owner>> /\ events' = events \ {e}
      /\ untracked' = untracked \ {e}
  BY DEF WithdrawDelete, vars
<1>6. \A v \in Worker : Target(v)' = Target(v)
  BY <1>5 DEF Target
<1>7. Withdrawing(w) /\ ~Holding(w)' /\ ~Withdrawing(w)'
  BY <1>1, <1>2, <1>3 DEF Holding, Withdrawing
<1>8. \A v \in Worker \ {w} : (Holding(v)' <=> Holding(v)) /\ (Withdrawing(v)' <=> Withdrawing(v))
  BY <1>2 DEF Holding, Withdrawing
<1>9. SyncTypeOK'
  BY <1>4, <1>5
<1>10. Resting' /\ Pointing'
  BY <1>1, <1>2, <1>3, <1>5, <1>6 DEF Resting, Pointing
<1>11. HeldAlone'
  BY <1>2, <1>5, <1>6, <1>7, <1>8 DEF HeldAlone
<1>12. OnlyIssued'
  BY <1>2, <1>5, <1>7, <1>8 DEF OnlyIssued, Issued
<1>13. LiveEventsAccounted'
  BY <1>5 DEF LiveEventsAccounted, EventStoredOnce
<1> QED BY <1>9, <1>10, <1>11, <1>12, <1>13

\* The row is written: what its writer held is named there from now on, and an
\* event that is overwritten while it lives is lost sight of.
LEMMA WriteKeeps ==
  ASSUME SyncInv, NEW w \in Worker, MarkWrite(w)
  PROVE  SyncInv'
<1> USE DEF SyncInv, SyncTypeOK
<1> DEFINE r0 == Target(w)
           n == sync[w].row
           old == IF n = 0 THEN NoEvent ELSE rows[r0][n].event
           new == Marked(old, w)
           m == IF n = 0 THEN Len(rows[r0]) + 1 ELSE n
           ends == [sync[w] EXCEPT !.stage = "done"]
<1>1. sync[w] \in SyncState /\ sync[w].stage = "write" /\ r0 \in Reservation
  BY DEF MarkWrite, SyncAt, Resting
<1>2. /\ n \in 0 .. Len(rows[r0]) /\ rows[r0] \in Seq(Row)
  BY <1>1 DEF Pointing, SyncState
<1>3. /\ n # 0 => n \in DOMAIN rows[r0]
      /\ old \in EventId \cup {NoEvent}
      /\ \A i \in DOMAIN rows[r0] : i = m => rows[r0][i].event = old
  <2>1. DOMAIN rows[r0] = 1 .. Len(rows[r0]) /\ Len(rows[r0]) \in Nat
    BY <1>2
  <2>2. n # 0 => n \in DOMAIN rows[r0]
    BY <1>2, <2>1
  <2>3. \A i \in DOMAIN rows[r0] : rows[r0][i] \in Row
    BY <1>2, <2>1
  <2>4. old \in EventId \cup {NoEvent}
    BY <2>2, <2>3 DEF Row
  <2>5. \A i \in DOMAIN rows[r0] : i = m => rows[r0][i].event = old
    BY <2>1
  <2> QED BY <2>2, <2>4, <2>5
<1>4. new = [sync |-> sync[w].mark, event |-> IF Holding(w) THEN sync[w].event ELSE old]
  BY <1>1 DEF Marked, Holding
<1>5. new \in Row
  BY <1>1, <1>3, <1>4 DEF Row, Pointing, SyncState, Mark
<1> HIDE DEF new
<1>6. /\ rows' = IF n = 0 THEN [rows EXCEPT ![r0] = Append(@, new)]
                 ELSE [rows EXCEPT ![r0][n] = new]
      /\ untracked' = (untracked \ {new.event})
                        \cup (IF sync[w].mark = "synced" THEN {old} \cap events ELSE {})
      /\ sync' = [sync EXCEPT ![w].stage = "done"]
      /\ UNCHANGED <<handler, connected, events, owner>>
  BY DEF MarkWrite, SyncGoto, vars, new
<1>7. /\ rows' \in [Reservation -> Seq(Row)]
      /\ \A r \in Reservation \ {r0} : rows'[r] = rows[r]
      /\ Len(rows'[r0]) >= Len(rows[r0])
      /\ DOMAIN rows'[r0] = DOMAIN rows[r0] \cup {m}
      /\ rows'[r0][m] = new
      /\ \A i \in DOMAIN rows[r0] \ {m} : rows'[r0][i] = rows[r0][i]
  <2>1. CASE n = 0
    <3>1. /\ rows' = [rows EXCEPT ![r0] = Append(rows[r0], new)]
          /\ m = Len(rows[r0]) + 1
      BY <2>1, <1>6
    <3>2. rows'[r0] = Append(rows[r0], new)
      BY <3>1, <1>1
    <3>3. /\ Append(rows[r0], new) \in Seq(Row)
          /\ Len(Append(rows[r0], new)) = Len(rows[r0]) + 1
          /\ \A i \in 1 .. Len(rows[r0]) : Append(rows[r0], new)[i] = rows[r0][i]
          /\ Append(rows[r0], new)[Len(rows[r0]) + 1] = new
      BY <1>2, <1>5
    <3> QED BY <3>1, <3>2, <3>3, <1>1, <1>2
  <2>2. CASE n # 0
    <3>1. /\ rows' = [rows EXCEPT ![r0] = [rows[r0] EXCEPT ![n] = new]] /\ m = n
      BY <2>2, <1>6
    <3>2. rows'[r0] = [rows[r0] EXCEPT ![n] = new]
      BY <3>1, <1>1
    <3>3. /\ [rows[r0] EXCEPT ![n] = new] \in Seq(Row)
          /\ Len([rows[r0] EXCEPT ![n] = new]) = Len(rows[r0])
      BY <2>2, <1>2, <1>3, <1>5
    <3> QED BY <2>2, <3>1, <3>2, <3>3, <1>1, <1>2, <1>3
  <2> QED BY <2>1, <2>2
<1>8. \A r \in Reservation : \A i \in DOMAIN rows'[r] :
         \/ r = r0 /\ i = m /\ rows'[r][i] = new
         \/ ~(r = r0 /\ i = m) /\ i \in DOMAIN rows[r] /\ rows'[r][i] = rows[r][i]
  BY <1>7
<1>9. old # NoEvent => /\ m \in DOMAIN rows[r0] /\ rows[r0][m].event = old
                       /\ owner[old] = r0
  BY <1>1, <1>3 DEF OnlyIssued
<1>10. new.event # NoEvent => owner[new.event] = r0
  BY <1>1, <1>4, <1>9 DEF HeldAlone
<1>11. /\ sync' \in [Worker -> SyncState] /\ sync'[w].stage = "done"
       /\ \A v \in Worker \ {w} : sync'[v] = sync[v]
  <2>1. ends \in SyncState /\ ends.stage = "done"
    BY <1>1 DEF SyncState, SyncStage
  <2> QED BY <2>1, <1>6
<1>12. \A v \in Worker : Target(v)' = Target(v)
  BY <1>6 DEF Target
<1>13. /\ ~Holding(w)' /\ ~Withdrawing(w)'
       /\ \A v \in Worker \ {w} : (Holding(v)' <=> Holding(v)) /\ (Withdrawing(v)' <=> Withdrawing(v))
  BY <1>11 DEF Holding, Withdrawing
<1> HIDE DEF r0, old, n, m
<1>14. SyncTypeOK'
  BY <1>6, <1>7, <1>11
<1>15. Resting'
  BY <1>1, <1>6, <1>11, <1>12 DEF Resting
<1>16. Pointing'
  <2> SUFFICES ASSUME NEW v \in Worker
               PROVE  /\ sync'[v].stage \in {"select", "write"} => sync'[v].mark # "none"
                      /\ sync'[v].stage = "write" => sync'[v].row <= Len(rows'[Target(v)])
    BY <1>12 DEF Pointing
  <2>1. CASE v = w
    BY <2>1, <1>11
  <2>2. CASE v # w /\ sync[v].stage = "write"
    <3>1. Target(v) \in Reservation /\ sync[v].row <= Len(rows[Target(v)])
      BY <2>2 DEF Resting, Pointing
    <3>2. Len(rows[Target(v)]) \in Nat /\ Len(rows'[Target(v)]) \in Nat /\ sync[v].row \in Nat
      BY <3>1, <1>7 DEF SyncState
    <3>3. Len(rows'[Target(v)]) >= Len(rows[Target(v)])
      <4>1. CASE Target(v) = r0
        BY <4>1, <1>7
      <4>2. CASE Target(v) # r0
        <5>1. rows'[Target(v)] = rows[Target(v)]
          BY <3>1, <4>2, <1>7
        <5> QED BY <3>2, <5>1
      <4> QED BY <4>1, <4>2
    <3>4. sync'[v] = sync[v] /\ sync[v].mark # "none"
      BY <2>2, <1>11 DEF Pointing
    <3> QED BY <3>1, <3>2, <3>3, <3>4
  <2>3. CASE v # w /\ sync[v].stage # "write"
    BY <2>3, <1>11 DEF Pointing
  <2> QED BY <2>1, <2>2, <2>3
<1>17. HeldAlone'
  <2> SUFFICES ASSUME NEW v \in Worker, Holding(v)'
               PROVE  /\ sync'[v].event \in events
                      /\ owner[sync'[v].event] = Target(v)
                      /\ \A r \in Reservation : \A i \in DOMAIN rows'[r] :
                            rows'[r][i].event # sync'[v].event
                      /\ \A u \in Worker \ {v} : Holding(u)' \/ Withdrawing(u)' =>
                            sync'[u].event # sync'[v].event
    BY <1>6, <1>12 DEF HeldAlone
  <2>1. v # w /\ Holding(v) /\ sync'[v] = sync[v]
    BY <1>11, <1>13
  <2>2. sync[v].event \in events /\ sync[v].event # NoEvent
    BY <2>1, EventAssumption DEF HeldAlone
  <2>3. new.event # sync[v].event
    BY <2>1, <2>2, <1>1, <1>4, <1>9 DEF HeldAlone
  <2>4. \A r \in Reservation : \A i \in DOMAIN rows'[r] : rows'[r][i].event # sync'[v].event
    BY <2>1, <2>3, <1>8 DEF HeldAlone
  <2> QED BY <2>1, <2>4, <1>11, <1>13 DEF HeldAlone
<1>18. OnlyIssued'
  <2>1. \A r \in Reservation : \A i \in DOMAIN rows'[r] :
           rows'[r][i].event # NoEvent => owner[rows'[r][i].event] = r
    BY <1>8, <1>10 DEF OnlyIssued
  <2> QED BY <2>1, <1>6, <1>11, <1>13 DEF OnlyIssued, Issued
<1>19. EventStoredOnce'
  <2> SUFFICES ASSUME NEW r \in Reservation, NEW q \in Reservation,
                      NEW i \in DOMAIN rows'[r], NEW j \in DOMAIN rows'[q],
                      rows'[r][i].event = rows'[q][j].event, rows'[r][i].event # NoEvent
               PROVE  r = q /\ i = j
    BY DEF EventStoredOnce
  <2>1. \A p \in Reservation : \A k \in DOMAIN rows[p] :
           rows[p][k].event = new.event /\ new.event # NoEvent => p = r0 /\ k = m
    BY <1>1, <1>4, <1>9 DEF HeldAlone, LiveEventsAccounted, EventStoredOnce
  <2>2. \A p \in Reservation : \A k \in DOMAIN rows'[p] :
           rows'[p][k].event = new.event /\ new.event # NoEvent => p = r0 /\ k = m
    BY <2>1, <1>8
  <2>3. CASE rows'[r][i].event = new.event
    BY <2>2, <2>3
  <2>4. CASE rows'[r][i].event # new.event
    <3>1. /\ i \in DOMAIN rows[r] /\ rows'[r][i] = rows[r][i]
          /\ j \in DOMAIN rows[q] /\ rows'[q][j] = rows[q][j]
      BY <2>4, <1>8
    <3> QED BY <3>1 DEF LiveEventsAccounted, EventStoredOnce
  <2> QED BY <2>3, <2>4
<1>20. LiveEventsAccounted'
  <2> SUFFICES ASSUME NEW f \in events, f \notin untracked'
               PROVE  \E i \in DOMAIN rows'[owner[f]] : rows'[owner[f]][i].event = f
    BY <1>6, <1>19 DEF LiveEventsAccounted
  <2>1. f # NoEvent
    BY EventAssumption
  <2>2. CASE f = new.event
    BY <2>1, <2>2, <1>7, <1>10
  <2>3. CASE f # new.event
    <3>1. f \notin untracked
      BY <2>3, <1>6
    <3>2. PICK i \in DOMAIN rows[owner[f]] : rows[owner[f]][i].event = f
      BY <3>1 DEF LiveEventsAccounted
    <3>3. owner[f] \in Reservation
      BY DEF OnlyIssued, Issued
    <3>4. CASE owner[f] = r0 /\ i = m
      <4>1. f = old
        BY <3>2, <3>4, <1>3
      <4>2. Holding(w)
        BY <4>1, <2>3, <1>4
      <4> QED BY <4>1, <4>2, <1>6 DEF Holding
    <3>5. CASE ~(owner[f] = r0 /\ i = m)
      BY <3>2, <3>3, <3>5, <1>7
    <3> QED BY <3>4, <3>5
  <2> QED BY <2>2, <2>3
<1> QED BY <1>14, <1>15, <1>16, <1>17, <1>18, <1>20

\* Every other step of a synchronisation writes nothing.
LEMMA SyncStepKeeps ==
  ASSUME TypeOK, TargetExists, SyncInv, NEW w \in Worker, SyncStep(w)
  PROVE  SyncInv'
<1> USE DEF SyncInv, SyncTypeOK
<1> DEFINE At1(st) == [sync[w] EXCEPT !.stage = st]
           Marks(mk) == [sync[w] EXCEPT !.stage = "select", !.mark = mk]
<1>1. sync[w] \in SyncState
  OBVIOUS
<1>2. \A st \in SyncStage : /\ At1(st) \in SyncState /\ At1(st).stage = st
                            /\ At1(st).event = sync[w].event /\ At1(st).mark = sync[w].mark
                            /\ At1(st).row = sync[w].row
  BY <1>1 DEF SyncState
<1>3. \A mk \in Mark : /\ Marks(mk) \in SyncState /\ Marks(mk).stage = "select"
                       /\ Marks(mk).mark = mk
  BY <1>1 DEF SyncState, SyncStage
<1>4. /\ \A st : SyncGoto(w, st) => sync' = [sync EXCEPT ![w] = At1(st)]
      /\ \A mk : GotoMark(w, mk) => sync' = [sync EXCEPT ![w] = Marks(mk)]
  BY DEF SyncGoto, GotoMark
<1> HIDE DEF At1, Marks
<1> DEFINE Quiet == UNCHANGED <<vars, rows, events, owner, untracked>> /\ connected' = connected
           There == handler[w].stage = "reply" /\ Target(w) \in Reservation
<1>5. ASSUME NEW st \in {"read", "token", "post", "find", "done"}, SyncGoto(w, st), Quiet, There
      PROVE  SyncInv'
  BY <1>5, <1>2, <1>4, TalkKeeps DEF SyncStage
<1>6. ASSUME NEW mk \in {"pending", "failed", "cancelled"}, GotoMark(w, mk), Quiet, There
      PROVE  SyncInv'
  BY <1>6, <1>3, <1>4, TalkKeeps DEF Mark
<1>7. sync[w].stage # "off" => There
  BY DEF Resting
<1>8. CASE PushBegin(w) \/ WithdrawBegin(w)
  <2>1. There
    BY <1>8 DEF PushBegin, WithdrawBegin, At, TargetExists, Target
  <2> QED BY <1>8, <2>1, <1>5 DEF PushBegin, WithdrawBegin
<1>9. CASE PushRead(w)
  BY <1>9, <1>5, <1>7 DEF PushRead, SyncAt
<1>10. CASE PushToken(w)
  BY <1>10, <1>5, <1>6, <1>7 DEF PushToken, SyncAt
<1>11. CASE PushPostFails(w)
  BY <1>11, <1>6, <1>7 DEF PushPostFails, SyncAt
<1>12. CASE \E e \in EventId : PushPost(w, e)
  BY <1>12, PostKeeps
<1>13. CASE WithdrawFind(w)
  <2>1. There
    BY <1>13, <1>7 DEF WithdrawFind, SyncAt
  <2>2. CASE SyncGoto(w, "done") \/ GotoMark(w, "cancelled")
    BY <1>13, <2>1, <2>2, <1>5, <1>6 DEF WithdrawFind
  <2>3. CASE ~(SyncGoto(w, "done") \/ GotoMark(w, "cancelled"))
    <3> DEFINE e == LatestRow(Target(w)).event
               s == [sync[w] EXCEPT !.stage = "delToken", !.event = e]
    <3>1. /\ rows[Target(w)] # <<>> /\ e # NoEvent /\ sync' = [sync EXCEPT ![w] = s]
      BY <1>13, <2>3 DEF WithdrawFind
    <3>2. rows[Target(w)] \in Seq(Row)
      BY <2>1
    <3>3. Len(rows[Target(w)]) \in DOMAIN rows[Target(w)]
      BY <3>1, <3>2
    <3>4. e = rows[Target(w)][Len(rows[Target(w)])].event /\ e \in EventId
      <4>1. rows[Target(w)][Len(rows[Target(w)])] \in Row
        BY <3>2, <3>3
      <4> QED BY <3>1, <4>1 DEF LatestRow, Row
    <3>5. s \in SyncState /\ s.stage = "delToken" /\ s.event = e
      BY <1>1, <3>4 DEF SyncState, SyncStage
    <3> HIDE DEF s, e
    <3>6. \E r \in Reservation : \E i \in DOMAIN rows[r] : rows[r][i].event = s.event
      BY <2>1, <3>3, <3>4, <3>5
    <3>7. s.event # NoEvent
      BY <3>4, <3>5, EventAssumption
    <3>8. UNCHANGED <<vars, rows, events, owner, untracked>> /\ connected' = connected
      BY <1>13 DEF WithdrawFind
    <3> HIDE DEF SyncInv, SyncTypeOK
    <3> QED BY <2>1, <3>1, <3>5, <3>6, <3>7, <3>8, TalkKeeps
  <2> QED BY <2>2, <2>3
<1>14. CASE WithdrawToken(w)
  <2>1. There /\ Withdrawing(w)
    BY <1>14, <1>7 DEF WithdrawToken, SyncAt, Withdrawing
  <2>2. CASE SyncGoto(w, "done")
    BY <1>14, <2>1, <2>2, <1>5 DEF WithdrawToken
  <2>3. CASE SyncGoto(w, "delete")
    BY <1>14, <2>1, <2>3, <1>2, <1>4, TalkKeeps DEF WithdrawToken, SyncStage
  <2> QED BY <1>14, <2>2, <2>3 DEF WithdrawToken
<1>15. CASE WithdrawDelete(w)
  BY <1>15, DeleteKeeps
<1>16. CASE WithdrawDeleteFails(w)
  BY <1>16, <1>5, <1>6, <1>7 DEF WithdrawDeleteFails, SyncAt
<1>17. CASE MarkSelect(w)
  <2>1. There /\ sync[w].stage = "select"
    BY <1>17, <1>7 DEF MarkSelect, SyncAt
  <2>2. CASE SyncGoto(w, "done")
    BY <1>17, <2>1, <2>2, <1>5 DEF MarkSelect
  <2>3. CASE ~SyncGoto(w, "done")
    <3> DEFINE k == Len(rows[Target(w)])
               s == [sync[w] EXCEPT !.stage = "write", !.row = k]
    <3>1. sync' = [sync EXCEPT ![w] = s]
      BY <1>17, <2>3 DEF MarkSelect, SyncGoto
    <3>2. rows[Target(w)] \in Seq(Row) /\ k \in Nat
      BY <2>1
    <3>3. /\ s \in SyncState /\ s.stage = "write" /\ s.row = k
          /\ s.mark = sync[w].mark /\ s.event = sync[w].event
      BY <1>1, <3>2 DEF SyncState, SyncStage
    <3>4. s.mark # "none" /\ (s.mark = "synced" => Holding(w))
      BY <2>1, <3>3 DEF Pointing, Holding
    <3> HIDE DEF s
    <3>5. UNCHANGED <<vars, rows, events, owner, untracked>> /\ connected' = connected
      BY <1>17 DEF MarkSelect
    <3>6. s.row <= Len(rows[Target(w)])
      BY <3>2, <3>3
    <3> HIDE DEF SyncInv, SyncTypeOK, k
    <3> QED BY <2>1, <3>1, <3>3, <3>4, <3>5, <3>6, TalkKeeps
  <2> QED BY <2>2, <2>3
<1>18. CASE MarkWrite(w)
  BY <1>18, WriteKeeps
<1>19. CASE SyncRequestFails(w)
  BY <1>19, <1>5, <1>6, <1>7 DEF SyncRequestFails
<1> QED
  BY <1>8, <1>9, <1>10, <1>11, <1>12, <1>13, <1>14, <1>15, <1>16, <1>17, <1>18, <1>19
     DEF SyncStep

LEMMA SyncInvStep == TypeOK /\ TargetExists /\ SyncInv /\ [SyncNext]_allVars => SyncInv'
<1> SUFFICES ASSUME TypeOK, TargetExists, SyncInv, [SyncNext]_allVars PROVE SyncInv'
  OBVIOUS
<1>1. ASSUME NEW w \in Worker, HandlerStep(w), UNCHANGED syncVars PROVE SyncInv'
  BY <1>1, HandlerKeeps
<1>2. ASSUME NEW w \in Worker, SyncStep(w) PROVE SyncInv'
  BY <1>2, SyncStepKeeps
<1>3. ASSUME NEW w \in Worker, Respond(w) PROVE SyncInv'
  BY <1>3, RespondKeeps
<1>4. CASE Integrate \/ UNCHANGED allVars
  <2>1. /\ UNCHANGED <<handler, rows, events, owner, untracked, sync>> /\ connected' \in BOOLEAN
    BY <1>4 DEF Integrate, allVars, vars, syncVars, SyncInv, SyncTypeOK
  <2> QED
    BY <2>1 DEF SyncInv, SyncTypeOK, Resting, HeldAlone, OnlyIssued, Pointing, Holding,
       Withdrawing, Target, Issued, LiveEventsAccounted, EventStoredOnce
<1> QED BY <1>1, <1>2, <1>3, <1>4 DEF SyncNext

LEMMA SyncInvHolds == SyncSpec => []SyncInv
<1>1. SyncInit => SyncInv
  BY SyncInvInit
<1>2. TypeOK /\ TargetExists /\ SyncInv /\ [SyncNext]_allVars => SyncInv'
  BY SyncInvStep
<1>3. SyncSpec => [](TypeOK /\ TargetExists)
  BY SyncImplementsReservations, TypeCorrect, PTL DEF ImplementsReservations
<1> QED BY <1>1, <1>2, <1>3, PTL DEF SyncSpec

\* The state of the synchronisation stays well typed.
THEOREM SyncTypeCorrect == SyncSpec => []SyncTypeOK
BY SyncInvHolds, PTL DEF SyncInv

\* Every live event is named by exactly one row, of its own reservation, or was
\* created without an answer or overwritten by a second _synced.
THEOREM EventsAccounted == SyncSpec => []LiveEventsAccounted
BY SyncInvHolds, PTL DEF SyncInv

-----------------------------------------------------------------------------
(* One handler at a time                                                   *)

\* What a lone worker found in the latest row of its reservation is still
\* there, and what it will mark cancelled names no live event any more.
Following ==
    \A w \in Worker :
        /\ Withdrawing(w) => /\ rows[Target(w)] # <<>>
                             /\ LatestRow(Target(w)).event = sync[w].event
        /\ sync[w].stage \in {"select", "write"} /\ sync[w].mark = "cancelled" =>
             rows[Target(w)] # <<>> /\ LatestRow(Target(w)).event \notin events
        /\ sync[w].stage = "write" => sync[w].row = Len(rows[Target(w)])

SerialInv == CancelledRowNamesNoLiveEvent /\ Following

\* Nobody but w synchronises.
SyncsAlone(w) == \A v \in Worker \ {w} : sync[v].stage = "off"

\* Steps that leave the rows and the events alone.
LEMMA TalkFollows ==
  ASSUME SyncInv, SerialInv, NEW w \in Worker, SyncsAlone(w),
         UNCHANGED <<handler, rows, events>>, NEW s \in SyncState,
         sync' = [sync EXCEPT ![w] = s],
         s.stage \in {"delToken", "delete"} =>
             rows[Target(w)] # <<>> /\ LatestRow(Target(w)).event = s.event,
         s.stage \in {"select", "write"} /\ s.mark = "cancelled" =>
             rows[Target(w)] # <<>> /\ LatestRow(Target(w)).event \notin events,
         s.stage = "write" => s.row = Len(rows[Target(w)])
  PROVE  SerialInv'
<1>1. sync'[w] = s
  BY DEF SyncInv, SyncTypeOK
<1>2. CancelledRowNamesNoLiveEvent'
  BY DEF SerialInv, CancelledRowNamesNoLiveEvent
<1>3. Target(w)' = Target(w) /\ rows' = rows /\ events' = events
  BY DEF Target
<1>4. LatestRow(Target(w))' = LatestRow(Target(w))
  BY <1>3 DEF LatestRow
<1>5. \A v \in Worker \ {w} : sync'[v].stage = "off"
  BY DEF SyncsAlone, SyncInv, SyncTypeOK
<1>6. Following'
  BY <1>1, <1>3, <1>4, <1>5 DEF Following, Withdrawing
<1> QED BY <1>2, <1>6 DEF SerialInv

\* A step after which the worker neither withdraws nor marks a cancellation.
LEMMA RestFollows ==
  ASSUME SyncInv, SerialInv, NEW w \in Worker, SyncsAlone(w),
         CancelledRowNamesNoLiveEvent', SyncsAlone(w)',
         sync'[w].stage \notin {"delToken", "delete", "write"},
         sync'[w].stage = "select" => sync'[w].mark # "cancelled"
  PROVE  SerialInv'
BY DEF SerialInv, Following, Withdrawing, SyncsAlone

LEMMA PostFollows ==
  ASSUME SyncInv, SerialInv, NEW w \in Worker, SyncsAlone(w),
         NEW e \in EventId, PushPost(w, e)
  PROVE  SerialInv'
<1> DEFINE got == [sync[w] EXCEPT !.stage = "select", !.mark = "synced", !.event = e]
           lost == [sync[w] EXCEPT !.stage = "select", !.mark = "failed"]
<1>1. sync[w] \in SyncState /\ sync'[w] \in {got, lost}
  BY DEF SyncInv, SyncTypeOK, PushPost, GotoMark
<1>2. got.stage = "select" /\ got.mark = "synced" /\ lost.stage = "select" /\ lost.mark = "failed"
  BY <1>1 DEF SyncState
<1> HIDE DEF got, lost
<1>3. CancelledRowNamesNoLiveEvent'
  <2> SUFFICES ASSUME NEW r \in Reservation, NEW i \in DOMAIN rows[r],
                      rows[r][i].sync = "cancelled", rows[r][i].event = e
               PROVE  FALSE
    BY DEF PushPost, SerialInv, CancelledRowNamesNoLiveEvent
  <2>1. owner[e] = r
    BY EventAssumption DEF SyncInv, OnlyIssued
  <2> QED BY <2>1, NoReservationAssumption DEF PushPost, Issued
<1>4. SyncsAlone(w)'
  BY DEF SyncsAlone, SyncInv, SyncTypeOK, PushPost, GotoMark
<1> QED BY <1>1, <1>2, <1>3, <1>4, RestFollows

LEMMA DeleteFollows ==
  ASSUME SyncInv, SerialInv, NEW w \in Worker, SyncsAlone(w), WithdrawDelete(w)
  PROVE  SerialInv'
<1> DEFINE marks == [sync[w] EXCEPT !.stage = "select", !.mark = "cancelled"]
           ends == [sync[w] EXCEPT !.stage = "done"]
<1>1. sync[w] \in SyncState /\ sync'[w] \in {marks, ends}
  BY DEF SyncInv, SyncTypeOK, WithdrawDelete, GotoMark, SyncGoto
<1>2. marks.stage = "select" /\ marks.mark = "cancelled" /\ ends.stage = "done"
  BY <1>1 DEF SyncState
<1> HIDE DEF marks, ends
<1>3. /\ events' = events \ {sync[w].event} /\ rows' = rows /\ Target(w)' = Target(w)
      /\ Withdrawing(w)
  BY DEF WithdrawDelete, vars, Target, SyncAt, Withdrawing
<1>4. rows[Target(w)] # <<>> /\ LatestRow(Target(w)).event \notin events'
  BY <1>3 DEF SerialInv, Following
<1>5. LatestRow(Target(w))' = LatestRow(Target(w))
  BY <1>3 DEF LatestRow
<1>6. CancelledRowNamesNoLiveEvent'
  BY <1>3 DEF SerialInv, CancelledRowNamesNoLiveEvent
<1>7. \A v \in Worker \ {w} : sync'[v].stage = "off"
  BY DEF SyncsAlone, SyncInv, SyncTypeOK, WithdrawDelete, GotoMark, SyncGoto
<1>8. Following'
  BY <1>1, <1>2, <1>3, <1>4, <1>5, <1>7 DEF Following, Withdrawing
<1> QED BY <1>6, <1>8 DEF SerialInv

LEMMA WriteFollows ==
  ASSUME SyncInv, SerialInv, NEW w \in Worker, SyncsAlone(w), MarkWrite(w)
  PROVE  SerialInv'
<1> DEFINE r0 == Target(w)
           n == sync[w].row
           old == IF n = 0 THEN NoEvent ELSE rows[r0][n].event
           new == Marked(old, w)
<1>1. /\ sync[w] \in SyncState /\ sync[w].stage = "write" /\ r0 \in Reservation
      /\ rows \in [Reservation -> Seq(Row)]
  BY DEF MarkWrite, SyncAt, SyncInv, SyncTypeOK, Resting
<1>2. rows[r0] \in Seq(Row) /\ n = Len(rows[r0]) /\ n \in Nat
  BY <1>1 DEF SerialInv, Following
<1>3. new.sync = sync[w].mark
  BY DEF Marked
<1>4. ASSUME new.sync = "cancelled" PROVE new.event \notin events
  <2>1. rows[r0] # <<>> /\ LatestRow(r0).event \notin events
    BY <1>1, <1>3, <1>4 DEF SerialInv, Following
  <2>2. n # 0
    BY <1>2, <2>1
  <2> QED BY <1>2, <1>3, <1>4, <2>1, <2>2 DEF Marked, LatestRow
<1> HIDE DEF new
<1>5. /\ rows' = IF n = 0 THEN [rows EXCEPT ![r0] = Append(@, new)]
                 ELSE [rows EXCEPT ![r0][n] = new]
      /\ events' = events /\ sync' = [sync EXCEPT ![w].stage = "done"]
  BY DEF MarkWrite, SyncGoto, new
<1>6. ASSUME NEW r \in Reservation, NEW i \in DOMAIN rows'[r]
      PROVE  rows'[r][i] = new \/ (i \in DOMAIN rows[r] /\ rows'[r][i] = rows[r][i])
  <2>1. CASE r # r0
    BY <1>1, <1>5, <2>1
  <2>2. CASE r = r0 /\ n = 0
    <3>1. rows'[r] = Append(rows[r0], new)
      BY <1>1, <1>5, <2>2
    <3> QED BY <1>2, <1>6, <2>2, <3>1
  <2>3. CASE r = r0 /\ n # 0
    <3>1. rows'[r] = [rows[r0] EXCEPT ![n] = new]
      BY <1>1, <1>5, <2>3
    <3> QED BY <1>6, <2>3, <3>1
  <2> QED BY <2>1, <2>2, <2>3
<1>7. CancelledRowNamesNoLiveEvent'
  BY <1>4, <1>5, <1>6 DEF SerialInv, CancelledRowNamesNoLiveEvent
<1>8. sync'[w].stage = "done" /\ SyncsAlone(w)'
  BY <1>1, <1>5 DEF SyncState, SyncInv, SyncTypeOK, SyncsAlone
<1> QED BY <1>7, <1>8, RestFollows

LEMMA SyncStepFollows ==
  ASSUME SyncInv, SerialInv, NEW w \in Worker, SyncsAlone(w), SyncStep(w)
  PROVE  SerialInv'
<1>1. sync[w] \in SyncState /\ sync \in [Worker -> SyncState]
  BY DEF SyncInv, SyncTypeOK
<1>2. ASSUME NEW st, SyncGoto(w, st)
      PROVE  sync'[w].stage = st /\ sync'[w].mark = sync[w].mark /\ sync'[w].row = sync[w].row
             /\ sync'[w].event = sync[w].event
  BY <1>1, <1>2 DEF SyncGoto, SyncState
<1>3. ASSUME NEW mk, GotoMark(w, mk) PROVE sync'[w].stage = "select" /\ sync'[w].mark = mk
  BY <1>1, <1>3 DEF GotoMark, SyncState
<1>4. ASSUME UNCHANGED <<rows, events>>,
             \/ \E st \in {"read", "token", "post", "find", "done"} : SyncGoto(w, st)
             \/ \E mk \in {"pending", "failed"} : GotoMark(w, mk)
      PROVE  SerialInv'
  <2>1. CancelledRowNamesNoLiveEvent'
    BY <1>4 DEF SerialInv, CancelledRowNamesNoLiveEvent
  <2>2. SyncsAlone(w)'
    BY <1>1, <1>4 DEF SyncsAlone, SyncGoto, GotoMark
  <2> QED BY <1>2, <1>3, <1>4, <2>1, <2>2, RestFollows
<1>5. CASE \/ PushBegin(w) \/ PushRead(w) \/ PushToken(w) \/ PushPostFails(w)
           \/ WithdrawBegin(w) \/ WithdrawDeleteFails(w) \/ SyncRequestFails(w)
  BY <1>4, <1>5 DEF PushBegin, PushRead, PushToken, PushPostFails, WithdrawBegin,
     WithdrawDeleteFails, SyncRequestFails
<1>6. CASE \E e \in EventId : PushPost(w, e)
  BY <1>6, PostFollows
<1>7. CASE WithdrawFind(w)
  <2>1. /\ UNCHANGED <<handler, rows, events>> /\ Target(w) \in Reservation
    BY <1>7 DEF WithdrawFind, SyncAt, vars, SyncInv, Resting
  <2> DEFINE e == LatestRow(Target(w)).event
             s == [sync[w] EXCEPT !.stage = "delToken", !.event = e]
             c == [sync[w] EXCEPT !.stage = "select", !.mark = "cancelled"]
  <2>2. CASE rows[Target(w)] = <<>> /\ SyncGoto(w, "done")
    BY <1>4, <2>1, <2>2
  <2>3. CASE rows[Target(w)] # <<>> /\ e = NoEvent /\ GotoMark(w, "cancelled")
    <3>1. c \in SyncState /\ c.stage = "select"
      BY <1>1 DEF SyncState, SyncStage, Mark
    <3>2. sync' = [sync EXCEPT ![w] = c]
      BY <2>3 DEF GotoMark
    <3>3. e \notin events
      BY <2>3, EventAssumption DEF SyncInv, SyncTypeOK
    <3> HIDE DEF c, e
    <3> QED BY <2>1, <2>3, <3>1, <3>2, <3>3, TalkFollows DEF e
  <2>4. CASE rows[Target(w)] # <<>> /\ sync' = [sync EXCEPT ![w] = s]
    <3>1. Len(rows[Target(w)]) \in DOMAIN rows[Target(w)] /\ rows[Target(w)] \in Seq(Row)
      BY <2>1, <2>4 DEF SyncInv, SyncTypeOK
    <3>2. e \in EventId \cup {NoEvent}
      <4>1. rows[Target(w)][Len(rows[Target(w)])] \in Row
        BY <3>1
      <4> QED BY <4>1 DEF LatestRow, Row
    <3>3. s \in SyncState /\ s.stage = "delToken" /\ s.event = e
      BY <1>1, <3>2 DEF SyncState, SyncStage
    <3> HIDE DEF s, e
    <3> QED BY <2>1, <2>4, <3>3, TalkFollows DEF e
  <2> QED BY <1>7, <2>2, <2>3, <2>4 DEF WithdrawFind
<1>8. CASE WithdrawToken(w)
  <2>1. UNCHANGED <<handler, rows, events>> /\ Withdrawing(w)
    BY <1>8 DEF WithdrawToken, SyncAt, vars, Withdrawing
  <2>2. CASE SyncGoto(w, "done")
    BY <1>4, <2>1, <2>2
  <2>3. CASE SyncGoto(w, "delete")
    <3> DEFINE s == [sync[w] EXCEPT !.stage = "delete"]
    <3>1. s \in SyncState /\ s.stage = "delete" /\ s.event = sync[w].event
      BY <1>1 DEF SyncState, SyncStage
    <3>2. sync' = [sync EXCEPT ![w] = s]
      BY <2>3 DEF SyncGoto
    <3>3. rows[Target(w)] # <<>> /\ LatestRow(Target(w)).event = sync[w].event
      BY <2>1 DEF SerialInv, Following
    <3> HIDE DEF s
    <3> QED BY <2>1, <3>1, <3>2, <3>3, TalkFollows
  <2> QED BY <1>8, <2>2, <2>3 DEF WithdrawToken
<1>9. CASE WithdrawDelete(w)
  BY <1>9, DeleteFollows
<1>10. CASE MarkSelect(w)
  <2>1. UNCHANGED <<handler, rows, events>> /\ Target(w) \in Reservation /\ sync[w].stage = "select"
    BY <1>10 DEF MarkSelect, SyncAt, vars, SyncInv, Resting
  <2>2. CASE SyncGoto(w, "done")
    BY <1>4, <2>1, <2>2
  <2>3. CASE ~SyncGoto(w, "done")
    <3> DEFINE k == Len(rows[Target(w)])
               s == [sync[w] EXCEPT !.stage = "write", !.row = k]
    <3>1. sync' = [sync EXCEPT ![w] = s]
      BY <1>10, <2>3 DEF MarkSelect, SyncGoto
    <3>2. k \in Nat
      BY <2>1 DEF SyncInv, SyncTypeOK
    <3>3. s \in SyncState /\ s.stage = "write" /\ s.row = k /\ s.mark = sync[w].mark
      BY <1>1, <3>2 DEF SyncState, SyncStage
    <3>4. s.mark = "cancelled" =>
            rows[Target(w)] # <<>> /\ LatestRow(Target(w)).event \notin events
      BY <2>1, <3>3 DEF SerialInv, Following
    <3> HIDE DEF s
    <3> QED BY <2>1, <3>1, <3>3, <3>4, TalkFollows
  <2> QED BY <2>2, <2>3
<1>11. CASE MarkWrite(w)
  BY <1>11, WriteFollows
<1> QED BY <1>5, <1>6, <1>7, <1>8, <1>9, <1>10, <1>11 DEF SyncStep

LEMMA SerialSyncInit == SyncInit => SerialInv
<1> SUFFICES ASSUME SyncInit PROVE SerialInv
  OBVIOUS
<1>1. /\ \A r \in Reservation : DOMAIN rows[r] = {}
      /\ \A w \in Worker : sync[w].stage = "off"
  BY DEF SyncInit, SyncOff
<1> QED BY <1>1 DEF SerialInv, CancelledRowNamesNoLiveEvent, Following, Withdrawing

\* Only the handler at work synchronises.
LEMMA AtWorkSyncsAlone ==
  ASSUME OneHandler, SyncInv, NEW w \in Worker, handler[w] # Idle \/ sync[w].stage # "off"
  PROVE  SyncsAlone(w)
<1>1. Idle.stage = "idle"
  BY DEF Idle
<1> QED BY <1>1 DEF OneHandler, SyncsAlone, SyncInv, Resting

LEMMA SerialSyncStep ==
  ASSUME OneHandler, TypeOK, SyncInv, SerialInv, [SyncNext]_allVars
  PROVE  SerialInv'
<1>1. ASSUME NEW w \in Worker, HandlerStep(w), UNCHANGED syncVars PROVE SerialInv'
  <2>1. UNCHANGED <<rows, events, sync>>
    BY <1>1 DEF syncVars
  <2>2. CancelledRowNamesNoLiveEvent'
    BY <2>1 DEF SerialInv, CancelledRowNamesNoLiveEvent
  <2>3. \A v \in Worker : sync[v].stage # "off" =>
           Target(v)' = Target(v) /\ LatestRow(Target(v))' = LatestRow(Target(v))
    BY <1>1, <2>1, HandlerRests DEF LatestRow
  <2>4. Following'
    BY <2>1, <2>3 DEF SerialInv, Following, Withdrawing
  <2> QED BY <2>2, <2>4 DEF SerialInv
<1>2. ASSUME NEW w \in Worker, SyncStep(w) PROVE SerialInv'
  <2>1. handler[w] # Idle \/ sync[w].stage # "off"
    BY <1>2 DEF SyncStep, PushBegin, PushRead, PushToken, PushPostFails, PushPost, WithdrawBegin,
       WithdrawFind, WithdrawToken, WithdrawDelete, WithdrawDeleteFails, MarkSelect, MarkWrite,
       SyncRequestFails, SyncAt, At, Idle
  <2> QED BY <1>2, <2>1, AtWorkSyncsAlone, SyncStepFollows
<1>3. ASSUME NEW w \in Worker, Respond(w) PROVE SerialInv'
  <2>1. UNCHANGED <<rows, events>> /\ sync' = [sync EXCEPT ![w] = SyncOff]
    BY <1>3 DEF Respond
  <2>2. CancelledRowNamesNoLiveEvent'
    BY <2>1 DEF SerialInv, CancelledRowNamesNoLiveEvent
  <2>3. handler[w] # Idle
    BY <1>3 DEF Respond, Reply, Idle
  <2>4. sync'[w].stage = "off" /\ SyncsAlone(w) /\ SyncsAlone(w)'
    BY <2>1, <2>3, AtWorkSyncsAlone DEF SyncInv, SyncTypeOK, SyncOff, SyncsAlone
  <2> QED BY <2>2, <2>4, RestFollows
<1>4. CASE Integrate \/ UNCHANGED allVars
  <2>1. UNCHANGED <<handler, rows, events, sync>>
    BY <1>4 DEF Integrate, allVars, vars, syncVars
  <2> QED
    BY <2>1 DEF SerialInv, CancelledRowNamesNoLiveEvent, Following, Withdrawing, Target, LatestRow
<1> QED BY <1>1, <1>2, <1>3, <1>4 DEF SyncNext

\* As long as one handler is at work at a time, whichever of the workers has it,
\* a mapping row marked cancelled names no live event, whatever fails:
\* mark_calendar_event_cancelled comes after the deletion of the event that the
\* latest row named, or after no event.
THEOREM SerialRowsGone == SyncSpec /\ []OneHandler => []CancelledRowNamesNoLiveEvent
<1>1. SyncSpec => []TypeOK
  BY SyncImplementsReservations, TypeCorrect, PTL DEF ImplementsReservations
<1>2. OneHandler /\ TypeOK /\ SyncInv /\ SerialInv /\ [SyncNext]_allVars => SerialInv'
  BY SerialSyncStep
<1>3. SerialInv => CancelledRowNamesNoLiveEvent
  BY DEF SerialInv
<1> QED BY SerialSyncInit, <1>1, <1>2, <1>3, SyncInvHolds, PTL DEF SyncSpec

-----------------------------------------------------------------------------
(* The listing of free slots *)

RuleType == [start : 0 .. DayLength, end : 0 .. DayLength, open : BOOLEAN]

ListingType ==
    [stage : {"setting", "default", "scan"}, day : Nat, what : Offering, length : Nat,
     from : SettingType \cup {NoSetting}, rules : Seq(RuleType), rule : Nat, at : Int,
     starts : Seq(Int)]

\* A listing that has found its settings row stands at a rule of the day, at a
\* time of the rule's grid, or past the last rule.
Placed(l) ==
    /\ l.from \in SettingType
    /\ l.rules = RulesOf(l.from, l.day)
    /\ l.rule \in 1 .. Len(l.rules) + 1
    /\ l.rule \in DOMAIN l.rules =>
          LET opening == l.day * DayLength + l.rules[l.rule].start
          IN l.at >= opening /\ (l.at - opening) % l.from.interval = 0

ListingOK(l) ==
    \/ l = NoListing
    \/ /\ l \in ListingType /\ l.length = Length(l.what)
       /\ IF l.stage = "scan" THEN Placed(l) ELSE l.starts = <<>>

OfferOK(o) ==
    o = NoOffer \/ o \in [starts : Seq(Int), what : Offering, day : Nat, from : SettingType]

\* The times of the day's grids that come before a time of a rule.
Passed(s, d, n, rule, at, t) ==
    \E i \in DOMAIN RulesOf(s, d) :
        /\ OnGrid(s, d, n, i, t)
        /\ (i < rule \/ (i = rule /\ t < at))

\* The slot of length n at t is free now, whatever the opening hours say.
Bookable(s, d, n, t) ==
    /\ t \in d * DayLength .. (d + 1) * DayLength
    /\ Allowed(s, d, t)
    /\ Conflicting([start |-> t, end |-> t + n]) = {}

\* What the listing has collected are the bookable slots among those it passed.
Collected ==
    \A t \in Int :
        t \in ToSet(listing.starts) <=>
            /\ Bookable(listing.from, listing.day, listing.length, t)
            /\ Passed(listing.from, listing.day, listing.length,
                      listing.rule, listing.at, t)

StatusOK ==
    status \in [Reservation -> {"absent"} \cup ActiveStatus \cup TerminalStatus]

SlotTypeOK ==
    /\ StatusOK
    /\ clock \in Nat /\ disturbed \in BOOLEAN
    /\ setting \in SettingType \cup {NoSetting}
    /\ ListingOK(listing) /\ OfferOK(offer)

SlotInv ==
    /\ SlotTypeOK
    /\ listing.stage = "scan" /\ ~disturbed => Collected
    /\ ListedSlotsRight

\* Nothing that a list of free slots depends on changes.
Still == UNCHANGED <<status, booked, clock>>

LEMMA DefaultIsASetting == DefaultSetting \in SettingType
BY DEF DefaultSetting, SettingType

LEMMA LengthType == ASSUME NEW o \in Offering PROVE Length(o) \in Nat
BY OfferingAssumption DEF Length

\* The rules of a day open and close within it.
LEMMA RulesType ==
    ASSUME NEW s \in SettingType, NEW d \in Nat PROVE RulesOf(s, d) \in Seq(RuleType)
<1> USE DEF RuleType, Rule
<1>1. CASE ClosedOn(s, d)
  BY <1>1 DEF RulesOf
<1>2. CASE ~ClosedOn(s, d) /\ \E i \in DOMAIN s.exceptions : OpensOn(s, d, i)
  <2> DEFINE i == CHOOSE i \in DOMAIN s.exceptions : OpensOn(s, d, i)
  <2>1. i \in DOMAIN s.exceptions
    BY <1>2
  <2>2. s.exceptions[i].hours \in Hours
    <3> DEFINE X == [date : Nat, closed : {"yes", "no", "unset"}, hours : Hours]
    <3>1. s.exceptions \in Seq(X)
      BY DEF SettingType
    <3> HIDE DEF X, i
    <3>2. s.exceptions[i] \in X
      BY <2>1, <3>1
    <3>3. QED
      BY <3>2 DEF X
  <2>3. RulesOf(s, d) = <<Rule(s.exceptions[i].hours, TRUE)>>
    BY <1>2 DEF RulesOf
  <2> HIDE DEF i
  <2>4. Rule(s.exceptions[i].hours, TRUE) \in RuleType
    BY <2>2 DEF Hours
  <2>5. QED
    BY <2>3, <2>4
<1>3. CASE ~ClosedOn(s, d) /\ ~\E i \in DOMAIN s.exceptions : OpensOn(s, d, i)
  <2> DEFINE r == [i \in DOMAIN s.weekly |->
                     Rule(s.weekly[i].hours, s.weekly[i].day = d % 7 /\ s.weekly[i].active)]
  <2>1. RulesOf(s, d) = r
    BY <1>3 DEF RulesOf
  <2>2. s.weekly \in Seq([day : 0 .. 6, hours : Hours, active : BOOLEAN])
    BY DEF SettingType
  <2>3. Len(s.weekly) \in Nat /\ DOMAIN s.weekly = 1 .. Len(s.weekly)
    BY <2>2
  <2>4. ASSUME NEW i \in DOMAIN s.weekly PROVE r[i] \in RuleType
    <3> DEFINE X == [day : 0 .. 6, hours : Hours, active : BOOLEAN]
    <3>1. s.weekly \in Seq(X)
      BY <2>2
    <3> HIDE DEF X
    <3>2. s.weekly[i] \in X
      BY <3>1
    <3>4. s.weekly[i].hours \in Hours
      BY <3>2 DEF X
    <3>3. QED
      BY <3>4 DEF Hours
  <2>5. r \in [1 .. Len(s.weekly) -> RuleType]
    BY <2>3, <2>4
  <2> HIDE DEF r
  <2>6. r \in Seq(RuleType)
    BY <2>5, <2>3, SeqDef
  <2>7. QED
    BY <2>1, <2>6
<1>4. QED
  BY <1>1, <1>2, <1>3

\* Steps of an interval.
LEMMA Steps ==
    ASSUME NEW n \in Nat \ {0}, NEW a \in Int, NEW b \in Int,
           a % n = 0, b % n = 0, a < b
    PROVE a + n <= b
<1>1. a = n * (a \div n) /\ b = n * (b \div n) /\ a \div n \in Int /\ b \div n \in Int
  OBVIOUS
<1> DEFINE p == a \div n  q == b \div n
<1>2. p \in Int /\ q \in Int /\ a = n * p /\ b = n * q
  BY <1>1
<1> HIDE DEF p, q
<1>3. p < q
  <2> SUFFICES ASSUME q <= p PROVE FALSE
    BY <1>2
  <2>1. n * q <= n * p
    BY <1>2
  <2>2. QED
    BY <1>2, <2>1
<1>4. n * (p + 1) <= n * q
  BY <1>2, <1>3
<1>5. QED
  BY <1>2, <1>4

LEMMA NextStep ==
    ASSUME NEW n \in Nat \ {0}, NEW a \in Int, a % n = 0
    PROVE (a + n) % n = 0
<1> DEFINE p == a \div n
           b == a + n
           q == b \div n
           m == b % n
<1>1. p \in Int /\ a = n * p
  OBVIOUS
<1>2. b \in Int
  OBVIOUS
<1> HIDE DEF b
<1>3. q \in Int /\ m \in 0 .. n - 1 /\ b = n * q + m
  BY <1>2
<1> HIDE DEF p, q
<1>4. b = n * (p + 1)
  BY <1>1 DEF b
<1> HIDE DEF m
<1>5. ~ q < p + 1
  <2> SUFFICES ASSUME q + 1 <= p + 1 PROVE FALSE
    BY <1>1, <1>3
  <2>1. n * (q + 1) <= n * (p + 1)
    BY <1>1, <1>3
  <2>2. QED
    BY <2>1, <1>1, <1>3, <1>4
<1>6. ~ q > p + 1
  <2> SUFFICES ASSUME q >= p + 1 PROVE m = 0
    BY <1>1, <1>3, <1>4
  <2>1. n * q >= n * (p + 1)
    BY <1>1, <1>3
  <2>2. QED
    BY <2>1, <1>1, <1>3, <1>4
<1>7. m = 0
  BY <1>1, <1>3, <1>4, <1>5, <1>6
<1>8. QED
  BY <1>7 DEF m, b

-----------------------------------------------------------------------------
\* The grids of a day, rule by rule and step by step.
LEMMA PassedNone ==
    ASSUME NEW s \in SettingType, NEW d \in Nat, NEW n \in Nat, NEW at \in Int,
           1 \in DOMAIN RulesOf(s, d) => at = d * DayLength + RulesOf(s, d)[1].start,
           NEW t \in Int
    PROVE ~Passed(s, d, n, 1, at, t)
<1> DEFINE R == RulesOf(s, d)
<1>1. R \in Seq(RuleType)
  BY RulesType
<1>2. DOMAIN R = 1 .. Len(R) /\ Len(R) \in Nat
  BY <1>1
<1> HIDE DEF R
<1>3. ASSUME NEW i \in DOMAIN R, OnGrid(s, d, n, i, t), i < 1 \/ (i = 1 /\ t < at)
      PROVE FALSE
  <2>1. i = 1 /\ t < at
    BY <1>2, <1>3
  <2>2. t >= d * DayLength + R[1].start
    BY <1>3, <2>1 DEF OnGrid, R
  <2>3. R[1] \in RuleType
    BY <1>1, <2>1
  <2>4. d * DayLength + R[1].start \in Int
    BY <2>3, DayAssumption DEF RuleType
  <2>5. QED
    BY <2>1, <2>2, <2>4 DEF R
<1>4. QED
  BY <1>3 DEF Passed, R

LEMMA PassedAll ==
    ASSUME NEW s \in SettingType, NEW d \in Nat, NEW n \in Nat, NEW at \in Int,
           NEW rule \in 1 .. Len(RulesOf(s, d)) + 1, rule \notin DOMAIN RulesOf(s, d),
           NEW t \in Int
    PROVE Passed(s, d, n, rule, at, t) <=>
              \E i \in DOMAIN RulesOf(s, d) : OnGrid(s, d, n, i, t)
<1> DEFINE R == RulesOf(s, d)
<1>1. R \in Seq(RuleType)
  BY RulesType
<1>2. DOMAIN R = 1 .. Len(R) /\ Len(R) \in Nat
  BY <1>1
<1> HIDE DEF R
<1>3. \A i \in DOMAIN R : i < rule
  BY <1>2 DEF R
<1>4. QED
  BY <1>3 DEF Passed, R

LEMMA PassedAdvance ==
    ASSUME NEW s \in SettingType, NEW d \in Nat, NEW n \in Nat, NEW at \in Int,
           NEW rule \in DOMAIN RulesOf(s, d), OnGrid(s, d, n, rule, at), NEW t \in Int
    PROVE Passed(s, d, n, rule, at + s.interval, t) <=>
              Passed(s, d, n, rule, at, t) \/ t = at
<1> DEFINE R == RulesOf(s, d)
           opening == d * DayLength + R[rule].start
<1>1. R \in Seq(RuleType)
  BY RulesType
<1>2. DOMAIN R \subseteq Int
  BY <1>1
<1>3. R[rule] \in RuleType
  BY <1>1
<1>4. opening \in Int
  BY <1>3, DayAssumption DEF RuleType
<1>5. s.interval \in Nat \ {0}
  BY DEF SettingType
<1>6. (at - opening) % s.interval = 0
  BY DEF OnGrid
<1>7. ASSUME OnGrid(s, d, n, rule, t), t < at + s.interval, t > at PROVE FALSE
  <2>1. (t - opening) % s.interval = 0
    BY <1>7 DEF OnGrid
  <2> HIDE DEF opening
  <2> DEFINE a == at - opening  b == t - opening
  <2>2. a \in Int /\ b \in Int /\ a < b /\ a % s.interval = 0 /\ b % s.interval = 0
    BY <2>1, <1>4, <1>6, <1>7
  <2> HIDE DEF a, b
  <2>3. a + s.interval <= b
    BY <2>2, <1>5, Steps
  <2>4. QED
    BY <2>3, <1>4, <1>5, <1>7 DEF a, b
<1> HIDE DEF opening, R
<1>8. rule \in Int /\ rule \in DOMAIN R
  BY <1>2 DEF R
<1>9. ASSUME NEW i \in DOMAIN R, OnGrid(s, d, n, i, t),
             i < rule \/ (i = rule /\ t < at + s.interval)
      PROVE Passed(s, d, n, rule, at, t) \/ t = at
  <2>1. CASE i < rule
    BY <1>9, <2>1 DEF Passed, R
  <2>2. CASE i = rule /\ t < at
    BY <1>9, <2>2 DEF Passed, R
  <2>3. CASE i = rule /\ t > at
    BY <1>9, <2>3, <1>7, <1>8
  <2>4. QED
    BY <1>9, <2>1, <2>2, <2>3, <1>2, <1>8
<1>10. t < at \/ t = at => t < at + s.interval
  BY <1>5
<1>11. ASSUME Passed(s, d, n, rule, at, t) PROVE Passed(s, d, n, rule, at + s.interval, t)
  BY <1>11, <1>10 DEF Passed, R
<1>12. ASSUME t = at PROVE Passed(s, d, n, rule, at + s.interval, t)
  BY <1>12, <1>10, <1>8 DEF Passed, R
<1>13. QED
  BY <1>9, <1>11, <1>12 DEF Passed, R

LEMMA PassedRule ==
    ASSUME NEW s \in SettingType, NEW d \in Nat, NEW n \in Nat,
           NEW at \in Int, NEW next \in Int,
           NEW rule \in DOMAIN RulesOf(s, d),
           ~ /\ RulesOf(s, d)[rule].open
             /\ at + n <= d * DayLength + RulesOf(s, d)[rule].end,
           rule + 1 \in DOMAIN RulesOf(s, d) =>
               next = d * DayLength + RulesOf(s, d)[rule + 1].start,
           NEW t \in Int
    PROVE Passed(s, d, n, rule + 1, next, t) <=> Passed(s, d, n, rule, at, t)
<1> DEFINE R == RulesOf(s, d)
<1>1. R \in Seq(RuleType)
  BY RulesType
<1>2. DOMAIN R \subseteq Int
  BY <1>1
<1>3. R[rule] \in RuleType
  BY <1>1
<1>4. d * DayLength + R[rule].end \in Int
  BY <1>3, DayAssumption DEF RuleType
<1>5. ASSUME OnGrid(s, d, n, rule, t) PROVE t < at
  <2>1. R[rule].open /\ t + n <= d * DayLength + R[rule].end
    BY <1>5 DEF OnGrid
  <2>2. QED
    BY <2>1, <1>4
<1>6. ASSUME rule + 1 \in DOMAIN R, OnGrid(s, d, n, rule + 1, t) PROVE ~ t < next
  <2>1. R[rule + 1] \in RuleType
    BY <1>1, <1>6
  <2>2. d * DayLength + R[rule + 1].start \in Int
    BY <2>1, DayAssumption DEF RuleType
  <2>3. t >= d * DayLength + R[rule + 1].start
    BY <1>6 DEF OnGrid
  <2>4. QED
    BY <2>2, <2>3, <1>6
<1> HIDE DEF R
<1>7. rule \in DOMAIN R
  BY DEF R
<1>8. ASSUME NEW i \in DOMAIN R, OnGrid(s, d, n, i, t)
      PROVE (i < rule + 1 \/ (i = rule + 1 /\ t < next)) <=>
                (i < rule \/ (i = rule /\ t < at))
  <2>1. i \in Int /\ rule \in Int
    BY <1>2, <1>7
  <2>2. CASE i = rule
    BY <1>5, <1>8, <2>1, <2>2
  <2>3. CASE i = rule + 1
    BY <1>6, <1>8, <2>1, <2>3
  <2>4. CASE i # rule /\ i # rule + 1
    BY <2>1, <2>4
  <2>5. QED
    BY <2>2, <2>3, <2>4
<1>9. QED
  BY <1>8 DEF Passed, R

-----------------------------------------------------------------------------
\* Handlers that change no status change no booked span either, and a status
\* stays a status.
LEMMA HandlerStatus ==
    ASSUME StatusOK, NEW w \in Worker, HandlerStep(w) \/ Reply(w)
    PROVE StatusOK' /\ (status' = status => booked' = booked)
<1>1. ASSUME NEW r \in Reservation, CreateInsert(w, r)
      PROVE StatusOK' /\ status' # status
  BY <1>1 DEF CreateInsert, StatusOK, ActiveStatus
<1>2. ASSUME NEW r, NEW st \in ActiveStatus \cup TerminalStatus, SetStatus(r, st)
      PROVE StatusOK'
  BY <1>2 DEF SetStatus, StatusOK
<1>3. ConfirmWrite(w) \/ RejectWrite(w) \/ CancelWrite(w) => StatusOK' /\ booked' = booked
  BY <1>2 DEF ConfirmWrite, RejectWrite, CancelWrite, ActiveStatus, TerminalStatus
<1>4. ASSUME UNCHANGED <<status, booked>> PROVE StatusOK'
  BY <1>4 DEF StatusOK
<1>5. Reply(w) => UNCHANGED <<status, booked>>
  BY DEF Reply
<1>6. ASSUME HandlerStep(w) /\ ~(\E r \in Reservation : CreateInsert(w, r)),
             ~(ConfirmWrite(w) \/ RejectWrite(w) \/ CancelWrite(w))
      PROVE UNCHANGED <<status, booked>>
  BY <1>6 DEF HandlerStep, CreateBegin, CreateCheck, CreateFindCustomer,
     CreateNewCustomer, ConfirmRead, RejectRead, CancelRead, ConfirmCheck, RequestFails
<1>7. QED
  BY <1>1, <1>3, <1>4, <1>5, <1>6

\* Where nothing that free slots depend on changes, they stay what they were.
LEMMA ListedStill ==
    ASSUME Still, UNCHANGED <<offer, disturbed>>, ListedSlotsRight
    PROVE ListedSlotsRight'
BY DEF Still, ListedSlotsRight, FreeStarts, Allowed, Conflicting, Active

LEMMA CollectedStill ==
    ASSUME Still, UNCHANGED listing, Collected
    PROVE Collected'
BY DEF Still, Collected, Bookable, Allowed, Conflicting, Active

\* A listing that was begun, or has just found its settings row.
LEMMA PreparedOK ==
    ASSUME listing \in ListingType, listing.length = Length(listing.what),
           listing.starts = <<>>, NEW s \in SettingType
    PROVE /\ Prepared(s) \in ListingType /\ Prepared(s).stage = "scan"
          /\ Prepared(s).length = Length(Prepared(s).what)
          /\ Prepared(s).starts = <<>> /\ Prepared(s).rule = 1
          /\ Placed(Prepared(s))
<1> DEFINE l == Prepared(s)
           R == RulesOf(s, listing.day)
           at == IF 1 \in DOMAIN R THEN listing.day * DayLength + R[1].start ELSE 0
<1>1. listing.day \in Nat
  BY DEF ListingType
<1>2. R \in Seq(RuleType)
  BY <1>1, RulesType
<1>3. 1 \in 1 .. Len(R) + 1
  BY <1>2
<1>4. ASSUME 1 \in DOMAIN R PROVE R[1].start \in Int
  <2>1. R[1] \in RuleType
    BY <1>2, <1>4
  <2>2. QED
    BY <2>1, DayAssumption DEF RuleType
<1>5. at \in Int
  BY <1>1, <1>4, DayAssumption
<1>6. /\ l.stage = "scan" /\ l.day = listing.day /\ l.what = listing.what
      /\ l.length = listing.length /\ l.from = s /\ l.rules = R /\ l.rule = 1
      /\ l.at = at /\ l.starts = <<>>
  BY DEF Prepared, AtRule, ListingType
<1>7. l \in ListingType
  BY <1>2, <1>5 DEF Prepared, AtRule, ListingType
<1>8. s.interval \in Nat \ {0}
  BY DEF SettingType
<1> HIDE DEF l, R, at
<1>9. Placed(l)
  <2> DEFINE opening == l.day * DayLength + l.rules[l.rule].start
  <2>1. ASSUME l.rule \in DOMAIN l.rules
        PROVE l.at >= opening /\ (l.at - opening) % l.from.interval = 0
    <3>1. l.at = opening /\ opening \in Int
      BY <1>5, <1>6, <2>1 DEF at
    <3> HIDE DEF opening
    <3>2. (l.at - opening) = 0
      BY <3>1
    <3>3. 0 % s.interval = 0
      BY <1>8
    <3>4. QED
      BY <3>1, <3>2, <3>3, <1>6
  <2>2. QED
    BY <2>1, <1>3, <1>6 DEF Placed, R
<1>10. QED
  BY <1>6, <1>7, <1>9 DEF l

\* A listing that has found its row has passed nothing and collected nothing.
LEMMA PreparedKeeps ==
    ASSUME SlotInv, listing.stage \in {"setting", "default"}, NEW s \in SettingType,
           listing' = Prepared(s), setting' \in SettingType \cup {NoSetting},
           Still, UNCHANGED <<offer, disturbed>>
    PROVE SlotInv'
<1>1. /\ listing \in ListingType /\ listing.length = Length(listing.what)
      /\ listing.starts = <<>>
  BY DEF SlotInv, SlotTypeOK, ListingOK, NoListing
<1>2. /\ listing' \in ListingType /\ listing'.stage = "scan"
      /\ listing'.length = Length(listing'.what) /\ listing'.starts = <<>>
      /\ listing'.rule = 1 /\ Placed(listing')
  BY <1>1, PreparedOK
<1>3. ListingOK(listing')
  BY <1>2 DEF ListingOK
<1>4. SlotTypeOK'
  BY <1>3 DEF SlotInv, SlotTypeOK, StatusOK, Still
<1>5. ListedSlotsRight'
  BY ListedStill DEF SlotInv
<1>6. ASSUME NEW t \in Int
      PROVE ~Passed(listing'.from, listing'.day, listing'.length, 1, listing'.at, t)
  <2>1. /\ listing'.from \in SettingType /\ listing'.day \in Nat
        /\ listing'.length \in Nat /\ listing'.at \in Int
    BY <1>2 DEF ListingType, Placed
  <2>2. 1 \in DOMAIN RulesOf(listing'.from, listing'.day) =>
            listing'.at = listing'.day * DayLength
                            + RulesOf(listing'.from, listing'.day)[1].start
    <3>1. listing' = Prepared(s) /\ listing'.from = s /\ listing'.day = listing.day
      BY <1>1 DEF Prepared, AtRule, ListingType
    <3>2. Prepared(s).at = IF 1 \in DOMAIN RulesOf(s, listing.day)
                           THEN listing.day * DayLength + RulesOf(s, listing.day)[1].start
                           ELSE 0
      BY <1>1 DEF Prepared, AtRule, ListingType
    <3>3. QED
      BY <3>1, <3>2
  <2>3. QED
    BY <2>1, <2>2, PassedNone
<1>7. Collected'
  <2>1. \A t \in Int : t \notin ToSet(listing'.starts)
    BY <1>2 DEF ToSet
  <2>2. QED
    BY <1>2, <1>6, <2>1 DEF Collected
<1>8. QED
  BY <1>4, <1>5, <1>7 DEF SlotInv

LEMMA BeginKeeps ==
    ASSUME SlotInv, NEW o \in Offering, NEW d \in ListedDay, ListBegin(o, d)
    PROVE SlotInv'
<1>1. Length(o) \in Nat /\ d \in Nat
  BY LengthType, DayAssumption
<1>2. setting \in SettingType \cup {NoSetting}
  BY DEF SlotInv, SlotTypeOK
<1>3. listing' \in ListingType /\ listing'.stage = "setting" /\ listing'.starts = <<>>
      /\ listing'.length = Length(listing'.what)
  BY <1>1, <1>2 DEF ListBegin, ListingType
<1>4. ListingOK(listing')
  BY <1>3 DEF ListingOK
<1>5. OfferOK(offer') /\ offer' = NoOffer /\ disturbed' = FALSE
  BY DEF ListBegin, OfferOK
<1>6. UNCHANGED <<status, clock, setting>>
  BY DEF ListBegin, vars
<1>7. SlotTypeOK'
  BY <1>4, <1>5, <1>6 DEF SlotInv, SlotTypeOK, StatusOK
<1>8. QED
  BY <1>3, <1>5, <1>7 DEF SlotInv, ListedSlotsRight

\* What a listing in the middle of its scan is known to be.
LEMMA Scanning ==
    ASSUME SlotInv, listing.stage = "scan"
    PROVE /\ listing \in ListingType /\ listing.length = Length(listing.what)
          /\ Placed(listing)
          /\ listing.from \in SettingType /\ listing.day \in Nat /\ listing.length \in Nat
          /\ listing.at \in Int /\ listing.starts \in Seq(Int)
          /\ listing.rules = RulesOf(listing.from, listing.day)
          /\ listing.rules \in Seq(RuleType)
          /\ listing.from.interval \in Nat \ {0}
BY DEF SlotInv, SlotTypeOK, ListingOK, NoListing, ListingType, Placed, SettingType

\* The time at which the listing stands, if a slot fits there, is on the grid.
LEMMA StandsOnGrid ==
    ASSUME SlotInv, listing.stage = "scan", Fits
    PROVE /\ listing.rule \in DOMAIN RulesOf(listing.from, listing.day)
          /\ OnGrid(listing.from, listing.day, listing.length, listing.rule, listing.at)
          /\ listing.at \in listing.day * DayLength .. (listing.day + 1) * DayLength
<1>1. /\ Placed(listing) /\ listing.day \in Nat /\ listing.length \in Nat
      /\ listing.at \in Int /\ listing.rules = RulesOf(listing.from, listing.day)
      /\ listing.rules \in Seq(RuleType)
  BY Scanning
<1>2. listing.rule \in DOMAIN listing.rules
  BY DEF Fits, InRule
<1> DEFINE rule == listing.rules[listing.rule]
           base == listing.day * DayLength
<1>3. rule \in RuleType
  BY <1>1, <1>2
<1>4. rule.start \in 0 .. DayLength /\ rule.end \in 0 .. DayLength
  BY <1>3 DEF RuleType
<1>5. /\ listing.at >= base + rule.start
      /\ (listing.at - (base + rule.start)) % listing.from.interval = 0
  BY <1>1, <1>2 DEF Placed
<1>6. rule.open /\ listing.at + listing.length <= base + rule.end
  BY DEF Fits, ClosingTime
<1>7. base \in Int /\ (listing.day + 1) * DayLength = base + DayLength
  BY <1>1, DayAssumption
<1>8. OnGrid(listing.from, listing.day, listing.length, listing.rule, listing.at)
  BY <1>1, <1>5, <1>6 DEF OnGrid
<1> HIDE DEF rule, base
<1>9. listing.at \in base .. base + DayLength
  BY <1>1, <1>4, <1>5, <1>6, <1>7, DayAssumption
<1>10. QED
  BY <1>1, <1>2, <1>7, <1>8, <1>9 DEF base

\* The listing takes or leaves the slot at which it stands and goes on.
LEMMA AdvanceKeeps ==
    ASSUME SlotInv, listing.stage = "scan", Fits, Still, UNCHANGED <<setting, offer, disturbed>>,
           NEW starts \in Seq(Int),
           listing' = [listing EXCEPT !.starts = starts,
                                      !.at = listing.at + listing.from.interval],
           \A t \in Int : t \in ToSet(starts) <=>
               \/ t \in ToSet(listing.starts)
               \/ /\ t = listing.at
                  /\ Bookable(listing.from, listing.day, listing.length, t)
    PROVE SlotInv'
<1> DEFINE s == listing.from  d == listing.day  n == listing.length
           rule == listing.rule  at == listing.at
<1>1. /\ listing \in ListingType /\ n = Length(listing.what) /\ Placed(listing)
      /\ s \in SettingType /\ d \in Nat /\ n \in Nat /\ at \in Int
      /\ listing.rules = RulesOf(s, d) /\ listing.rules \in Seq(RuleType)
      /\ s.interval \in Nat \ {0}
  BY Scanning
<1>2. rule \in DOMAIN RulesOf(s, d) /\ OnGrid(s, d, n, rule, at)
  BY StandsOnGrid
<1>3. /\ listing' \in ListingType
      /\ listing'.stage = "scan" /\ listing'.what = listing.what /\ listing'.length = n
      /\ listing'.from = s /\ listing'.day = d /\ listing'.rules = listing.rules
      /\ listing'.rule = rule /\ listing'.at = at + s.interval /\ listing'.starts = starts
  <2> DEFINE v == at + s.interval
  <2>1. v \in Int /\ listing' = [listing EXCEPT !.starts = starts, !.at = v]
    BY <1>1
  <2> HIDE DEF v
  <2>2. listing \in ListingType /\ listing.stage = "scan"
    BY <1>1
  <2>3. listing' \in ListingType
    BY <2>1, <2>2 DEF ListingType
  <2>4. /\ listing'.stage = listing.stage /\ listing'.what = listing.what
        /\ listing'.length = listing.length /\ listing'.from = listing.from
        /\ listing'.day = listing.day /\ listing'.rules = listing.rules
        /\ listing'.rule = listing.rule /\ listing'.at = v /\ listing'.starts = starts
    BY <2>1, <2>2 DEF ListingType
  <2>5. QED
    BY <2>2, <2>3, <2>4 DEF v
<1>4. Placed(listing')
  <2> DEFINE opening == d * DayLength + listing.rules[rule].start
  <2>1. listing.rules[rule] \in RuleType
    BY <1>1, <1>2
  <2>2. opening \in Int
    BY <1>1, <2>1, DayAssumption DEF RuleType
  <2>3. at >= opening /\ (at - opening) % s.interval = 0
    BY <1>1, <1>2 DEF Placed
  <2> HIDE DEF opening
  <2>4. at + s.interval >= opening /\ at + s.interval - opening = (at - opening) + s.interval
    BY <1>1, <2>2, <2>3
  <2> DEFINE a == at - opening
  <2>5. a \in Int /\ a % s.interval = 0
    BY <1>1, <2>2, <2>3
  <2> HIDE DEF a
  <2>6. (a + s.interval) % s.interval = 0
    BY <1>1, <2>5, NextStep
  <2>7. (at + s.interval - opening) % s.interval = 0
    BY <2>4, <2>6 DEF a
  <2>8. /\ listing'.rule \in 1 .. Len(listing'.rules) + 1 /\ listing'.from \in SettingType
        /\ listing'.rules = RulesOf(listing'.from, listing'.day)
    BY <1>1, <1>3 DEF Placed
  <2> DEFINE opens == listing'.day * DayLength + listing'.rules[listing'.rule].start
  <2>9. opens = opening
    BY <1>3 DEF opening
  <2> HIDE DEF opens
  <2>10. listing'.at >= opens /\ (listing'.at - opens) % listing'.from.interval = 0
    <3>1. listing'.at = at + s.interval /\ listing'.from = s /\ at \in Int /\ s.interval \in Int
      BY <1>1, <1>3
    <3> HIDE DEF s, at
    <3>2. listing'.at - opens = at + s.interval - opening
      BY <2>2, <2>9, <3>1, <1>1
    <3>3. QED
      BY <2>4, <2>7, <2>9, <3>1, <3>2
  <2>11. QED
    BY <2>8, <2>10 DEF Placed, opens
<1>5. ListingOK(listing')
  BY <1>1, <1>3, <1>4 DEF ListingOK
<1>6. SlotTypeOK'
  BY <1>5 DEF SlotInv, SlotTypeOK, StatusOK, Still
<1>7. ListedSlotsRight'
  BY ListedStill DEF SlotInv
<1>8. ASSUME ~disturbed' PROVE Collected'
  <2>1. Collected
    BY <1>8 DEF SlotInv
  <2> HIDE DEF s, d, n, rule, at
  <2>2. ASSUME NEW t \in Int
        PROVE t \in ToSet(starts) <=>
                 Bookable(s, d, n, t) /\ Passed(s, d, n, rule, at + s.interval, t)
    <3>1. Passed(s, d, n, rule, at + s.interval, t) <=> Passed(s, d, n, rule, at, t) \/ t = at
      BY <1>1, <1>2, PassedAdvance DEF s, d, n, rule, at
    <3>2. t \in ToSet(listing.starts) <=> Bookable(s, d, n, t) /\ Passed(s, d, n, rule, at, t)
      BY <2>1 DEF Collected, s, d, n, rule, at
    <3>3. t \in ToSet(starts) <=>
             t \in ToSet(listing.starts) \/ (t = at /\ Bookable(s, d, n, t))
      BY DEF s, d, n, at
    <3>4. QED
      BY <3>1, <3>2, <3>3
  <2>3. ASSUME NEW t \in Int
        PROVE Bookable(listing.from, listing.day, listing.length, t)' <=> Bookable(s, d, n, t)
    BY <1>3 DEF Still, Bookable, Allowed, Conflicting, Active, s, d, n
  <2>4. ASSUME NEW t \in Int
        PROVE Passed(listing'.from, listing'.day, listing'.length, listing'.rule, listing'.at, t)
                 <=> Passed(s, d, n, rule, at + s.interval, t)
    BY <1>3 DEF s, d, n, rule, at
  <2>5. QED
    BY <2>2, <2>3, <2>4, <1>3 DEF Collected
<1>9. QED
  BY <1>3, <1>6, <1>7, <1>8 DEF SlotInv

LEMMA SkipKeeps == ASSUME SlotInv, ListSkip PROVE SlotInv'
<1>1. listing \in ListingType /\ listing.starts \in Seq(Int)
  BY Scanning DEF ListSkip
<1>2. listing' = [listing EXCEPT !.starts = listing.starts,
                                 !.at = listing.at + listing.from.interval]
  BY <1>1 DEF ListSkip, Advanced, ListingType
<1>3. ~Bookable(listing.from, listing.day, listing.length, listing.at)
  BY DEF ListSkip, Bookable
<1>4. Still /\ UNCHANGED <<setting, offer, disturbed>>
  BY DEF ListSkip, Still, vars
<1>5. QED
  BY <1>1, <1>2, <1>3, <1>4, AdvanceKeeps DEF ListSkip

LEMMA CheckKeeps == ASSUME SlotInv, ListCheck PROVE SlotInv'
<1>1. listing \in ListingType /\ listing.starts \in Seq(Int) /\ listing.at \in Int
  BY Scanning DEF ListCheck
<1>2. listing.at \in listing.day * DayLength .. (listing.day + 1) * DayLength
  BY StandsOnGrid DEF ListCheck
<1>3. Still /\ UNCHANGED <<setting, offer, disturbed>>
  BY DEF ListCheck, Still, vars
<1>4. CASE Conflicting(Candidate) = {}
  <2> DEFINE starts == Append(listing.starts, listing.at)
  <2>1. starts \in Seq(Int)
    BY <1>1
  <2>2. \A t \in Int : t \in ToSet(starts) <=> t \in ToSet(listing.starts) \/ t = listing.at
    <3>1. /\ Len(starts) = Len(listing.starts) + 1 /\ Len(listing.starts) \in Nat
          /\ DOMAIN starts = 1 .. Len(starts)
          /\ DOMAIN listing.starts = 1 .. Len(listing.starts)
          /\ starts[Len(starts)] = listing.at
          /\ \A i \in DOMAIN listing.starts : starts[i] = listing.starts[i]
      BY <1>1
    <3> HIDE DEF starts
    <3>2. QED
      BY <3>1 DEF ToSet
  <2>3. Bookable(listing.from, listing.day, listing.length, listing.at)
    BY <1>2, <1>4 DEF ListCheck, Bookable, Candidate
  <2>4. listing' = [listing EXCEPT !.starts = starts,
                                   !.at = listing.at + listing.from.interval]
    BY <1>1, <1>4 DEF ListCheck, Advanced, ListingType
  <2> HIDE DEF starts
  <2>5. QED
    BY <1>3, <2>1, <2>2, <2>3, <2>4, AdvanceKeeps DEF ListCheck
<1>5. CASE Conflicting(Candidate) # {}
  <2>1. listing' = [listing EXCEPT !.starts = listing.starts,
                                   !.at = listing.at + listing.from.interval]
    BY <1>1, <1>5 DEF ListCheck, Advanced, ListingType
  <2>2. ~Bookable(listing.from, listing.day, listing.length, listing.at)
    BY <1>5 DEF Bookable, Candidate
  <2>3. QED
    BY <1>1, <1>3, <2>1, <2>2, AdvanceKeeps DEF ListCheck
<1>6. QED
  BY <1>4, <1>5

\* A rule that fits no more is behind the listing with its whole grid.
LEMMA NextRuleKeeps == ASSUME SlotInv, ListNextRule PROVE SlotInv'
<1> DEFINE s == listing.from  d == listing.day  n == listing.length
           rule == listing.rule  at == listing.at  R == RulesOf(s, d)
           next == IF rule + 1 \in DOMAIN R THEN d * DayLength + R[rule + 1].start ELSE 0
<1>1. /\ listing \in ListingType /\ n = Length(listing.what) /\ Placed(listing)
      /\ s \in SettingType /\ d \in Nat /\ n \in Nat /\ at \in Int
      /\ listing.rules = R /\ R \in Seq(RuleType)
      /\ s.interval \in Nat \ {0}
  BY Scanning DEF ListNextRule
<1>2. rule \in DOMAIN R /\ listing.stage = "scan" /\ ~Fits
  BY <1>1 DEF ListNextRule, InRule
<1>3. ~(R[rule].open /\ at + n <= d * DayLength + R[rule].end)
  BY <1>1, <1>2 DEF Fits, InRule, ClosingTime
<1>4. rule \in 1 .. Len(R) /\ DOMAIN R = 1 .. Len(R) /\ Len(R) \in Nat
  BY <1>1, <1>2
<1>5. next \in Int
  <2> HIDE DEF R
  <2>1. CASE rule + 1 \in DOMAIN R
    <3>1. R[rule + 1] \in RuleType
      BY <1>1, <2>1
    <3>2. QED
      BY <3>1, <1>1, DayAssumption DEF RuleType
  <2>2. CASE rule + 1 \notin DOMAIN R
    BY <2>2
  <2>3. QED
    BY <2>1, <2>2
<1>6. Still /\ UNCHANGED <<setting, offer, disturbed>>
  BY DEF ListNextRule, Still, vars
<1>7. listing' = [listing EXCEPT !.rule = rule + 1, !.at = next]
  BY <1>1 DEF ListNextRule, AtRule
<1> HIDE DEF next, R
<1>8. /\ listing' \in ListingType
      /\ listing'.stage = "scan" /\ listing'.what = listing.what /\ listing'.length = n
      /\ listing'.from = s /\ listing'.day = d /\ listing'.rules = R
      /\ listing'.rule = rule + 1 /\ listing'.at = next
      /\ listing'.starts = listing.starts
  <2> DEFINE r == rule + 1
  <2>1. r \in Nat /\ listing' = [listing EXCEPT !.rule = r, !.at = next]
    BY <1>4, <1>7
  <2> HIDE DEF r
  <2>2. listing' \in ListingType
    BY <1>1, <1>5, <2>1 DEF ListingType
  <2>3. /\ listing'.stage = listing.stage /\ listing'.what = listing.what
        /\ listing'.length = listing.length /\ listing'.from = listing.from
        /\ listing'.day = listing.day /\ listing'.rules = listing.rules
        /\ listing'.rule = r /\ listing'.at = next /\ listing'.starts = listing.starts
    BY <1>1, <2>1 DEF ListingType
  <2>4. QED
    BY <1>1, <1>2, <2>2, <2>3 DEF r
<1>9. Placed(listing')
  <2>1. listing'.rule \in 1 .. Len(listing'.rules) + 1 /\ listing'.from \in SettingType
        /\ listing'.rules = RulesOf(listing'.from, listing'.day)
    BY <1>1, <1>4, <1>8 DEF R
  <2> DEFINE opens == listing'.day * DayLength + listing'.rules[listing'.rule].start
  <2>2. ASSUME listing'.rule \in DOMAIN listing'.rules
        PROVE listing'.at >= opens /\ (listing'.at - opens) % listing'.from.interval = 0
    <3>1. opens = next
      BY <1>8, <2>2 DEF next
    <3> HIDE DEF opens
    <3>2. listing'.at = next /\ opens = next /\ listing'.from = s
      BY <1>8, <3>1
    <3> HIDE DEF s
    <3>3. listing'.at >= opens /\ listing'.at - opens = 0
      BY <3>2, <1>5
    <3>4. 0 % s.interval = 0
      BY <1>1
    <3>5. QED
      BY <3>2, <3>3, <3>4
  <2>3. QED
    BY <2>1, <2>2 DEF Placed
<1>10. ListingOK(listing')
  BY <1>1, <1>8, <1>9 DEF ListingOK
<1>11. SlotTypeOK'
  BY <1>6, <1>10 DEF SlotInv, SlotTypeOK, StatusOK, Still
<1>12. ListedSlotsRight'
  BY <1>6, ListedStill DEF SlotInv
<1>13. ASSUME ~disturbed' PROVE Collected'
  <2>1. Collected
    BY <1>2, <1>6, <1>13 DEF SlotInv
  <2> HIDE DEF s, d, n, rule, at
  <2>2. ASSUME NEW t \in Int
        PROVE Passed(s, d, n, rule + 1, next, t) <=> Passed(s, d, n, rule, at, t)
    <3>1. rule + 1 \in DOMAIN R => next = d * DayLength + R[rule + 1].start
      BY DEF next
    <3>2. QED
      BY <1>1, <1>2, <1>3, <1>5, <3>1, PassedRule DEF R
  <2>3. ASSUME NEW t \in Int
        PROVE t \in ToSet(listing'.starts) <=>
                 Bookable(s, d, n, t) /\ Passed(s, d, n, rule + 1, next, t)
    BY <1>8, <2>1, <2>2 DEF Collected, s, d, n, rule, at
  <2>4. ASSUME NEW t \in Int
        PROVE Bookable(listing.from, listing.day, listing.length, t)' <=> Bookable(s, d, n, t)
    BY <1>6, <1>8 DEF Still, Bookable, Allowed, Conflicting, Active, s, d, n
  <2>5. ASSUME NEW t \in Int
        PROVE Passed(listing'.from, listing'.day, listing'.length, listing'.rule, listing'.at, t)
                 <=> Passed(s, d, n, rule + 1, next, t)
    BY <1>8 DEF s, d, n, rule
  <2>6. QED
    BY <2>3, <2>4, <2>5 DEF Collected
<1>14. QED
  BY <1>8, <1>11, <1>12, <1>13 DEF SlotInv

\* Past the last rule, what was collected is what the definition says.
LEMMA AnswerKeeps == ASSUME SlotInv, ListAnswer PROVE SlotInv'
<1> DEFINE s == listing.from  d == listing.day  n == listing.length
           rule == listing.rule  at == listing.at
<1>1. /\ listing \in ListingType /\ n = Length(listing.what) /\ Placed(listing)
      /\ s \in SettingType /\ d \in Nat /\ n \in Nat /\ at \in Int
      /\ listing.rules = RulesOf(s, d) /\ listing.starts \in Seq(Int)
      /\ listing.what \in Offering
  BY Scanning DEF ListAnswer, ListingType
<1>2. rule \in 1 .. Len(RulesOf(s, d)) + 1 /\ rule \notin DOMAIN RulesOf(s, d)
  BY <1>1 DEF ListAnswer, InRule, Placed
<1>3. Still /\ UNCHANGED <<setting, disturbed>> /\ listing' = NoListing
  BY DEF ListAnswer, Still, vars
<1>4. /\ offer'.starts = listing.starts /\ offer'.what = listing.what
      /\ offer'.day = d /\ offer'.from = s /\ OfferOK(offer')
  BY <1>1 DEF ListAnswer, OfferOK
<1>5. SlotTypeOK'
  BY <1>3, <1>4 DEF SlotInv, SlotTypeOK, StatusOK, ListingOK, Still
<1>6. ASSUME ~disturbed' PROVE ToSet(offer'.starts) = FreeStarts(s, d, n)
  <2>1. Collected
    BY <1>3, <1>6 DEF SlotInv, ListAnswer
  <2>2. ToSet(listing.starts) \subseteq Int
    BY <1>1 DEF ToSet
  <2>3. FreeStarts(s, d, n) \subseteq Int
    <3>1. d * DayLength \in Int /\ (d + 1) * DayLength \in Int
      BY <1>1, DayAssumption
    <3>2. QED
      BY <3>1 DEF FreeStarts
  <2>4. ASSUME NEW t \in Int
        PROVE t \in ToSet(listing.starts) <=> t \in FreeStarts(s, d, n)
    <3>1. t \in ToSet(listing.starts) <=> Bookable(s, d, n, t) /\ Passed(s, d, n, rule, at, t)
      BY <2>1 DEF Collected
    <3> HIDE DEF s, d, n, rule, at
    <3>2. Passed(s, d, n, rule, at, t) <=>
             \E i \in DOMAIN RulesOf(s, d) : OnGrid(s, d, n, i, t)
      BY <1>1, <1>2, PassedAll
    <3>3. QED
      BY <3>1, <3>2 DEF Bookable, FreeStarts
  <2>5. QED
    BY <1>4, <2>2, <2>3, <2>4
<1>7. FreeStarts(offer.from, offer.day, Length(offer.what))' = FreeStarts(s, d, n)
  <2>1. offer'.from = s /\ offer'.day = d /\ Length(offer'.what) = n
    BY <1>1, <1>4
  <2> HIDE DEF s, d, n
  <2>2. QED
    BY <1>3, <2>1 DEF Still, FreeStarts, Allowed, Conflicting, Active
<1>8. ListedSlotsRight'
  BY <1>6, <1>7 DEF ListedSlotsRight
<1>9. listing'.stage # "scan"
  BY <1>3 DEF NoListing
<1>10. QED
  BY <1>5, <1>8, <1>9 DEF SlotInv

\* The others leave the listing alone; what they change of what it depends on
\* marks it as disturbed.
LEMMA OthersKeep ==
    ASSUME SlotInv, UNCHANGED <<listing, offer>>, StatusOK', clock' \in Nat,
           setting' \in SettingType \cup {NoSetting},
           disturbed' = TRUE \/ (Still /\ UNCHANGED disturbed)
    PROVE SlotInv'
<1>1. SlotTypeOK'
  BY DEF SlotInv, SlotTypeOK
<1>2. CASE disturbed' = TRUE
  BY <1>1, <1>2 DEF SlotInv, ListedSlotsRight
<1>3. CASE Still /\ UNCHANGED disturbed
  BY <1>1, <1>3, ListedStill, CollectedStill DEF SlotInv
<1>4. QED
  BY <1>2, <1>3

LEMMA SlotInvInit == SlotInit => SlotInv
<1> SUFFICES ASSUME SlotInit PROVE SlotInv
  OBVIOUS
<1>1. StatusOK
  BY DEF SlotInit, Init, StatusOK
<1>2. setting \in SettingType \cup {NoSetting}
  BY SettingAssumption DEF SlotInit
<1>3. listing = NoListing /\ offer = NoOffer /\ clock = 0 /\ disturbed = FALSE
  BY DEF SlotInit
<1>4. SlotTypeOK
  BY <1>1, <1>2, <1>3 DEF SlotTypeOK, ListingOK, OfferOK
<1>5. QED
  BY <1>3, <1>4 DEF SlotInv, ListedSlotsRight, NoListing

LEMMA ListStepKeeps == ASSUME SlotInv, ListStep \/ ListFails PROVE SlotInv'
<1> USE DEF vars
<1>1. SlotTypeOK /\ StatusOK /\ clock \in Nat /\ setting \in SettingType \cup {NoSetting}
  BY DEF SlotInv, SlotTypeOK
<1>2. ASSUME UNCHANGED <<vars, clock, offer, disturbed>>, listing' = NoListing,
             setting' \in SettingType \cup {NoSetting}
      PROVE SlotInv'
  <2>1. Still
    BY <1>2 DEF Still
  <2>2. SlotTypeOK'
    BY <1>1, <1>2, <2>1 DEF SlotTypeOK, StatusOK, ListingOK, OfferOK, Still
  <2>3. ListedSlotsRight'
    BY <1>2, <2>1, ListedStill DEF SlotInv
  <2>4. QED
    BY <1>2, <2>2, <2>3 DEF SlotInv, NoListing
<1>3. ASSUME ListSetting PROVE SlotInv'
  <2>1. CASE setting = NoSetting
    <3>1. listing \in ListingType /\ listing.length = Length(listing.what)
          /\ listing.starts = <<>>
      BY <1>1, <1>3 DEF ListSetting, SlotTypeOK, ListingOK, NoListing
    <3>2. listing' = [listing EXCEPT !.stage = "default"]
      BY <1>3, <2>1 DEF ListSetting
    <3>3. /\ listing' \in ListingType /\ listing'.stage = "default"
          /\ listing'.length = Length(listing'.what) /\ listing'.starts = <<>>
      BY <3>1, <3>2 DEF ListingType
    <3>4. ListingOK(listing')
      BY <3>3 DEF ListingOK
    <3>5. Still /\ UNCHANGED <<offer, disturbed, setting>>
      BY <1>3 DEF ListSetting, Still
    <3>6. SlotTypeOK'
      BY <1>1, <3>4, <3>5 DEF SlotTypeOK, StatusOK, Still
    <3>7. QED
      BY <3>3, <3>5, <3>6, ListedStill DEF SlotInv
  <2>2. CASE setting # NoSetting
    <3>1. Still /\ UNCHANGED <<offer, disturbed, setting>>
      BY <1>3 DEF ListSetting, Still
    <3>2. listing' = Prepared(setting) /\ setting \in SettingType /\ listing.stage = "setting"
      BY <1>1, <1>3, <2>2 DEF ListSetting
    <3>3. QED
      BY <1>1, <3>1, <3>2, PreparedKeeps
  <2>3. QED
    BY <2>1, <2>2
<1>4. ASSUME ListDefault PROVE SlotInv'
  <2>1. CASE setting # NoSetting
    BY <1>1, <1>2, <1>4, <2>1 DEF ListDefault
  <2>2. CASE setting = NoSetting
    <3>1. Still /\ UNCHANGED <<offer, disturbed>> /\ setting' = DefaultSetting
          /\ listing' = Prepared(DefaultSetting) /\ listing.stage = "default"
      BY <1>4, <2>2 DEF ListDefault, Still
    <3>2. QED
      BY <3>1, DefaultIsASetting, PreparedKeeps
  <2>3. QED
    BY <2>1, <2>2
<1>5. ListFails => SlotInv'
  BY <1>1, <1>2 DEF ListFails
<1>6. QED
  BY <1>3, <1>4, <1>5, SkipKeeps, CheckKeeps, NextRuleKeeps, AnswerKeeps DEF ListStep

LEMMA SlotInvStep == SlotInv /\ [SlotNext]_<<vars, slotVars>> => SlotInv'
<1> SUFFICES ASSUME SlotInv, [SlotNext]_<<vars, slotVars>> PROVE SlotInv'
  OBVIOUS
<1>1. StatusOK /\ clock \in Nat /\ setting \in SettingType \cup {NoSetting}
      /\ disturbed \in BOOLEAN
  BY DEF SlotInv, SlotTypeOK
<1>2. ASSUME NEW w \in Worker, SlotHandlerStep(w) PROVE SlotInv'
  <2>1. StatusOK' /\ (status' = status => booked' = booked)
    BY <1>1, <1>2, HandlerStatus DEF SlotHandlerStep
  <2>2. CASE status' = status
    <3>1. Still /\ UNCHANGED disturbed
      BY <1>1, <1>2, <2>1, <2>2 DEF SlotHandlerStep, Still
    <3>2. QED
      BY <1>1, <1>2, <2>1, <3>1, OthersKeep DEF SlotHandlerStep
  <2>3. CASE status' # status
    <3>1. disturbed' = TRUE
      BY <1>1, <1>2, <2>3 DEF SlotHandlerStep
    <3>2. QED
      BY <1>1, <1>2, <2>1, <3>1, OthersKeep DEF SlotHandlerStep
  <2>4. QED
    BY <2>2, <2>3
<1>3. ASSUME UNCHANGED <<status, booked, listing, offer, clock, disturbed>>,
             setting' \in SettingType \cup {NoSetting}
      PROVE SlotInv'
  BY <1>1, <1>3, OthersKeep DEF Still, StatusOK
<1>4. ASSUME NEW w \in Worker, NEW i \in DOMAIN offer.starts, NEW p \in Phone,
             NEW chosen \in BOOLEAN, NEW resolved \in BOOLEAN,
             PickSlot(w, i, chosen, resolved, p)
      PROVE SlotInv'
  BY <1>1, <1>3, <1>4 DEF PickSlot, CreateBegin
<1>5. ASSUME NEW s \in BookingSetting, SaveSetting(s) PROVE SlotInv'
  BY <1>1, <1>5, OthersKeep, SettingAssumption DEF SaveSetting, vars, StatusOK
<1>6. DefaultElsewhere => SlotInv'
  BY <1>3, DefaultIsASetting DEF DefaultElsewhere, vars
<1>7. SlotTick => SlotInv'
  BY <1>1, OthersKeep DEF SlotTick, vars, StatusOK
<1>8. UNCHANGED <<vars, slotVars>> => SlotInv'
  BY <1>1, <1>3 DEF vars, slotVars
<1>9. QED
  BY <1>2, <1>4, <1>5, <1>6, <1>7, <1>8, BeginKeeps, ListStepKeeps DEF SlotNext

\* Whatever the settings, the offered services, the bookings and the day: an
\* answer of get_available_slots that nothing disturbed lists exactly the free
\* slots of the day.
THEOREM SlotsRight == SlotSpec => []ListedSlotsRight
<1>1. SlotInv => ListedSlotsRight
  BY DEF SlotInv
<1>2. QED
  BY SlotInvInit, SlotInvStep, <1>1, PTL DEF SlotSpec

PickedOK == picked \in [Worker -> [start : Int, end : Int]]

\* A picked slot is a span, and so is what is booked for it.
LEMMA PickedSpans ==
    ASSUME OfferOK(offer), NEW w \in Worker, NEW i \in DOMAIN offer.starts,
           NEW p \in Phone, NEW chosen \in BOOLEAN, NEW resolved \in BOOLEAN,
           PickSlot(w, i, chosen, resolved, p)
    PROVE /\ PickedOK => PickedOK'
          /\ \E span \in [start : Int, end : Int] : CreateBegin(w, span, p)
<1> DEFINE o == offer.what  t == offer.starts[i]
           need == IF o.item = NoItem THEN Length(o) ELSE ItemWithOption(o, chosen)
           length == BookedLength(o, chosen, resolved)
<1>1. offer \in [starts : Seq(Int), what : Offering, day : Nat, from : SettingType]
  BY DEF OfferOK, NoOffer
<1>2. o \in Offering /\ offer.starts \in Seq(Int)
  BY <1>1
<1>3. t \in Int
  BY <1>2
<1> HIDE DEF o, t
<1>4. /\ o.service \in Nat \cup {NoDuration} /\ o.option \in Int
      /\ o.item \in Nat \cup {NoItem, NoDuration}
  BY <1>2, OfferingAssumption
<1>5. o.item # NoItem => ItemWithOption(o, chosen) \in Int
  BY <1>4 DEF ItemWithOption
<1>6. need \in Int
  BY <1>2, <1>5, LengthType
<1>7. length \in Int
  BY <1>4, <1>5 DEF BookedLength
<1> HIDE DEF need, length
<1>8. t + need \in Int /\ t + length \in Int
  BY <1>3, <1>6, <1>7
<1>9. /\ CreateBegin(w, [start |-> t, end |-> t + length], p)
      /\ picked' = [picked EXCEPT ![w] = [start |-> t, end |-> t + need]]
  BY DEF PickSlot, o, t, need, length
<1>10. [start |-> t, end |-> t + length] \in [start : Int, end : Int]
  BY <1>3, <1>8
<1>11. PickedOK => PickedOK'
  BY <1>3, <1>8, <1>9 DEF PickedOK
<1>12. QED
  BY <1>9, <1>10, <1>11

\* The type invariant of Slots: the settings rows, the stages of the listing
\* and what it has placed, the answers, and the spans that were picked.
THEOREM SlotTypeCorrect == SlotSpec => [](SlotTypeOK /\ PickedOK)
<1>1. SlotInit => PickedOK
  BY DEF SlotInit, PickedOK, NoSpan
<1>2. SlotInv /\ PickedOK /\ [SlotNext]_<<vars, slotVars>> => PickedOK'
  <2> SUFFICES ASSUME SlotInv, PickedOK, [SlotNext]_<<vars, slotVars>> PROVE PickedOK'
    OBVIOUS
  <2>1. ASSUME NEW w \in Worker, SlotHandlerStep(w) PROVE PickedOK'
    BY <2>1 DEF SlotHandlerStep, PickedOK, NoSpan
  <2>2. ASSUME NEW w \in Worker, NEW i \in DOMAIN offer.starts, NEW p \in Phone,
               NEW chosen \in BOOLEAN, NEW resolved \in BOOLEAN,
               PickSlot(w, i, chosen, resolved, p)
        PROVE PickedOK'
    BY <2>2, PickedSpans DEF SlotInv, SlotTypeOK
  <2>3. CASE UNCHANGED picked
    BY <2>3 DEF PickedOK
  <2>4. ASSUME NEW o \in Offering, NEW d \in ListedDay, ListBegin(o, d) PROVE UNCHANGED picked
    BY <2>4 DEF ListBegin
  <2>5. ListStep \/ ListFails => UNCHANGED picked
    BY DEF ListStep, ListFails, ListSetting, ListDefault, ListSkip, ListCheck,
       ListNextRule, ListAnswer
  <2>6. ASSUME NEW s \in BookingSetting, SaveSetting(s) PROVE UNCHANGED picked
    BY <2>6 DEF SaveSetting
  <2>7. DefaultElsewhere \/ SlotTick \/ UNCHANGED <<vars, slotVars>> => UNCHANGED picked
    BY DEF DefaultElsewhere, SlotTick, slotVars
  <2>8. QED
    BY <2>1, <2>2, <2>3, <2>4, <2>5, <2>6, <2>7 DEF SlotNext
<1>3. SlotInv => SlotTypeOK
  BY DEF SlotInv
<1>4. QED
  BY SlotInvInit, SlotInvStep, <1>1, <1>2, <1>3, PTL DEF SlotSpec

\* Customers who pick among the listed slots drive the handlers of Reservations,
\* over every span: what is proved of the handlers holds behind the listing.
THEOREM SlotsImplementReservations ==
    ASSUME Span = [start : Int, end : Int] PROVE SlotSpec => Spec
<1>1. SlotInit => Init
  BY DEF SlotInit
<1>2. SlotInv /\ [SlotNext]_<<vars, slotVars>> => [Next]_vars
  <2> SUFFICES ASSUME SlotInv, [SlotNext]_<<vars, slotVars>> PROVE [Next]_vars
    OBVIOUS
  <2>1. ASSUME NEW w \in Worker, SlotHandlerStep(w) PROVE Next
    BY <2>1 DEF SlotHandlerStep, Next
  <2>2. ASSUME NEW w \in Worker, NEW i \in DOMAIN offer.starts, NEW p \in Phone,
               NEW chosen \in BOOLEAN, NEW resolved \in BOOLEAN,
               PickSlot(w, i, chosen, resolved, p)
        PROVE Next
    <3>1. \E span \in Span : CreateBegin(w, span, p)
      BY <2>2, PickedSpans DEF SlotInv, SlotTypeOK
    <3>2. QED
      BY <3>1 DEF Next, HandlerStep
  <2>3. ASSUME NEW o \in Offering, NEW d \in ListedDay, ListBegin(o, d) PROVE UNCHANGED vars
    BY <2>3 DEF ListBegin
  <2>4. ListStep \/ ListFails => UNCHANGED vars
    BY DEF ListStep, ListFails, ListSetting, ListDefault, ListSkip, ListCheck,
       ListNextRule, ListAnswer
  <2>5. ASSUME NEW s \in BookingSetting, SaveSetting(s) PROVE UNCHANGED vars
    BY <2>5 DEF SaveSetting
  <2>6. DefaultElsewhere \/ SlotTick \/ UNCHANGED <<vars, slotVars>> => UNCHANGED vars
    BY DEF DefaultElsewhere, SlotTick, slotVars
  <2>7. QED
    BY <2>1, <2>2, <2>3, <2>4, <2>5, <2>6 DEF SlotNext
<1>3. QED
  BY SlotInvInit, SlotInvStep, <1>1, <1>2, PTL DEF SlotSpec, Spec

-----------------------------------------------------------------------------
(* The instances                                                           *)

\* In the scenario "serial" one handler is at work, with the calendar behind it.
SerialBookings ==
    scenario = "serial" =>
        /\ OneHandler /\ TypeOK /\ TargetExists /\ CheckStillGood /\ NothingStale
        /\ SyncInv /\ SerialInv

LEMMA SerialBookingsInit == MCInit => SerialBookings
<1> SUFFICES ASSUME MCInit PROVE SerialBookings
  OBVIOUS
<1>1. Init /\ SyncInit
  BY DEF MCInit, SyncInit
<1>2. OneHandler
  BY <1>1 DEF Init, OneHandler
<1>3. TypeOK /\ TargetExists
  BY <1>1, TypeInit
<1>4. CheckStillGood /\ NothingStale
  BY <1>1 DEF Init, NothingStale, Idle, CheckStillGood, Inserting, Active, ActiveStatus, At, NoSpan
<1>5. SyncInv /\ SerialInv
  BY <1>1, SyncInvInit, SerialSyncInit
<1> QED BY <1>2, <1>3, <1>4, <1>5 DEF SerialBookings

\* At most one of the workers is busy.
LEMMA BusyOne ==
  ASSUME NEW S, IsFiniteSet(S), Cardinality(S) <= 1
  PROVE  \A v, w \in S : v = w
<1> SUFFICES ASSUME NEW v \in S, NEW w \in S, v # w PROVE FALSE
  OBVIOUS
<1>1. IsFiniteSet({v}) /\ Cardinality({v}) = 1
  BY FS_Singleton
<1>2. Cardinality({v} \cup {w}) = 2
  BY <1>1, FS_AddElement
<1>3. Cardinality({v} \cup {w}) <= Cardinality(S)
  BY FS_Subset
<1>4. Cardinality(S) \in Nat
  BY FS_CardinalityType
<1> QED BY <1>2, <1>3, <1>4

LEMMA SerialBookingsStep ==
  ASSUME IsFiniteSet(Worker), SerialBookings, [MCNext]_mcVars
  PROVE  /\ SerialBookings'
         /\ [scenario = "serial" => Ledger!LedgerNext]_<<status, booked>>
<1>1. CASE scenario # "serial"
  <2>1. scenario' = scenario
    BY DEF MCNext, mcVars
  <2> QED BY <1>1, <2>1 DEF SerialBookings
<1>2. CASE scenario = "serial"
  <2>1. [SyncNext]_allVars
    BY <1>2 DEF MCNext, mcVars, allVars
  <2>2. [Next]_vars
    BY <2>1, SyncImplementsNext
  <2>3. OneHandler'
    <3>1. CASE UNCHANGED mcVars
      BY <1>2, <3>1 DEF mcVars, vars, SerialBookings, OneHandler
    <3>2. CASE MCNext
      <4> DEFINE B == {w \in Worker : handler'[w] # Idle}
      <4>1. IsFiniteSet(B)
        BY FS_Subset
      <4>2. Cardinality(B) <= 1
        BY <1>2, <3>2 DEF MCNext, Bounded, MaxBusy
      <4>3. \A v, w \in B : v = w
        BY <4>1, <4>2, BusyOne
      <4> QED BY <4>3 DEF OneHandler
    <3> QED BY <3>1, <3>2
  <2>4. TypeOK' /\ TargetExists' /\ CheckStillGood' /\ NothingStale'
    BY <1>2, <2>2, TypeStep, TargetStep, CheckStep, NothingStaleStep DEF SerialBookings
  <2>5. SyncInv' /\ SerialInv'
    BY <1>2, <2>1, SyncInvStep, SerialSyncStep DEF SerialBookings
  <2>6. [Ledger!LedgerNext]_<<status, booked>>
    BY <1>2, <2>2, LedgerStep DEF SerialBookings
  <2> QED BY <2>3, <2>4, <2>5, <2>6 DEF SerialBookings
<1> QED BY <1>1, <1>2

\* In every instance, whatever its bounds: while handlers run one at a time, a
\* mapping row marked cancelled names no live event.
THEOREM SerialInstancesRowsGone ==
  ASSUME IsFiniteSet(Worker)
  PROVE  MCSpec => []SerialCancelledRowNamesNoLiveEvent
<1>1. SerialBookings /\ [MCNext]_mcVars => SerialBookings'
  BY SerialBookingsStep
<1>2. SerialBookings => SerialCancelledRowNamesNoLiveEvent
  BY DEF SerialBookings, SerialInv, SerialCancelledRowNamesNoLiveEvent
<1> QED BY SerialBookingsInit, <1>1, <1>2, PTL DEF MCSpec

\* In every instance, whatever its bounds and whatever fails: handlers that run
\* one at a time implement the ledger, with the calendar behind them.
THEOREM SerialInstancesKeepLedger ==
  ASSUME IsFiniteSet(Worker)
  PROVE  MCSpec => SerialImplementsLedger
<1>1. SerialBookings /\ [MCNext]_mcVars
        => SerialBookings' /\ [scenario = "serial" => Ledger!LedgerNext]_<<status, booked>>
  BY SerialBookingsStep
<1>2. MCInit => Ledger!LedgerInit
  BY DEF MCInit, Init, SyncInit, Ledger!LedgerInit, NoSpan
<1> QED BY SerialBookingsInit, <1>1, <1>2, PTL DEF MCSpec, SerialImplementsLedger
=============================================================================

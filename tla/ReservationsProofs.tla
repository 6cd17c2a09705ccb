------------------------- MODULE ReservationsProofs -------------------------
(***************************************************************************)
(* Theorems about the booking handlers, for any number of workers,         *)
(* reservations, spans and telephone numbers.                              *)
(***************************************************************************)
EXTENDS Reservations, FiniteSetTheorems, TLAPS

-----------------------------------------------------------------------------
\* A confirm, reject or cancel handler between its read and its write works
\* on a row that exists: rows are never deleted.
TargetExists ==
    \A w \in Worker :
        handler[w].op \in {"confirm", "reject", "cancel"} =>
            /\ handler[w].target \in Reservation
            /\ status[handler[w].target] # "absent"

\* A reservation that is confirmed, or whose confirmation passed its re-check.
Committed(r) ==
    \/ status[r] = "confirmed"
    \/ \E w \in Worker : At(w, "confirm", "write") /\ handler[w].target = r

\* The inductive strengthening of DoubleConfirmNeedsResurrection.
CommittedApart ==
    \A r, q \in Reservation :
        /\ r # q
        /\ Active(r) /\ Active(q)
        /\ Committed(r) /\ Committed(q)
        /\ Overlap(booked[r], booked[q])
        => r \in resurrected \/ q \in resurrected

\* A create handler between its conflict check and its insert.
Inserting(w) == handler[w].op = "create"
                /\ handler[w].stage \in {"findCustomer", "newCustomer", "insert"}

\* What is left of a passed conflict check when no row was inserted since.
CheckStillGood ==
    \A w \in Worker : Inserting(w) /\ ~handler[w].stale =>
        \A r \in Reservation :
            Active(r) /\ Overlap(booked[r], handler[w].span) => r \in resurrected

-----------------------------------------------------------------------------
(* What the four ways of moving a handler on leave alone. *)

LEMMA GotoFrame ==
  ASSUME TypeOK, NEW w \in Worker, NEW st, Goto(w, st)
  PROVE  \A v \in Worker :
           /\ handler'[v].op = handler[v].op
           /\ handler'[v].target = handler[v].target
           /\ handler'[v].span = handler[v].span
           /\ handler'[v].phone = handler[v].phone
           /\ handler'[v].stale = handler[v].stale
           /\ handler'[v].stage = IF v = w THEN st ELSE handler[v].stage
<1>1. handler'[w] = [handler[w] EXCEPT !.stage = st]
  BY DEF TypeOK, Goto
<1>2. \A v \in Worker \ {w} : handler'[v] = handler[v]
  BY DEF TypeOK, Goto
<1>3. handler[w] \in Handler
  BY DEF TypeOK
<1>4. /\ handler'[w].op = handler[w].op
      /\ handler'[w].target = handler[w].target
      /\ handler'[w].span = handler[w].span
      /\ handler'[w].phone = handler[w].phone
      /\ handler'[w].stale = handler[w].stale
      /\ handler'[w].stage = st
  BY <1>1, <1>3 DEF Handler
<1>5. QED
  BY <1>2, <1>4

LEMMA FinishFrame ==
  ASSUME TypeOK, NEW w \in Worker, Finish(w)
  PROVE  /\ handler'[w].op = "idle" /\ handler'[w].stale = FALSE
         /\ handler'[w].stage = "idle"
         /\ \A v \in Worker \ {w} : handler'[v] = handler[v]
BY DEF TypeOK, Finish, Idle

LEMMA StartFrame ==
  ASSUME TypeOK, NEW w \in Worker, NEW op, NEW st, NEW r, Start(w, op, st, r)
  PROVE  /\ handler'[w].op = op /\ handler'[w].stage = st
         /\ handler'[w].target = r /\ handler'[w].stale = FALSE
         /\ \A v \in Worker \ {w} : handler'[v] = handler[v]
<1>1. handler'[w] = [Idle EXCEPT !.op = op, !.stage = st, !.target = r]
  BY DEF TypeOK, Start
<1>2. /\ handler'[w].op = op /\ handler'[w].stage = st
      /\ handler'[w].target = r /\ handler'[w].stale = FALSE
  BY <1>1 DEF Idle
<1>3. QED
  BY <1>2 DEF TypeOK, Start

LEMMA BeginFrame ==
  ASSUME TypeOK, NEW w \in Worker, NEW s, NEW p, CreateBegin(w, s, p)
  PROVE  /\ handler'[w].op = "create" /\ handler'[w].stage = "check"
         /\ handler'[w].stale = FALSE
         /\ handler'[w].span = s /\ s.start < s.end
         /\ \A v \in Worker \ {w} : handler'[v] = handler[v]
<1>1. handler'[w] = [Idle EXCEPT !.op = "create", !.stage = "check",
                                 !.span = s, !.phone = p]
  BY DEF TypeOK, CreateBegin
<1>2. /\ handler'[w].op = "create" /\ handler'[w].stage = "check"
      /\ handler'[w].stale = FALSE /\ handler'[w].span = s
  BY <1>1 DEF Idle
<1>3. QED
  BY <1>2 DEF TypeOK, CreateBegin

LEMMA InsertFrame ==
  ASSUME TypeOK, NEW w \in Worker, NEW r, CreateInsert(w, r)
  PROVE  /\ handler'[w].op = "create" /\ handler'[w].stage = "reply"
         /\ handler'[w].target = r
         /\ \A v \in Worker \ {w} :
              /\ handler'[v].op = handler[v].op
              /\ handler'[v].stage = handler[v].stage
              /\ handler'[v].target = handler[v].target
              /\ handler'[v].span = handler[v].span
              /\ handler'[v].phone = handler[v].phone
              /\ handler'[v].stale = (handler[v].stale \/ PastCheck(v))
<1>1. handler'[w] = [handler[w] EXCEPT !.stage = "reply", !.target = r]
  BY DEF CreateInsert
<1>2. \A v \in Worker \ {w} : handler'[v] = [handler[v] EXCEPT !.stale = @ \/ PastCheck(v)]
  BY DEF CreateInsert
<1>3. \A v \in Worker : handler[v] \in Handler
  BY DEF TypeOK
<1>4. QED
  BY <1>1, <1>2, <1>3 DEF Handler, CreateInsert, At

-----------------------------------------------------------------------------
\* Every step keeps the type invariant.
LEMMA TypeStep == TypeOK /\ TargetExists /\ [Next]_vars => TypeOK'
<1> SUFFICES ASSUME TypeOK, TargetExists, [Next]_vars PROVE TypeOK'
  OBVIOUS
<1> USE SpanAssumption, PhoneAssumption DEF TypeOK
<1>0. Idle \in Handler
  BY DEF Idle, Handler, HandlerOp, HandlerStage, NoSpan
<1>1. CASE UNCHANGED vars
  BY <1>1 DEF vars
<1>2. ASSUME NEW w \in Worker, NEW s \in Span, NEW p \in Phone, CreateBegin(w, s, p)
      PROVE  TypeOK'
  <2>1. [Idle EXCEPT !.op = "create", !.stage = "check", !.span = s, !.phone = p]
          \in Handler
    BY <1>0 DEF Handler, HandlerOp, HandlerStage
  <2>2. QED BY <1>2, <2>1 DEF CreateBegin
<1>3. ASSUME NEW w \in Worker, NEW st \in HandlerStage, Goto(w, st)
      PROVE  handler' \in [Worker -> Handler]
  <2>1. [handler[w] EXCEPT !.stage = st] \in Handler
    BY DEF Handler
  <2>2. QED BY <1>3, <2>1 DEF Goto
<1>4. ASSUME NEW w \in Worker, Finish(w)
      PROVE  handler' \in [Worker -> Handler]
  BY <1>0, <1>4 DEF Finish
<1>5. ASSUME NEW w \in Worker, NEW op \in HandlerOp, NEW st \in HandlerStage,
             NEW r \in Reservation, Start(w, op, st, r)
      PROVE  handler' \in [Worker -> Handler]
  <2>1. [Idle EXCEPT !.op = op, !.stage = st, !.target = r] \in Handler
    BY <1>0 DEF Handler
  <2>2. QED BY <1>5, <2>1 DEF Start
<1>6. ASSUME NEW w \in Worker, CreateCheck(w) \/ CreateFindCustomer(w)
      PROVE  TypeOK'
  BY <1>6, <1>3, <1>4 DEF CreateCheck, CreateFindCustomer, HandlerStage
<1>7. ASSUME NEW w \in Worker, CreateNewCustomer(w)
      PROVE  TypeOK'
  <2>1. handler[w].phone \in Phone
    BY DEF Handler
  <2>2. QED BY <1>7, <1>3, <2>1 DEF CreateNewCustomer, HandlerStage
<1>8. ASSUME NEW w \in Worker, NEW r \in Reservation, CreateInsert(w, r)
      PROVE  TypeOK'
  <2>1. \A v \in Worker : [handler[v] EXCEPT !.stale = @ \/ PastCheck(v)] \in Handler
    BY DEF Handler, PastCheck
  <2>2. [handler[w] EXCEPT !.stage = "reply", !.target = r] \in Handler
    BY DEF Handler, HandlerStage
  <2>3. handler' \in [Worker -> Handler]
    BY <1>8, <2>1, <2>2 DEF CreateInsert
  <2>4. booked' \in [Reservation -> [start : Int, end : Int]]
    BY <1>8 DEF CreateInsert, Handler
  <2>5. QED BY <1>8, <2>3, <2>4 DEF CreateInsert, ActiveStatus
<1>9. ASSUME NEW w \in Worker, NEW r \in Reservation,
             ConfirmRead(w, r) \/ RejectRead(w, r) \/ CancelRead(w, r)
      PROVE  TypeOK'
  BY <1>9, <1>5 DEF ConfirmRead, RejectRead, CancelRead, HandlerStage, HandlerOp
<1>10. ASSUME NEW w \in Worker, ConfirmCheck(w)
       PROVE  TypeOK'
  BY <1>10, <1>3, <1>4 DEF ConfirmCheck, HandlerStage
<1>11. ASSUME NEW w \in Worker, ConfirmWrite(w) \/ RejectWrite(w) \/ CancelWrite(w)
       PROVE  TypeOK'
  <2>1. handler' \in [Worker -> Handler]
    BY <1>11, <1>3 DEF ConfirmWrite, RejectWrite, CancelWrite, HandlerStage
  <2>2. status' \in [Reservation -> {"absent"} \cup ActiveStatus \cup TerminalStatus]
    BY <1>11 DEF ConfirmWrite, RejectWrite, CancelWrite, SetStatus,
                 ActiveStatus, TerminalStatus
  <2>3. resurrected' \subseteq Reservation
    <3>1. handler[w].target \in Reservation
      BY <1>11 DEF TargetExists, ConfirmWrite, RejectWrite, CancelWrite, At
    <3>2. QED
      BY <1>11, <3>1 DEF ConfirmWrite, RejectWrite, CancelWrite, SetStatus
  <2>4. QED BY <1>11, <2>1, <2>2, <2>3 DEF ConfirmWrite, RejectWrite, CancelWrite
<1>12. ASSUME NEW w \in Worker, Reply(w) \/ RequestFails(w)
       PROVE  TypeOK'
  BY <1>12, <1>4 DEF Reply, RequestFails
<1>13. QED
  BY <1>1, <1>2, <1>6, <1>7, <1>8, <1>9, <1>10, <1>11, <1>12 DEF Next, HandlerStep

\* Rows are never deleted and every handler was started on a row it had read.
LEMMA TargetStep == TypeOK /\ TargetExists /\ [Next]_vars => TargetExists'
<1> SUFFICES ASSUME TypeOK, TargetExists, [Next]_vars PROVE TargetExists'
  OBVIOUS
<1>1. CASE UNCHANGED vars
  BY <1>1 DEF vars, TargetExists
<1>2. ASSUME NEW w \in Worker,
             \/ \E s \in Span, p \in Phone : CreateBegin(w, s, p)
             \/ CreateCheck(w) \/ CreateFindCustomer(w) \/ CreateNewCustomer(w)
             \/ ConfirmCheck(w) \/ Reply(w) \/ RequestFails(w)
      PROVE  TargetExists'
  <2>1. UNCHANGED status
    BY <1>2 DEF CreateBegin, CreateCheck, CreateFindCustomer, CreateNewCustomer,
                ConfirmCheck, Reply, RequestFails
  <2>2. \A v \in Worker : handler'[v].op \in {"confirm", "reject", "cancel"} =>
           /\ handler'[v].op = handler[v].op
           /\ handler'[v].target = handler[v].target
    <3>1. \/ \E s \in Span, p \in Phone : CreateBegin(w, s, p)
          \/ \E st \in HandlerStage : Goto(w, st)
          \/ Finish(w)
      BY <1>2 DEF CreateCheck, CreateFindCustomer, CreateNewCustomer,
                  ConfirmCheck, Reply, RequestFails, HandlerStage
    <3>2. QED BY <3>1, GotoFrame, FinishFrame, BeginFrame
  <2>3. QED BY <2>1, <2>2 DEF TargetExists
<1>3. ASSUME NEW w \in Worker, NEW r \in Reservation, CreateInsert(w, r)
      PROVE  TargetExists'
  <2>1. \A q \in Reservation : status[q] # "absent" => status'[q] # "absent"
    BY <1>3 DEF CreateInsert, TypeOK
  <2>2. QED BY <1>3, <2>1, InsertFrame DEF TargetExists
<1>4. ASSUME NEW w \in Worker, NEW r \in Reservation,
             ConfirmRead(w, r) \/ RejectRead(w, r) \/ CancelRead(w, r)
      PROVE  TargetExists'
  <2>1. UNCHANGED status /\ status[r] # "absent"
    BY <1>4 DEF ConfirmRead, RejectRead, CancelRead, Active, ActiveStatus
  <2>2. \E op \in HandlerOp, st \in HandlerStage : Start(w, op, st, r)
    BY <1>4 DEF ConfirmRead, RejectRead, CancelRead, HandlerOp, HandlerStage
  <2>3. PICK op \in HandlerOp, st \in HandlerStage : Start(w, op, st, r)
    BY <2>2
  <2>4. handler'[w].target = r /\ \A v \in Worker \ {w} : handler'[v] = handler[v]
    BY <2>3, StartFrame
  <2>5. QED BY <2>1, <2>4 DEF TargetExists
<1>5. ASSUME NEW w \in Worker, ConfirmWrite(w) \/ RejectWrite(w) \/ CancelWrite(w)
      PROVE  TargetExists'
  <2>1. Goto(w, "reply")
    BY <1>5 DEF ConfirmWrite, RejectWrite, CancelWrite
  <2>2. \A q \in Reservation : status[q] # "absent" => status'[q] # "absent"
    BY <1>5 DEF ConfirmWrite, RejectWrite, CancelWrite, SetStatus, TypeOK
  <2>3. QED BY <2>1, <2>2, GotoFrame DEF TargetExists
<1>6. QED
  BY <1>1, <1>2, <1>3, <1>4, <1>5 DEF Next, HandlerStep

LEMMA TypeInit == Init => TypeOK /\ TargetExists
BY PhoneAssumption DEF Init, TypeOK, TargetExists, Idle, Handler, HandlerOp,
   HandlerStage, NoSpan

\* Types, and the existence of the rows handlers work on, hold throughout.
THEOREM TypeCorrect == Spec => [](TypeOK /\ TargetExists)
<1>1. Init => TypeOK /\ TargetExists
  BY TypeInit
<1>2. TypeOK /\ TargetExists /\ [Next]_vars => (TypeOK /\ TargetExists)'
  BY TypeStep, TargetStep
<1>3. QED
  BY <1>1, <1>2, PTL DEF Spec

-----------------------------------------------------------------------------
(* Two confirmed reservations overlap only through a resurrection.         *)

LEMMA OverlapSymmetric ==
  ASSUME NEW a \in [start : Int, end : Int], NEW b \in [start : Int, end : Int],
         Overlap(a, b)
  PROVE  Overlap(b, a)
BY DEF Overlap

\* A step that writes no status, books nothing and moves no handler into the
\* write stage of confirm leaves CommittedApart as it was.
LEMMA CommittedQuiet ==
  ASSUME CommittedApart, UNCHANGED <<status, booked, resurrected>>,
         \A v \in Worker : handler'[v].op = "confirm" /\ handler'[v].stage = "write" =>
            /\ handler[v].op = "confirm" /\ handler[v].stage = "write"
            /\ handler'[v].target = handler[v].target
  PROVE  CommittedApart'
<1>1. \A r \in Reservation : Committed(r)' => Committed(r)
  BY DEF Committed, At
<1>2. QED
  BY <1>1 DEF CommittedApart, Active

LEMMA CommittedStep ==
  TypeOK /\ TargetExists /\ CommittedApart /\ [Next]_vars => CommittedApart'
<1> SUFFICES ASSUME TypeOK, TargetExists, CommittedApart, [Next]_vars
             PROVE  CommittedApart'
  OBVIOUS
<1>1. CASE UNCHANGED vars
  BY <1>1, CommittedQuiet DEF vars
<1>2. ASSUME NEW w \in Worker,
             \/ \E s \in Span, p \in Phone : CreateBegin(w, s, p)
             \/ CreateCheck(w) \/ CreateFindCustomer(w) \/ CreateNewCustomer(w)
             \/ Reply(w) \/ RequestFails(w)
      PROVE  CommittedApart'
  <2>1. UNCHANGED <<status, booked, resurrected>>
    BY <1>2 DEF CreateBegin, CreateCheck, CreateFindCustomer, CreateNewCustomer,
                Reply, RequestFails
  <2>2. \/ \E s \in Span, p \in Phone : CreateBegin(w, s, p)
        \/ \E st \in HandlerStage : Goto(w, st) /\ handler[w].op = "create"
        \/ Finish(w)
    BY <1>2 DEF CreateCheck, CreateFindCustomer, CreateNewCustomer, Reply,
                RequestFails, HandlerStage, At
  <2>3. \A v \in Worker : handler'[v].op = "confirm" /\ handler'[v].stage = "write" =>
           /\ handler[v].op = "confirm" /\ handler[v].stage = "write"
           /\ handler'[v].target = handler[v].target
    BY <2>2, GotoFrame, FinishFrame, BeginFrame
  <2>4. QED BY <2>1, <2>3, CommittedQuiet
<1>3. ASSUME NEW w \in Worker, NEW r \in Reservation,
             ConfirmRead(w, r) \/ RejectRead(w, r) \/ CancelRead(w, r)
      PROVE  CommittedApart'
  <2>1. UNCHANGED <<status, booked, resurrected>>
    BY <1>3 DEF ConfirmRead, RejectRead, CancelRead
  <2>2. PICK op \in HandlerOp, st \in HandlerStage :
          Start(w, op, st, r) /\ ~(op = "confirm" /\ st = "write")
    BY <1>3 DEF ConfirmRead, RejectRead, CancelRead, HandlerOp, HandlerStage
  <2>3. /\ handler'[w].op = op /\ handler'[w].stage = st
        /\ \A v \in Worker \ {w} : handler'[v] = handler[v]
    BY <2>2, StartFrame
  <2>4. QED BY <2>1, <2>2, <2>3, CommittedQuiet
<1>4. ASSUME NEW w \in Worker, NEW r \in Reservation, CreateInsert(w, r)
      PROVE  CommittedApart'
  <2>1. /\ status[r] = "absent" /\ status'[r] = "requested"
        /\ \A q \in Reservation \ {r} : status'[q] = status[q] /\ booked'[q] = booked[q]
        /\ resurrected' = resurrected
    BY <1>4 DEF CreateInsert, TypeOK
  <2>2. \A v \in Worker : handler'[v].op = "confirm" =>
           /\ handler[v].op = "confirm" /\ handler[v].target # r
           /\ handler'[v].stage = handler[v].stage
           /\ handler'[v].target = handler[v].target
    BY <1>4, <2>1, InsertFrame DEF TargetExists
  <2>3. ~Committed(r)' /\ \A q \in Reservation \ {r} : Committed(q)' => Committed(q)
    BY <2>1, <2>2 DEF Committed, At
  <2>4. QED BY <2>1, <2>3 DEF CommittedApart, Active
<1>5. ASSUME NEW w \in Worker, ConfirmCheck(w)
      PROVE  CommittedApart'
  <2> DEFINE r == handler[w].target
  <2>1. /\ UNCHANGED <<status, booked, resurrected>>
        /\ handler[w].op = "confirm" /\ r \in Reservation
    BY <1>5 DEF ConfirmCheck, At, TargetExists
  <2>2. CASE Finish(w)
    BY <2>1, <2>2, FinishFrame, CommittedQuiet
  <2>3. CASE Conflicting(booked[r]) \ {r} = {} /\ Goto(w, "write")
    <3>1. \A q \in Reservation \ {r} : Active(q) => ~Overlap(booked[q], booked[r])
      BY <2>3 DEF Conflicting
    <3>2. \A q \in Reservation \ {r} : Active(q) => ~Overlap(booked[r], booked[q])
      BY <2>1, <3>1, OverlapSymmetric DEF TypeOK
    <3>3. \A q \in Reservation \ {r} : Committed(q)' => Committed(q)
      BY <2>1, <2>3, GotoFrame DEF Committed, At
    <3>4. QED BY <2>1, <3>1, <3>2, <3>3 DEF CommittedApart, Active
  <2>4. QED BY <1>5, <2>2, <2>3 DEF ConfirmCheck
<1>6. ASSUME NEW w \in Worker, ConfirmWrite(w)
      PROVE  CommittedApart'
  <2> DEFINE r == handler[w].target
  <2>1. /\ r \in Reservation /\ status[r] # "absent" /\ UNCHANGED booked
        /\ Committed(r)
        /\ \A q \in Reservation \ {r} : status'[q] = status[q]
        /\ resurrected \subseteq resurrected'
        /\ r \in resurrected' \/ Active(r)
    BY <1>6 DEF ConfirmWrite, At, TargetExists, SetStatus, TypeOK, Committed,
                Active, ActiveStatus, TerminalStatus
  <2>2. \A q \in Reservation \ {r} : Committed(q)' => Committed(q)
    BY <1>6, <2>1, GotoFrame DEF Committed, At, ConfirmWrite
  <2>3. QED BY <2>1, <2>2 DEF CommittedApart, Active
<1>7. ASSUME NEW w \in Worker, RejectWrite(w) \/ CancelWrite(w)
      PROVE  CommittedApart'
  <2> DEFINE r == handler[w].target
  <2>1. /\ r \in Reservation /\ UNCHANGED <<booked, resurrected>>
        /\ status'[r] \in TerminalStatus
        /\ \A q \in Reservation \ {r} : status'[q] = status[q]
    BY <1>7 DEF RejectWrite, CancelWrite, At, TargetExists, SetStatus, TypeOK,
                TerminalStatus, ActiveStatus
  <2>2. status'[r] \notin ActiveStatus
    BY <2>1 DEF ActiveStatus, TerminalStatus
  <2>3. \A v \in Worker : handler'[v].stage = "write" =>
           /\ handler[v].stage = "write" /\ handler'[v].op = handler[v].op
           /\ handler'[v].target = handler[v].target
    BY <1>7, GotoFrame DEF RejectWrite, CancelWrite
  <2>4. \A q \in Reservation \ {r} : Committed(q)' => Committed(q)
    BY <2>1, <2>3 DEF Committed, At
  <2>5. QED BY <2>1, <2>2, <2>4 DEF CommittedApart, Active
<1>8. QED
  BY <1>1, <1>2, <1>3, <1>4, <1>5, <1>6, <1>7 DEF Next, HandlerStep

\* confirm_reservation's re-check under every interleaving: two confirmed
\* reservations overlap only when one of them was resurrected.
THEOREM ConfirmSafe == Spec => []DoubleConfirmNeedsResurrection
<1>1. Init => CommittedApart
  BY DEF Init, CommittedApart, Active, ActiveStatus
<1>2. TypeOK /\ TargetExists /\ CommittedApart /\ [Next]_vars => CommittedApart'
  BY CommittedStep
<1>3. CommittedApart => DoubleConfirmNeedsResurrection
  BY DEF CommittedApart, DoubleConfirmNeedsResurrection, Active, ActiveStatus, Committed
<1>4. QED
  BY <1>1, <1>2, <1>3, TypeCorrect, PTL DEF Spec

-----------------------------------------------------------------------------
(* Active reservations overlap only through one of the two races.          *)

\* A step that changes no row and lets no create handler past its conflict
\* check, nor forgets that a check is stale, leaves CheckStillGood as it was.
LEMMA CheckQuiet ==
  ASSUME CheckStillGood, UNCHANGED <<status, booked, resurrected>>,
         \A v \in Worker : Inserting(v)' =>
            /\ Inserting(v)
            /\ handler'[v].span = handler[v].span
            /\ handler'[v].stale = handler[v].stale
  PROVE  CheckStillGood'
BY DEF CheckStillGood, Active

LEMMA CheckStep ==
  TypeOK /\ TargetExists /\ CheckStillGood /\ [Next]_vars => CheckStillGood'
<1> SUFFICES ASSUME TypeOK, TargetExists, CheckStillGood, [Next]_vars
             PROVE  CheckStillGood'
  OBVIOUS
<1>1. CASE UNCHANGED vars
  BY <1>1, CheckQuiet DEF vars, Inserting
<1>2. ASSUME NEW w \in Worker,
             \/ \E s \in Span, p \in Phone : CreateBegin(w, s, p)
             \/ CreateFindCustomer(w) \/ CreateNewCustomer(w)
             \/ ConfirmCheck(w) \/ Reply(w) \/ RequestFails(w)
      PROVE  CheckStillGood'
  <2>1. UNCHANGED <<status, booked, resurrected>>
    BY <1>2 DEF CreateBegin, CreateFindCustomer, CreateNewCustomer,
                ConfirmCheck, Reply, RequestFails
  <2>2. \/ \E s \in Span, p \in Phone : CreateBegin(w, s, p)
        \/ \E st \in HandlerStage : Goto(w, st) /\ (Inserting(w) \/ handler[w].op # "create")
        \/ Finish(w)
    BY <1>2 DEF CreateFindCustomer, CreateNewCustomer, ConfirmCheck, Reply,
                RequestFails, HandlerStage, At, Inserting
  <2>3. \A v \in Worker : Inserting(v)' =>
            /\ Inserting(v)
            /\ handler'[v].span = handler[v].span
            /\ handler'[v].stale = handler[v].stale
    BY <2>2, GotoFrame, FinishFrame, BeginFrame DEF Inserting
  <2>4. QED BY <2>1, <2>3, CheckQuiet
<1>3. ASSUME NEW w \in Worker, NEW r \in Reservation,
             ConfirmRead(w, r) \/ RejectRead(w, r) \/ CancelRead(w, r)
      PROVE  CheckStillGood'
  <2>1. UNCHANGED <<status, booked, resurrected>>
    BY <1>3 DEF ConfirmRead, RejectRead, CancelRead
  <2>2. PICK op \in HandlerOp, st \in HandlerStage :
          Start(w, op, st, r) /\ op # "create"
    BY <1>3 DEF ConfirmRead, RejectRead, CancelRead, HandlerOp, HandlerStage
  <2>3. handler'[w].op = op /\ \A v \in Worker \ {w} : handler'[v] = handler[v]
    BY <2>2, StartFrame
  <2>4. QED BY <2>1, <2>2, <2>3, CheckQuiet DEF Inserting
<1>4. ASSUME NEW w \in Worker, CreateCheck(w)
      PROVE  CheckStillGood'
  <2>1. UNCHANGED <<status, booked, resurrected>> /\ handler[w].op = "create"
    BY <1>4 DEF CreateCheck, At
  <2>2. CASE Finish(w)
    BY <2>1, <2>2, FinishFrame, CheckQuiet DEF Inserting
  <2>3. CASE Conflicting(handler[w].span) = {} /\ Goto(w, "findCustomer")
    <3>1. \A q \in Reservation : Active(q) => ~Overlap(booked[q], handler[w].span)
      BY <2>3 DEF Conflicting
    <3>2. /\ handler'[w].span = handler[w].span
          /\ \A v \in Worker \ {w} : /\ Inserting(v)' = Inserting(v)
                                    /\ handler'[v].span = handler[v].span
                                    /\ handler'[v].stale = handler[v].stale
      BY <2>3, GotoFrame DEF Inserting
    <3>3. QED BY <2>1, <3>1, <3>2 DEF CheckStillGood, Active
  <2>4. QED BY <1>4, <2>2, <2>3 DEF CreateCheck
<1>5. ASSUME NEW w \in Worker, NEW r \in Reservation, CreateInsert(w, r)
      PROVE  CheckStillGood'
  <2>1. \A v \in Worker : Inserting(v)' => handler'[v].stale
    BY <1>5, InsertFrame DEF Inserting, PastCheck
  <2>2. QED BY <2>1 DEF CheckStillGood
<1>6. ASSUME NEW w \in Worker, ConfirmWrite(w) \/ RejectWrite(w) \/ CancelWrite(w)
      PROVE  CheckStillGood'
  <2>1. /\ UNCHANGED booked
        /\ \A q \in Reservation : Active(q)' => Active(q) \/ q \in resurrected'
        /\ resurrected \subseteq resurrected'
    BY <1>6 DEF ConfirmWrite, RejectWrite, CancelWrite, At, TargetExists, SetStatus,
                TypeOK, Active, ActiveStatus, TerminalStatus
  <2>2. \A v \in Worker : Inserting(v)' =>
            /\ Inserting(v)
            /\ handler'[v].span = handler[v].span
            /\ handler'[v].stale = handler[v].stale
    BY <1>6, GotoFrame DEF ConfirmWrite, RejectWrite, CancelWrite, Inserting
  <2>3. QED BY <2>1, <2>2 DEF CheckStillGood
<1>7. QED
  BY <1>1, <1>2, <1>3, <1>4, <1>5, <1>6 DEF Next, HandlerStep

LEMMA OverlapStep ==
  TypeOK /\ TargetExists /\ CheckStillGood /\ OverlapNeedsRace /\ [Next]_vars
    => OverlapNeedsRace'
<1> SUFFICES ASSUME TypeOK, TargetExists, CheckStillGood, OverlapNeedsRace, [Next]_vars
             PROVE  OverlapNeedsRace'
  OBVIOUS
<1>1. CASE UNCHANGED <<status, booked, resurrected, raced>>
  BY <1>1 DEF OverlapNeedsRace, Active
<1>2. ASSUME NEW w \in Worker, NEW r \in Reservation, CreateInsert(w, r)
      PROVE  OverlapNeedsRace'
  <2> DEFINE s == handler[w].span
  <2>1. /\ \A q \in Reservation \ {r} : status'[q] = status[q] /\ booked'[q] = booked[q]
        /\ booked'[r] = s
        /\ resurrected' = resurrected /\ raced \subseteq raced'
        /\ handler[w].stale => r \in raced'
    BY <1>2 DEF CreateInsert, TypeOK
  <2>2. s \in [start : Int, end : Int]
    BY DEF TypeOK, Handler
  <2>3. Inserting(w)
    BY <1>2 DEF CreateInsert, At, Inserting
  <2>4. ~handler[w].stale => \A q \in Reservation \ {r} :
           Active(q) /\ (Overlap(booked[q], s) \/ Overlap(s, booked[q])) => q \in resurrected
    BY <2>2, <2>3, OverlapSymmetric DEF CheckStillGood, TypeOK
  <2>5. \A q \in Reservation \ {r} :
           Active(q) /\ (Overlap(booked[q], s) \/ Overlap(s, booked[q]))
             => {r, q} \cap (raced' \cup resurrected') # {}
    BY <2>1, <2>4
  <2>6. QED BY <2>1, <2>5 DEF OverlapNeedsRace, Active
<1>3. ASSUME NEW w \in Worker, ConfirmWrite(w) \/ RejectWrite(w) \/ CancelWrite(w)
      PROVE  OverlapNeedsRace'
  <2>1. /\ UNCHANGED <<booked, raced>>
        /\ \A q \in Reservation : Active(q)' => Active(q) \/ q \in resurrected'
        /\ resurrected \subseteq resurrected'
    BY <1>3 DEF ConfirmWrite, RejectWrite, CancelWrite, At, TargetExists, SetStatus,
                TypeOK, Active, ActiveStatus, TerminalStatus
  <2>2. QED BY <2>1 DEF OverlapNeedsRace
<1>4. QED
  BY <1>1, <1>2, <1>3 DEF Next, HandlerStep, vars, CreateBegin, CreateCheck,
     CreateFindCustomer, CreateNewCustomer, ConfirmRead, ConfirmCheck, RejectRead,
     CancelRead, Reply, RequestFails

\* Two active reservations overlap only after a stale conflict check or a
\* stale confirmation.
THEOREM OverlapExplained == Spec => []OverlapNeedsRace
<1>1. Init => CheckStillGood /\ OverlapNeedsRace
  BY DEF Init, CheckStillGood, OverlapNeedsRace, Inserting, Active, ActiveStatus, Idle
<1>2. TypeOK /\ TargetExists /\ CheckStillGood /\ OverlapNeedsRace /\ [Next]_vars
        => (CheckStillGood /\ OverlapNeedsRace)'
  BY CheckStep, OverlapStep
<1>3. QED
  BY <1>1, <1>2, TypeCorrect, PTL DEF Spec

-----------------------------------------------------------------------------
(* What handlers guarantee when they run one at a time                     *)

\* Nothing a lone handler has read is stale: what it is about to write follows
\* from the row as it is.
NothingStale ==
    /\ raced = {} /\ resurrected = {}
    /\ \A w \in Worker :
         /\ ~handler[w].stale
         /\ handler[w].op = "create" => handler[w].span.start < handler[w].span.end
         /\ handler[w].op = "confirm" /\ handler[w].stage \in {"check", "write"}
              => status[handler[w].target] = "requested"
         /\ At(w, "reject", "write") => status[handler[w].target] = "requested"
         /\ At(w, "cancel", "write") => Active(handler[w].target)

\* A step that writes no reservation, and moves no handler towards a write but
\* from the re-check of confirm, leaves NothingStale as it was.
LEMMA NothingStaleQuiet ==
  ASSUME NothingStale, UNCHANGED <<status, resurrected, raced>>,
         \A v \in Worker :
           /\ handler'[v].stale => handler[v].stale
           /\ handler'[v].op = "create" =>
                \/ handler'[v].span.start < handler'[v].span.end
                \/ handler[v].op = "create" /\ handler'[v].span = handler[v].span
           /\ handler'[v].op # "create" /\ handler'[v].stage \in {"check", "write"} =>
                /\ handler'[v].op = handler[v].op /\ handler'[v].target = handler[v].target
                /\ handler'[v].stage = handler[v].stage \/ At(v, "confirm", "check")
  PROVE  NothingStale'
<1>1. \A r : Active(r)' = Active(r)
  BY DEF Active
<1> QED BY <1>1 DEF NothingStale, At

LEMMA OthersIdle ==
  ASSUME OneHandler, NEW w \in Worker, handler[w].op # "idle"
  PROVE  \A v \in Worker \ {w} :
           /\ handler[v] = Idle
           /\ handler[v].op = "idle" /\ handler[v].stage = "idle" /\ ~handler[v].stale
<1>1. Idle.op = "idle" /\ Idle.stage = "idle" /\ ~Idle.stale
  BY DEF Idle
<1> QED BY <1>1 DEF OneHandler

LEMMA NothingStaleStep ==
  ASSUME OneHandler, TypeOK, TargetExists, NothingStale, [Next]_vars
  PROVE  NothingStale'
<1>1. CASE UNCHANGED vars
  BY <1>1, NothingStaleQuiet DEF vars
<1>2. ASSUME NEW w \in Worker,
             \/ \E s \in Span, p \in Phone : CreateBegin(w, s, p)
             \/ CreateCheck(w) \/ CreateFindCustomer(w) \/ CreateNewCustomer(w)
             \/ ConfirmCheck(w) \/ Reply(w) \/ RequestFails(w)
      PROVE  NothingStale'
  <2>1. UNCHANGED <<status, resurrected, raced>>
    BY <1>2 DEF CreateBegin, CreateCheck, CreateFindCustomer, CreateNewCustomer,
                ConfirmCheck, Reply, RequestFails
  <2>2. \/ \E s \in Span, p \in Phone : CreateBegin(w, s, p)
        \/ \E st \in HandlerStage : Goto(w, st) /\ handler[w].op = "create"
        \/ Goto(w, "write") /\ At(w, "confirm", "check")
        \/ Goto(w, "reply")
        \/ Finish(w)
    BY <1>2 DEF CreateCheck, CreateFindCustomer, CreateNewCustomer, ConfirmCheck,
                Reply, RequestFails, HandlerStage, At
  <2>3. \A v \in Worker :
           /\ handler'[v].stale => handler[v].stale
           /\ handler'[v].op = "create" =>
                \/ handler'[v].span.start < handler'[v].span.end
                \/ handler[v].op = "create" /\ handler'[v].span = handler[v].span
           /\ handler'[v].op # "create" /\ handler'[v].stage \in {"check", "write"} =>
                /\ handler'[v].op = handler[v].op /\ handler'[v].target = handler[v].target
                /\ handler'[v].stage = handler[v].stage \/ At(v, "confirm", "check")
    <3>1. CASE \E s \in Span, p \in Phone : CreateBegin(w, s, p)
      BY <3>1, BeginFrame
    <3>2. CASE \E st \in HandlerStage : Goto(w, st) /\ handler[w].op = "create"
      BY <3>2, GotoFrame
    <3>3. CASE Goto(w, "write") /\ At(w, "confirm", "check")
      BY <3>3, GotoFrame DEF At
    <3>4. CASE Goto(w, "reply")
      BY <3>4, GotoFrame
    <3>5. CASE Finish(w)
      BY <3>5, FinishFrame
    <3> QED BY <2>2, <3>1, <3>2, <3>3, <3>4, <3>5
  <2>4. QED BY <2>1, <2>3, NothingStaleQuiet
<1>3. ASSUME NEW w \in Worker, NEW r \in Reservation, CreateInsert(w, r)
      PROVE  NothingStale'
  <2>1. resurrected' = {} /\ raced' = {}
    BY <1>3 DEF CreateInsert, NothingStale
  <2>2. handler'[w] = [handler[w] EXCEPT !.stage = "reply", !.target = r]
    BY <1>3 DEF CreateInsert
  <2>3. /\ handler'[w].op = "create" /\ handler'[w].stale = handler[w].stale
        /\ handler'[w].span = handler[w].span /\ handler[w].op = "create"
    BY <1>3, <2>2 DEF CreateInsert, At, TypeOK, Handler
  <2>4. \A v \in Worker \ {w} :
          handler[v].op = "idle" /\ ~handler[v].stale /\ PastCheck(v) = FALSE
    BY <1>3, OthersIdle DEF CreateInsert, At, PastCheck
  <2>5. \A v \in Worker \ {w} : ~handler'[v].stale /\ handler'[v].op = "idle"
    <3> SUFFICES ASSUME NEW v \in Worker \ {w}
                 PROVE  ~handler'[v].stale /\ handler'[v].op = "idle"
      OBVIOUS
    <3>1. /\ handler'[v].op = handler[v].op
          /\ handler'[v].stale = (handler[v].stale \/ PastCheck(v))
      BY <1>3, InsertFrame
    <3>2. handler'[v].op = "idle"
      BY <2>4, <3>1
    <3>3. ~handler'[v].stale
      BY <2>4, <3>1, Zenon
    <3> QED BY <3>2, <3>3
  <2>6. QED BY <2>1, <2>3, <2>5 DEF NothingStale, At
<1>4. ASSUME NEW w \in Worker, NEW r \in Reservation,
             ConfirmRead(w, r) \/ RejectRead(w, r) \/ CancelRead(w, r)
      PROVE  NothingStale'
  <2>1. UNCHANGED <<status, resurrected, raced>>
    BY <1>4 DEF ConfirmRead, RejectRead, CancelRead
  <2>2. PICK op \in HandlerOp, st \in HandlerStage :
          /\ Start(w, op, st, r) /\ op # "create"
          /\ op = "confirm" /\ st \in {"check", "write"} => status[r] = "requested"
          /\ op = "reject" /\ st = "write" => status[r] = "requested"
          /\ op = "cancel" /\ st = "write" => Active(r)
    BY <1>4 DEF ConfirmRead, RejectRead, CancelRead, HandlerOp, HandlerStage
  <2>3. /\ handler'[w].op = op /\ handler'[w].stage = st
        /\ handler'[w].target = r /\ handler'[w].stale = FALSE
    BY <2>2, StartFrame
  <2>4. \A v \in Worker \ {w} : handler'[v] = handler[v]
    BY <2>2, StartFrame
  <2>5. QED BY <2>1, <2>2, <2>3, <2>4 DEF NothingStale, At, Active
<1>5. ASSUME NEW w \in Worker, ConfirmWrite(w) \/ RejectWrite(w) \/ CancelWrite(w)
      PROVE  NothingStale'
  <2>1. /\ handler'[w].stage = "reply" /\ handler'[w].stale = handler[w].stale
        /\ handler'[w].op = handler[w].op /\ handler[w].op # "create"
    BY <1>5, GotoFrame DEF ConfirmWrite, RejectWrite, CancelWrite, At
  <2>2. raced' = {} /\ resurrected' = {}
    BY <1>5 DEF ConfirmWrite, RejectWrite, CancelWrite, SetStatus, NothingStale,
                TerminalStatus, ActiveStatus, At
  <2>3. \A v \in Worker \ {w} : ~handler[v].stale /\ handler[v].op = "idle"
    BY <1>5, OthersIdle DEF ConfirmWrite, RejectWrite, CancelWrite, At
  <2>4. \A v \in Worker \ {w} : ~handler'[v].stale /\ handler'[v].op = "idle"
    BY <1>5, <2>3, GotoFrame DEF ConfirmWrite, RejectWrite, CancelWrite
  <2>5. QED BY <2>1, <2>2, <2>4 DEF NothingStale, At
<1>6. QED
  BY <1>1, <1>2, <1>3, <1>4, <1>5 DEF Next, HandlerStep

\* The writes of a lone handler are steps of the ledger; nothing else writes it.
LEMMA LedgerStep ==
  ASSUME TypeOK, TargetExists, CheckStillGood, NothingStale, [Next]_vars
  PROVE  [Ledger!LedgerNext]_<<status, booked>>
<1> USE DEF Ledger!Move
<1>1. ASSUME NEW w \in Worker, NEW r \in Reservation, CreateInsert(w, r)
      PROVE  Ledger!LedgerNext
  <2> DEFINE s == handler[w].span
  <2>1. /\ status[r] = "absent" /\ status' = [status EXCEPT ![r] = "requested"]
        /\ booked' = [booked EXCEPT ![r] = s] /\ booked'[r] = s
    BY <1>1 DEF CreateInsert, TypeOK
  <2>2. s.start < s.end
    BY <1>1 DEF NothingStale, CreateInsert, At
  <2>3. \A q \in Reservation : Active(q) => ~Overlap(booked[q], s)
    BY <1>1 DEF CheckStillGood, NothingStale, CreateInsert, At, Inserting
  <2>4. ~Ledger!Occupied(s)
    <3> SUFFICES ASSUME NEW q \in Reservation, status[q] \in {"requested", "confirmed"},
                        booked[q].start < s.end, s.start < booked[q].end
                 PROVE  FALSE
      BY DEF Ledger!Occupied
    <3>1. booked[q] \in [start : Int, end : Int] /\ s \in [start : Int, end : Int]
      BY DEF TypeOK, Handler
    <3>2. Overlap(booked[q], s)
      BY <3>1 DEF Overlap
    <3> QED BY <2>3, <3>2 DEF Active, ActiveStatus
  <2> HIDE DEF s
  <2>5. Ledger!Accept(r, booked'[r])
    BY <2>1, <2>2, <2>4 DEF Ledger!Accept
  <2> QED BY <2>5 DEF Ledger!LedgerNext
<1>2. ASSUME NEW w \in Worker, ConfirmWrite(w) \/ RejectWrite(w) \/ CancelWrite(w)
      PROVE  Ledger!LedgerNext
  <2>1. handler[w].target \in Reservation /\ UNCHANGED booked
    BY <1>2 DEF ConfirmWrite, RejectWrite, CancelWrite, At, TargetExists
  <2>2. CASE ConfirmWrite(w)
    BY <2>1, <2>2 DEF ConfirmWrite, SetStatus, At, NothingStale, Ledger!Confirm, Ledger!LedgerNext
  <2>3. CASE RejectWrite(w)
    BY <2>1, <2>3 DEF RejectWrite, SetStatus, At, NothingStale, Ledger!Reject, Ledger!LedgerNext
  <2>4. CASE CancelWrite(w)
    <3>1. status[handler[w].target] \in {"requested", "confirmed"}
      BY <2>4 DEF CancelWrite, NothingStale, Active, ActiveStatus
    <3> QED BY <2>1, <2>4, <3>1 DEF CancelWrite, SetStatus, Ledger!Withdraw, Ledger!LedgerNext
  <2> QED BY <1>2, <2>2, <2>3, <2>4
<1> QED
  BY <1>1, <1>2 DEF Next, HandlerStep, vars, CreateBegin, CreateCheck,
     CreateFindCustomer, CreateNewCustomer, ConfirmRead, ConfirmCheck, RejectRead,
     CancelRead, Reply, RequestFails

\* As long as one handler is at work at a time, whichever of the workers has it,
\* the booking calendar keeps its promise, and its handlers implement the
\* ledger: each acts on the reservations as if in one step.
THEOREM SerialSafe == Spec /\ []OneHandler => []NoOverlap /\ Ledger!LedgerSpec
<1>1. Init => NothingStale /\ CheckStillGood /\ Ledger!LedgerInit
  BY DEF Init, NothingStale, Idle, CheckStillGood, Inserting, Active, ActiveStatus, At,
         Ledger!LedgerInit, NoSpan
<1>2. OneHandler /\ TypeOK /\ TargetExists /\ NothingStale /\ [Next]_vars => NothingStale'
  BY NothingStaleStep
<1>3. TypeOK /\ TargetExists /\ CheckStillGood /\ [Next]_vars => CheckStillGood'
  BY CheckStep
<1>4. NothingStale /\ OverlapNeedsRace => NoOverlap
  BY DEF NothingStale, OverlapNeedsRace, NoOverlap
<1>5. TypeOK /\ TargetExists /\ CheckStillGood /\ NothingStale /\ [Next]_vars
        => [Ledger!LedgerNext]_<<status, booked>>
  BY LedgerStep
<1>6. QED
  BY <1>1, <1>2, <1>3, <1>4, <1>5, TypeCorrect, OverlapExplained, PTL
     DEF Spec, Ledger!LedgerSpec

-----------------------------------------------------------------------------
(* Customers                                                               *)

\* The handlers that found no customer with a number and have not inserted one.
Newcomers(p) ==
    {w \in Worker : At(w, "create", "newCustomer") /\ handler[w].phone = p}

\* A handler joins the newcomers only while the number has no row, and leaves
\* them when it inserts one.
RowsAndNewcomers ==
    \A p \in Phone : customers[p] + Cardinality(Newcomers(p)) <= Cardinality(Worker)

\* A step that inserts no customer and adds no newcomer.
LEMMA CustomersQuiet ==
  ASSUME IsFiniteSet(Worker), TypeOK, RowsAndNewcomers, UNCHANGED customers,
         \A v \in Worker : At(v, "create", "newCustomer")' =>
            At(v, "create", "newCustomer") /\ handler'[v].phone = handler[v].phone
  PROVE  RowsAndNewcomers'
<1> SUFFICES ASSUME NEW p \in Phone
             PROVE  customers[p] + Cardinality(Newcomers(p)') <= Cardinality(Worker)
  BY DEF RowsAndNewcomers
<1>1. Newcomers(p)' \subseteq Newcomers(p)
  BY DEF Newcomers
<1>2. IsFiniteSet(Newcomers(p))
  BY FS_Subset DEF Newcomers
<1>3. Cardinality(Newcomers(p)') <= Cardinality(Newcomers(p))
  BY <1>1, <1>2, FS_Subset
<1>4. /\ Cardinality(Newcomers(p)) \in Nat /\ Cardinality(Newcomers(p)') \in Nat
      /\ Cardinality(Worker) \in Nat /\ customers[p] \in Nat
  BY <1>1, <1>2, FS_Subset, FS_CardinalityType DEF TypeOK
<1>5. customers[p] + Cardinality(Newcomers(p)) <= Cardinality(Worker)
  BY DEF RowsAndNewcomers
<1> QED BY <1>3, <1>4, <1>5

LEMMA CustomersStep ==
  ASSUME IsFiniteSet(Worker), TypeOK, RowsAndNewcomers, [Next]_vars
  PROVE  RowsAndNewcomers'
<1>1. CASE UNCHANGED vars
  BY <1>1, CustomersQuiet DEF vars, At
<1>2. ASSUME NEW w \in Worker,
             \/ \E s \in Span, p \in Phone : CreateBegin(w, s, p)
             \/ CreateCheck(w) \/ ConfirmCheck(w) \/ ConfirmWrite(w)
             \/ RejectWrite(w) \/ CancelWrite(w) \/ Reply(w) \/ RequestFails(w)
      PROVE  RowsAndNewcomers'
  <2>1. UNCHANGED customers
    BY <1>2 DEF CreateBegin, CreateCheck, ConfirmCheck, ConfirmWrite, RejectWrite,
                CancelWrite, Reply, RequestFails
  <2>2. \/ \E s \in Span, p \in Phone : CreateBegin(w, s, p)
        \/ \E st \in HandlerStage : Goto(w, st) /\ st # "newCustomer"
        \/ Finish(w)
    BY <1>2 DEF CreateCheck, ConfirmCheck, ConfirmWrite, RejectWrite, CancelWrite,
                Reply, RequestFails, HandlerStage
  <2>3. \A v \in Worker : At(v, "create", "newCustomer")' =>
            At(v, "create", "newCustomer") /\ handler'[v].phone = handler[v].phone
    BY <2>2, GotoFrame, FinishFrame, BeginFrame DEF At
  <2> QED BY <2>1, <2>3, CustomersQuiet
<1>3. ASSUME NEW w \in Worker, NEW r \in Reservation,
             ConfirmRead(w, r) \/ RejectRead(w, r) \/ CancelRead(w, r)
      PROVE  RowsAndNewcomers'
  <2>1. UNCHANGED customers
    BY <1>3 DEF ConfirmRead, RejectRead, CancelRead
  <2>2. PICK op \in HandlerOp, st \in HandlerStage : Start(w, op, st, r) /\ op # "create"
    BY <1>3 DEF ConfirmRead, RejectRead, CancelRead, HandlerOp, HandlerStage
  <2>3. handler'[w].op = op /\ \A v \in Worker \ {w} : handler'[v] = handler[v]
    BY <2>2, StartFrame
  <2> QED BY <2>1, <2>2, <2>3, CustomersQuiet DEF At
<1>4. ASSUME NEW w \in Worker, NEW r \in Reservation, CreateInsert(w, r)
      PROVE  RowsAndNewcomers'
  BY <1>4, InsertFrame, CustomersQuiet DEF At, CreateInsert
<1>5. ASSUME NEW w \in Worker, CreateFindCustomer(w)
      PROVE  RowsAndNewcomers'
  <2> DEFINE q == handler[w].phone
  <2>1. q \in Phone /\ UNCHANGED customers
    BY <1>5 DEF TypeOK, Handler, CreateFindCustomer
  <2>2. CASE customers[q] > 0
    <3>1. Goto(w, "insert")
      BY <1>5, <2>2 DEF CreateFindCustomer
    <3> QED BY <2>1, <3>1, GotoFrame, CustomersQuiet DEF At
  <2>3. CASE customers[q] = 0
    <3>1. Goto(w, "newCustomer")
      BY <1>5, <2>3 DEF CreateFindCustomer
    <3> SUFFICES ASSUME NEW p \in Phone
                 PROVE  customers[p] + Cardinality(Newcomers(p)') <= Cardinality(Worker)
      BY <2>1 DEF RowsAndNewcomers
    <3>2. CASE p = q
      <4>1. Newcomers(p)' \subseteq Worker
        BY DEF Newcomers
      <4>2. /\ Cardinality(Newcomers(p)') <= Cardinality(Worker)
            /\ Cardinality(Newcomers(p)') \in Nat
        BY <4>1, FS_Subset, FS_CardinalityType
      <4> QED BY <2>3, <3>2, <4>2
    <3>3. CASE p # q
      <4>1. Newcomers(p)' = Newcomers(p)
        BY <3>1, <3>3, GotoFrame DEF Newcomers, At
      <4> QED BY <4>1 DEF RowsAndNewcomers
    <3> QED BY <3>2, <3>3
  <2> QED BY <2>1, <2>2, <2>3 DEF TypeOK
<1>6. ASSUME NEW w \in Worker, CreateNewCustomer(w)
      PROVE  RowsAndNewcomers'
  <2> DEFINE q == handler[w].phone
  <2>1. /\ q \in Phone /\ customers' = [customers EXCEPT ![q] = @ + 1]
        /\ Goto(w, "insert") /\ At(w, "create", "newCustomer")
    BY <1>6 DEF TypeOK, Handler, CreateNewCustomer
  <2> SUFFICES ASSUME NEW p \in Phone
               PROVE  customers'[p] + Cardinality(Newcomers(p)') <= Cardinality(Worker)
    BY DEF RowsAndNewcomers
  <2>2. customers[p] + Cardinality(Newcomers(p)) <= Cardinality(Worker) /\ customers[p] \in Nat
    BY DEF RowsAndNewcomers, TypeOK
  <2>3. IsFiniteSet(Newcomers(p))
    BY FS_Subset DEF Newcomers
  <2>4. CASE p = q
    <3>1. w \in Newcomers(p) /\ Newcomers(p)' = Newcomers(p) \ {w}
      BY <2>1, <2>4, GotoFrame DEF Newcomers, At
    <3>2. Cardinality(Newcomers(p)') = Cardinality(Newcomers(p)) - 1
      BY <2>3, <3>1, FS_RemoveElement
    <3>3. customers'[p] = customers[p] + 1
      BY <2>1, <2>4 DEF TypeOK
    <3>4. Cardinality(Newcomers(p)) \in Nat /\ Cardinality(Worker) \in Nat
      BY <2>3, FS_CardinalityType
    <3> QED BY <2>2, <3>2, <3>3, <3>4
  <2>5. CASE p # q
    <3>1. Newcomers(p)' = Newcomers(p)
      BY <2>1, <2>5, GotoFrame DEF Newcomers, At
    <3>2. customers'[p] = customers[p]
      BY <2>1, <2>5 DEF TypeOK
    <3> QED BY <2>2, <3>1, <3>2
  <2> QED BY <2>4, <2>5
<1>7. QED
  BY <1>1, <1>2, <1>3, <1>4, <1>5, <1>6 DEF Next, HandlerStep

\* Select-then-insert makes several customers of one telephone number only while
\* workers race on its first booking, so never more of them than workers.
THEOREM CustomersBounded ==
  ASSUME IsFiniteSet(Worker)
  PROVE  Spec => []RowsPerPhone
<1>1. Init => RowsAndNewcomers
  <2> SUFFICES ASSUME Init, NEW p \in Phone
               PROVE  customers[p] + Cardinality(Newcomers(p)) <= Cardinality(Worker)
    BY DEF RowsAndNewcomers
  <2>1. Newcomers(p) = {}
    BY DEF Init, Newcomers, At, Idle
  <2>2. customers[p] = 0 /\ Cardinality(Newcomers(p)) = 0
    BY <2>1, FS_EmptySet DEF Init
  <2>3. Cardinality(Worker) \in Nat
    BY FS_CardinalityType
  <2> QED BY <2>2, <2>3
<1>2. TypeOK /\ RowsAndNewcomers /\ [Next]_vars => RowsAndNewcomers'
  BY CustomersStep
<1>3. TypeOK /\ RowsAndNewcomers => RowsPerPhone
  <2> SUFFICES ASSUME TypeOK, RowsAndNewcomers, NEW p \in Phone
               PROVE  customers[p] <= Cardinality(Worker)
    BY DEF RowsPerPhone
  <2>1. IsFiniteSet(Newcomers(p))
    BY FS_Subset DEF Newcomers
  <2>2. /\ Cardinality(Newcomers(p)) \in Nat /\ Cardinality(Worker) \in Nat
        /\ customers[p] \in Nat
    BY <2>1, FS_CardinalityType DEF TypeOK
  <2> QED BY <2>2 DEF RowsAndNewcomers
<1>4. QED
  BY <1>1, <1>2, <1>3, TypeCorrect, PTL DEF Spec
=============================================================================

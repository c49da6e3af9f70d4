------------------------------ MODULE Payments -------------------------------
(***************************************************************************)
(* Payments of workers: PaymentsService.  updateStatus stores any status   *)
(* over any other; refund asks for a completed payment.  Both save the     *)
(* entity they loaded, column by column.  Amounts never change after the   *)
(* insert; remarks, methods and transaction ids are left out.              *)
(***************************************************************************)
EXTENDS Server, Naturals

CONSTANTS
  Payments,   \* ids
  PayReq      \* handlers of the service that can be in flight together

VARIABLES
  payment,    \* the row of each id
  cleared,    \* history: payments whose paidAt a save set back to null
  yreq        \* what each handler holds

paymentVars == <<payment, cleared, yreq>>

PayStatus == {"pending", "processing", "completed", "failed", "refunded"}
PayColumns == {"status", "paidAt"}

\* paidAt: set or null.
PaymentRow == [status : PayStatus, paidAt : BOOLEAN]
NoPayment == [status |-> "none", paidAt |-> FALSE]

PayIdle == [pc |-> "idle"]

PayFrame ==
  [pc : {"idle"}]
    \cup [pc : {"insert"}, id : Payments, row : PaymentRow]
    \cup [pc : {"save", "write"}, id : Payments, row : PaymentRow, diff : SUBSET PayColumns]

PaymentsTypeOK ==
  /\ payment \in [Payments -> PaymentRow \cup {NoPayment}]
  /\ cleared \in SUBSET Payments
  /\ yreq \in [PayReq -> PayFrame]

PaymentsInit ==
  /\ payment = [i \in Payments |-> NoPayment]
  /\ cleared = {}
  /\ yreq = [r \in PayReq |-> PayIdle]

-----------------------------------------------------------------------------
PayGoto(r, frame) == yreq' = [yreq EXCEPT ![r] = frame]

\* The body of create may carry any status.
CreatePayment(i, status) ==
  /\ payment[i] = NoPayment
  /\ payment' = [payment EXCEPT ![i] = [status |-> status, paidAt |-> status = "completed"]]
  /\ UNCHANGED <<cleared, yreq>>

BeginSave(r, i, row) ==
  /\ yreq[r].pc = "idle"
  /\ payment[i] # NoPayment
  /\ PayGoto(r, [pc |-> "save", id |-> i, row |-> row, diff |-> {}])
  /\ UNCHANGED <<payment, cleared>>

\* Wrong on purpose: the time of payment is set when a pending payment
\* completes only.
WithStatusOfPending(row, status) ==
  [status |-> status,
   paidAt |-> row.paidAt \/ (status = "completed" /\ row.status = "pending")]

\* updateStatus: the time of payment is set once.
WithStatus(row, status) ==
  [status |-> status, paidAt |-> row.paidAt \/ status = "completed"]

BeginStatusUpdate(r, i, status) == BeginSave(r, i, WithStatus(payment[i], status))

BeginRefund(r, i) ==
  /\ payment[i].status = "completed"
  /\ BeginSave(r, i, [payment[i] EXCEPT !.status = "refunded"])

SaveReadPayment(r) ==
  /\ yreq[r].pc = "save"
  /\ LET q == yreq[r]
         diff == {c \in PayColumns : q.row[c] # payment[q.id][c]}
     IN PayGoto(r, IF diff = {} THEN PayIdle ELSE [q EXCEPT !.pc = "write", !.diff = diff])
  /\ UNCHANGED <<payment, cleared>>

SaveWritePayment(r) ==
  /\ yreq[r].pc = "write"
  /\ LET q == yreq[r] IN
     /\ payment' = [payment EXCEPT ![q.id] =
                      [c \in PayColumns |-> IF c \in q.diff THEN q.row[c] ELSE @[c]]]
     /\ cleared' = IF "paidAt" \in q.diff /\ ~q.row.paidAt THEN cleared \cup {q.id}
                                                           ELSE cleared
  /\ PayGoto(r, PayIdle)

\* A repository call rejects, or the process dies.
AbortPayment(r) ==
  /\ Faults
  /\ yreq[r].pc # "idle"
  /\ PayGoto(r, PayIdle)
  /\ UNCHANGED <<payment, cleared>>

PaymentsNext ==
  \/ \E i \in Payments, status \in PayStatus : CreatePayment(i, status)
  \/ \E r \in PayReq :
       \/ \E i \in Payments :
            BeginRefund(r, i) \/ \E status \in PayStatus : BeginStatusUpdate(r, i, status)
       \/ SaveReadPayment(r) \/ SaveWritePayment(r) \/ AbortPayment(r)

PaymentsSpec == PaymentsInit /\ [][PaymentsNext]_paymentVars

-----------------------------------------------------------------------------
\* A completed payment, which counts as earned, carries the time of its payment,
\* whatever statuses it went through: unless an update that was loaded before
\* the payment was completed, and saved after, set that time back to null.
CompletedWasPaid ==
  \A i \in Payments \ cleared : payment[i].status = "completed" => payment[i].paidAt
=============================================================================

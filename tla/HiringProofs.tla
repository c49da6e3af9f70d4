---------------------------- MODULE HiringProofs ----------------------------
(***************************************************************************)
(* Theorems about recruitment (Applications composed with Jobs and         *)
(* Conversations), for any postings, applications, texts, numbers of       *)
(* requests and messages, with requests dying anywhere.                    *)
(*                                                                         *)
(* First what the steps of ConversationsService keep, then what those of   *)
(* the whole composition keep, then the unread counters.                   *)
(***************************************************************************)
EXTENDS Applications, JobsProofs, FiniteSetTheorems

-----------------------------------------------------------------------------
\* The strengthening of SeekerAnswers and CompanyWritesAfterDecision.  A call
\* keeps between its awaits what it checked: the status it read was stored, so
\* the application is in decided from then on, and the messages it counted stay.
Held(q) ==
  /\ q.pc = "returned" => q.c = 0 \/ q.c \in DOMAIN conv
  /\ q.pc \in {"count", "dedupe", "insert"} /\ q.status \in Decided =>
       conv[q.c].app \in decided
  /\ q.pc \in {"dedupe", "insert"} => MayWrite(q)

\* Message i keeps the order of speaking.
InOrder(i) ==
  /\ msg[i].from = "seeker" =>
       \E k \in 1..(i - 1) : msg[k].conv = msg[i].conv /\ msg[k].from = "company"
  /\ msg[i].from = "company" => conv[msg[i].conv].app \in decided

ConvInv ==
  /\ ConvTypeOK
  /\ \A a \in Apps : app[a] \in Decided => a \in decided
  /\ \A i \in DOMAIN msg : InOrder(i)
  /\ \A r \in Callers : Held(creq[r])

\* Nothing that was opened, written or decided is taken back: the tables only
\* grow, and counters and read marks are all that changes in a row.
Grows ==
  /\ DOMAIN conv \subseteq DOMAIN conv'
  /\ \A c \in DOMAIN conv : conv'[c].app = conv[c].app
  /\ DOMAIN msg \subseteq DOMAIN msg'
  /\ \A i \in DOMAIN msg :
       msg'[i].conv = msg[i].conv /\ msg'[i].from = msg[i].from
  /\ decided \subseteq decided'

-----------------------------------------------------------------------------
\* A frame that is not idle is of one of six kinds, told apart by its pc.
LEMMA CallKinds ==
  ASSUME NEW q \in ConvFrame
  PROVE  /\ q.pc = "returned" => q \in [pc : {"returned"}, c : Nat]
         /\ q.pc \in {"find", "create"} => q \in [pc : {"find", "create"}, app : Apps]
         /\ q.pc = "load" =>
              q \in [pc : {"load"}, c : Nat \ {0}, from : Senders, text : Texts]
         /\ q.pc \in {"count", "dedupe", "insert"} =>
              q \in [pc : {"count", "dedupe", "insert"}, c : Nat \ {0},
                     from : Senders, text : Texts,
                     status : AppStatus \cup {"none"}, row : ConvRow]
         /\ q.pc \in {"save", "write"} =>
              q \in [pc : {"save", "write"}, op : {"send", "read"}, c : Nat \ {0},
                     from : Senders, row : ConvRow, dirty : SUBSET Columns]
         /\ q.pc = "mark" => q \in [pc : {"mark"}, c : Nat \ {0}, from : Senders]
  BY DEF ConvFrame

\* The result of a call is a frame, and one that holds what it must.
LEMMA ReturnIsFrame ==
  ASSUME NEW r, NEW c \in Nat, c = 0 \/ c \in DOMAIN conv
  PROVE  /\ Return(r, c) \in ConvFrame
         /\ Held(Return(r, c))
         /\ ~OnConversation(Return(r, c))
  BY DEF Return, ConvFrame, ConvIdle, Held, OnConversation

\* A call that is idle holds nothing.
LEMMA IdleCall ==
  ConvIdle \in ConvFrame /\ Held(ConvIdle) /\ ~OnConversation(ConvIdle)
  BY DEF ConvIdle, ConvFrame, Held, OnConversation

\* What a frame holds, it holds while the tables grow.
LEMMA HeldWhileGrowing ==
  ASSUME ConvTypeOK, Grows, NEW q \in ConvFrame,
         OnConversation(q) => q.c \in DOMAIN conv, Held(q)
  PROVE  Held(q)'
<1>1. q.pc = "returned" => q.c = 0 \/ q.c \in DOMAIN conv'
  BY DEF Held, Grows
<1>2. q.pc \in {"count", "dedupe", "insert"} /\ q.status \in Decided =>
        conv'[q.c].app \in decided'
  BY DEF Held, Grows, OnConversation
<1>3. CompanyHasWritten(q.c) => CompanyHasWritten(q.c)'
  BY DEF CompanyHasWritten, Grows
<1>4. MayWrite(q) => MayWrite(q)'
  BY <1>3 DEF MayWrite
<1> QED
  BY <1>1, <1>2, <1>4 DEF Held

\* A message that was in order stays in order while the tables grow.
LEMMA InOrderWhileGrowing ==
  ASSUME ConvTypeOK, Grows, NEW i \in DOMAIN msg, InOrder(i)
  PROVE  InOrder(i)'
<1>1. /\ i \in Nat \ {0}
      /\ \A k \in 1..(i - 1) : k \in DOMAIN msg
      /\ msg[i].conv \in DOMAIN conv
  BY DEF ConvTypeOK
<1>2. /\ msg'[i].conv = msg[i].conv /\ msg'[i].from = msg[i].from
      /\ \A k \in 1..(i - 1) :
           msg'[k].conv = msg[k].conv /\ msg'[k].from = msg[k].from
      /\ conv'[msg[i].conv].app = conv[msg[i].conv].app
  BY <1>1 DEF Grows
<1> QED
  BY <1>1, <1>2 DEF InOrder, Grows

\* Every step below is of this kind: the tables grow, what is new in them is in
\* order, and a frame that changes holds what it must.
LEMMA GrowthKeepsInv ==
  ASSUME ConvInv, Grows, ConvTypeOK',
         \A a \in Apps : app'[a] \in Decided => a \in decided',
         \A i \in DOMAIN msg' : i \in DOMAIN msg \/ InOrder(i)',
         \A s \in Callers : creq'[s] = creq[s] \/ Held(creq[s])'
  PROVE  ConvInv'
<1>1. \A i \in DOMAIN msg' : InOrder(i)'
  BY InOrderWhileGrowing DEF ConvInv
<1>2. ASSUME NEW s \in Callers PROVE Held(creq[s])'
  <2>1. CASE creq'[s] = creq[s]
    <3>1. PICK q \in ConvFrame : q = creq[s]
      BY DEF ConvInv, ConvTypeOK
    <3>2. Held(q) /\ (OnConversation(q) => q.c \in DOMAIN conv)
      BY <3>1 DEF ConvInv, ConvTypeOK
    <3>3. Held(q)'
      BY <3>2, HeldWhileGrowing DEF ConvInv
    <3> QED
      BY <2>1, <3>1, <3>3 DEF Held, MayWrite, CompanyHasWritten
  <2> QED
    BY <2>1
<1> QED
  BY <1>1, <1>2 DEF ConvInv

-----------------------------------------------------------------------------
\* A step that only gives request r the frame f.
LEMMA MoveKeepsConv ==
  ASSUME ConvInv, NEW r \in Callers, NEW f \in ConvFrame, Held(f),
         OnConversation(f) => f.c \in DOMAIN conv,
         creq' = [creq EXCEPT ![r] = f], UNCHANGED <<app, decided, conv, msg>>
  PROVE  ConvInv'
<1>1. /\ creq' \in [Callers -> ConvFrame]
      /\ \A s \in Callers : creq'[s] = IF s = r THEN f ELSE creq[s]
  BY DEF ConvInv, ConvTypeOK
<1>2. ConvTypeOK'
  BY <1>1 DEF ConvInv, ConvTypeOK, OnConversation
<1>3. \A s \in Callers : Held(creq'[s])
  BY <1>1 DEF ConvInv
<1>4. \A s \in Callers : Held(creq[s])'
  BY <1>3 DEF Held, MayWrite, CompanyHasWritten
<1> QED
  BY <1>2, <1>4 DEF ConvInv, InOrder

\* Calls that begin or end without touching a table.
LEMMA ReturnKeepsConv ==
  ASSUME ConvInv, NEW r \in Callers, NEW c \in Nat, c = 0 \/ c \in DOMAIN conv,
         creq' = [creq EXCEPT ![r] = Return(r, c)],
         UNCHANGED <<app, decided, conv, msg>>
  PROVE  ConvInv'
<1>1. /\ Return(r, c) \in ConvFrame /\ Held(Return(r, c))
      /\ ~OnConversation(Return(r, c))
  BY ReturnIsFrame
<1> DEFINE f == Return(r, c)
<1>2. creq' = [creq EXCEPT ![r] = f]
  OBVIOUS
<1> HIDE DEF f
<1> QED
  BY <1>1, <1>2, MoveKeepsConv DEF f

\* The two controller handlers load and go to their first await.
LEMMA ArrivalKeepsConv ==
  ASSUME ConvInv, NEW r \in ConvReq, ConvArrives(r)
  PROVE  ConvInv'
<1> USE DEF Callers
<1>1. PICK c \in DOMAIN conv, from \in Senders :
        \/ \E text \in Texts : BeginSend(r, c, from, text)
        \/ BeginMarkRead(r, c, from)
  BY DEF ConvArrives
<1>2. c \in Nat \ {0} /\ conv[c] \in ConvRow
  BY DEF ConvInv, ConvTypeOK
<1>3. ASSUME NEW text \in Texts, BeginSend(r, c, from, text) PROVE ConvInv'
  <2> DEFINE f == [pc |-> "load", c |-> c, from |-> from, text |-> text]
  <2>1. f \in ConvFrame /\ Held(f) /\ f.c = c
    BY <1>2 DEF ConvFrame, Held
  <2>2. creq' = [creq EXCEPT ![r] = f] /\ UNCHANGED <<app, decided, conv, msg>>
    BY <1>3 DEF BeginSend
  <2> HIDE DEF f
  <2> QED
    BY <2>1, <2>2, MoveKeepsConv
<1>4. CASE BeginMarkRead(r, c, from)
  <2> DEFINE row == IF from = "company" THEN [conv[c] EXCEPT !.unreadCompany = 0]
                                        ELSE [conv[c] EXCEPT !.unreadSeeker = 0]
             f == [pc |-> "save", op |-> "read", c |-> c, from |-> from,
                   row |-> row, dirty |-> {}]
  <2>1. row \in ConvRow
    BY <1>2 DEF ConvRow
  <2>2. creq' = [creq EXCEPT ![r] = f] /\ UNCHANGED <<app, decided, conv, msg>>
    BY <1>4 DEF BeginMarkRead
  <2> HIDE DEF row
  <2>3. f \in ConvFrame /\ Held(f) /\ f.c = c
    BY <1>2, <2>1 DEF ConvFrame, Held
  <2> HIDE DEF f
  <2> QED
    BY <2>2, <2>3, MoveKeepsConv
<1> QED
  BY <1>1, <1>3, <1>4

-----------------------------------------------------------------------------
\* findOrCreate inserts a thread: nothing written before is about it.
LEMMA CreateKeepsConv ==
  ASSUME ConvInv, NEW r \in Callers, CreateConversation(r)
  PROVE  ConvInv'
<1> DEFINE new == [app |-> creq[r].app, unreadCompany |-> 0,
                   unreadSeeker |-> 0, last |-> 0]
<1>1. new \in ConvRow
  BY CallKinds DEF CreateConversation, ConvInv, ConvTypeOK, ConvRow
<1>2. conv' = Append(conv, new) /\ UNCHANGED <<app, decided, msg>>
  BY DEF CreateConversation
<1> HIDE DEF new
<1>3. /\ conv' \in Seq(ConvRow)
      /\ DOMAIN conv \subseteq DOMAIN conv'
      /\ \A c \in DOMAIN conv : conv'[c] = conv[c]
      /\ Len(conv) + 1 \in Nat \ {0}
      /\ Len(conv) + 1 \in DOMAIN conv'
  BY <1>1, <1>2 DEF ConvInv, ConvTypeOK
<1> DEFINE f == Return(r, Len(conv) + 1)
<1>4. f \in ConvFrame /\ ~OnConversation(f)
  BY <1>3 DEF Return, ConvFrame, ConvIdle, OnConversation
<1>5. f.pc = "returned" => f.c = Len(conv) + 1
  BY DEF Return, ConvIdle
<1>6. f.pc \in {"idle", "returned"}
  BY DEF Return, ConvIdle
<1>7. creq' = [creq EXCEPT ![r] = f]
  BY DEF CreateConversation
<1> HIDE DEF f
<1>8. /\ creq' \in [Callers -> ConvFrame]
      /\ \A s \in Callers : creq'[s] = IF s = r THEN f ELSE creq[s]
  BY <1>4, <1>7 DEF ConvInv, ConvTypeOK
<1>9. ConvTypeOK'
  BY <1>2, <1>3, <1>4, <1>8 DEF ConvInv, ConvTypeOK, OnConversation
<1>10. Grows
  BY <1>2, <1>3 DEF Grows
<1>11. \A s \in Callers : creq'[s] = creq[s] \/ Held(creq[s])'
  BY <1>3, <1>5, <1>6, <1>8 DEF Held
<1> QED
  BY <1>2, <1>9, <1>10, <1>11, GrowthKeepsInv DEF ConvInv

\* The entity with the new snapshot and counter is a row.
LEMMA CountedIsRow ==
  ASSUME NEW q, q.row \in ConvRow, NEW m \in Nat
  PROVE  Counted(q, m) \in ConvRow
<1>1. /\ q.row.unreadSeeker \in Nat /\ q.row.unreadSeeker + 1 \in Nat
      /\ q.row.unreadCompany \in Nat /\ q.row.unreadCompany + 1 \in Nat
  BY DEF ConvRow
<1> DEFINE s == q.row.unreadSeeker + 1
           k == q.row.unreadCompany + 1
<1>2. Counted(q, m) = IF q.from = "company"
                        THEN [q.row EXCEPT !.last = m, !.unreadSeeker = s]
                        ELSE [q.row EXCEPT !.last = m, !.unreadCompany = k]
  BY DEF Counted
<1> HIDE DEF s, k
<1>3. s \in Nat /\ k \in Nat
  BY <1>1 DEF s, k
<1> QED
  BY <1>2, <1>3 DEF ConvRow

\* Rules 4 and 5: the message that is inserted is in order, because the call
\* still holds what rules 1 and 2 checked.
LEMMA InsertKeepsConv ==
  ASSUME ConvInv, NEW r \in Callers, InsertMessage(r)
  PROVE  ConvInv'
<1> PICK n \in Nat \ {0} : n = Len(msg) + 1
  BY DEF ConvInv, ConvTypeOK
<1> DEFINE q == creq[r]
           new == [conv |-> q.c, from |-> q.from, text |-> q.text,
                   read |-> FALSE, recent |-> TRUE]
           f == [pc |-> "save", op |-> "send", c |-> q.c, from |-> q.from,
                 row |-> Counted(q, n), dirty |-> {}]
<1>1. /\ q \in [pc : {"count", "dedupe", "insert"}, c : Nat \ {0},
                from : Senders, text : Texts,
                status : AppStatus \cup {"none"}, row : ConvRow]
      /\ q.pc = "insert"
      /\ q.c \in DOMAIN conv
      /\ Held(q)
  BY CallKinds DEF InsertMessage, ConvInv, ConvTypeOK, OnConversation
<1>2. new \in Message
  BY <1>1 DEF Message
<1>3. Counted(q, n) \in ConvRow
  BY <1>1, CountedIsRow
<1>4. f \in ConvFrame /\ f.c = q.c /\ f.pc = "save"
  BY <1>1, <1>3 DEF ConvFrame
<1>5. /\ msg' = Append(msg, new)
      /\ creq' = [creq EXCEPT ![r] = f]
      /\ UNCHANGED <<app, decided, conv>>
  BY DEF InsertMessage
<1>6. new.conv = q.c /\ new.from = q.from
  OBVIOUS
<1> HIDE DEF f, new
<1>7. /\ msg' \in Seq(Message)
      /\ DOMAIN msg' = DOMAIN msg \cup {n}
      /\ \A i \in DOMAIN msg : msg'[i] = msg[i]
      /\ msg'[n] = new
      /\ DOMAIN msg = 1..(n - 1)
  BY <1>2, <1>5 DEF ConvInv, ConvTypeOK
<1>8. /\ creq' \in [Callers -> ConvFrame]
      /\ \A s \in Callers : creq'[s] = IF s = r THEN f ELSE creq[s]
  BY <1>4, <1>5 DEF ConvInv, ConvTypeOK
<1>9. ConvTypeOK'
  BY <1>1, <1>4, <1>5, <1>6, <1>7, <1>8 DEF ConvInv, ConvTypeOK, OnConversation
<1>10. Grows
  BY <1>5, <1>7 DEF Grows
<1>11. CompanyHasWritten(q.c) => conv[q.c].app \in decided
  BY DEF CompanyHasWritten, ConvInv, InOrder
<1>12. InOrder(n)'
  <2>1. MayWrite(q) /\ (q.status \in Decided => conv[q.c].app \in decided)
    BY <1>1 DEF Held
  <2>2. q.from = "seeker" =>
          \E k \in 1..(n - 1) : msg[k].conv = q.c /\ msg[k].from = "company"
    BY <1>7, <2>1 DEF MayWrite, CompanyHasWritten
  <2>3. q.from = "company" => conv[q.c].app \in decided
    BY <1>11, <2>1 DEF MayWrite
  <2>4. msg'[n].conv = q.c /\ msg'[n].from = q.from
    BY <1>6, <1>7
  <2>5. \A k \in 1..(n - 1) : msg'[k] = msg[k]
    BY <1>7
  <2> QED
    BY <1>5, <2>2, <2>3, <2>4, <2>5 DEF InOrder
<1>13. \A s \in Callers : creq'[s] = creq[s] \/ Held(creq[s])'
  BY <1>4, <1>8 DEF Held
<1> QED
  BY <1>5, <1>7, <1>9, <1>10, <1>12, <1>13, GrowthKeepsInv DEF ConvInv

\* The second half of a save keeps the application of the thread, which is not
\* among the columns a save of this service can find changed.
LEMMA SaveKeepsConv ==
  ASSUME ConvInv, NEW r \in Callers, SaveWriteConversation(r)
  PROVE  ConvInv'
<1> PICK c \in Nat \ {0} : c = creq[r].c
  BY CallKinds DEF SaveWriteConversation, ConvInv, ConvTypeOK
<1> DEFINE q == creq[r]
           old == conv[c]
           new == [app |-> old.app,
                   unreadCompany |-> Column("unreadCompany", q.row.unreadCompany,
                                            old.unreadCompany, q.dirty),
                   unreadSeeker |-> Column("unreadSeeker", q.row.unreadSeeker,
                                           old.unreadSeeker, q.dirty),
                   last |-> Column("last", q.row.last, old.last, q.dirty)]
           f == IF q.op = "send" THEN Return(r, c)
                                 ELSE [pc |-> "mark", c |-> c, from |-> q.from]
<1>1. /\ q \in [pc : {"save", "write"}, op : {"send", "read"}, c : Nat \ {0},
                from : Senders, row : ConvRow, dirty : SUBSET Columns]
      /\ c \in DOMAIN conv
  BY CallKinds DEF SaveWriteConversation, ConvInv, ConvTypeOK, OnConversation
<1>2. old \in ConvRow
  BY <1>1 DEF ConvInv, ConvTypeOK
<1>3. new \in ConvRow /\ new.app = old.app
  BY <1>1, <1>2 DEF ConvRow, Column
<1>4. /\ conv' = [conv EXCEPT ![c] = new]
      /\ creq' = [creq EXCEPT ![r] = f]
      /\ UNCHANGED <<app, decided, msg>>
  BY DEF SaveWriteConversation
<1>5. /\ f \in ConvFrame /\ Held(f)
      /\ OnConversation(f) => f.c = c
  <2>1. CASE q.op = "send"
    BY <1>1, <2>1, ReturnIsFrame
  <2>2. CASE q.op # "send"
    BY <1>1, <2>2 DEF ConvFrame, Held
  <2> QED
    BY <2>1, <2>2
<1> HIDE DEF new, f
<1>6. /\ conv' \in Seq(ConvRow)
      /\ DOMAIN conv' = DOMAIN conv
      /\ \A d \in DOMAIN conv : conv'[d].app = conv[d].app
  BY <1>1, <1>3, <1>4 DEF ConvInv, ConvTypeOK
<1>7. /\ creq' \in [Callers -> ConvFrame]
      /\ \A s \in Callers : creq'[s] = IF s = r THEN f ELSE creq[s]
  BY <1>4, <1>5 DEF ConvInv, ConvTypeOK
<1>8. ConvTypeOK'
  BY <1>1, <1>4, <1>5, <1>6, <1>7 DEF ConvInv, ConvTypeOK, OnConversation
<1>9. Grows
  BY <1>4, <1>6 DEF Grows
<1>10. \A s \in Callers : creq'[s] = creq[s] \/ Held(creq[s])'
  <2>1. PICK g \in ConvFrame : g = f
    BY <1>5
  <2>2. Held(g)'
    BY <1>1, <1>5, <1>9, <2>1, HeldWhileGrowing DEF ConvInv
  <2>3. creq'[r] = g => Held(creq[r])'
    BY <2>2 DEF Held, MayWrite, CompanyHasWritten
  <2> QED
    BY <1>7, <2>1, <2>3
<1> QED
  BY <1>4, <1>8, <1>9, <1>10, GrowthKeepsInv DEF ConvInv

\* markRead marks messages: who wrote them, and where, stays.
LEMMA MarkKeepsConv ==
  ASSUME ConvInv, NEW r \in Callers, MarkMessages(r)
  PROVE  ConvInv'
<1>1. creq[r].c \in Nat /\ creq[r].c \in DOMAIN conv
  BY CallKinds DEF MarkMessages, ConvInv, ConvTypeOK, OnConversation
<1> DEFINE f == Return(r, creq[r].c)
<1>2. f \in ConvFrame /\ Held(f) /\ ~OnConversation(f)
  BY <1>1, ReturnIsFrame
<1>3. /\ msg' = [i \in DOMAIN msg |->
                   IF msg[i].conv = creq[r].c THEN [msg[i] EXCEPT !.read = TRUE]
                                              ELSE msg[i]]
      /\ creq' = [creq EXCEPT ![r] = f]
      /\ UNCHANGED <<app, decided, conv>>
  BY DEF MarkMessages
<1> HIDE DEF f
<1>4. ASSUME NEW i \in DOMAIN msg
      PROVE  /\ msg'[i] \in Message
             /\ msg'[i].conv = msg[i].conv /\ msg'[i].from = msg[i].from
  <2>1. msg[i] \in Message
    BY DEF ConvInv, ConvTypeOK
  <2> QED
    BY <1>3, <2>1 DEF Message
<1>5. msg' \in Seq(Message) /\ DOMAIN msg' = DOMAIN msg
  <2>1. msg' = [i \in 1..Len(msg) |-> msg'[i]] /\ Len(msg) \in Nat
    BY <1>3 DEF ConvInv, ConvTypeOK
  <2> QED
    BY <1>3, <1>4, <2>1 DEF ConvInv, ConvTypeOK
<1>6. /\ creq' \in [Callers -> ConvFrame]
      /\ \A s \in Callers : creq'[s] = IF s = r THEN f ELSE creq[s]
  BY <1>2, <1>3 DEF ConvInv, ConvTypeOK
<1>7. ConvTypeOK'
  BY <1>2, <1>3, <1>4, <1>5, <1>6 DEF ConvInv, ConvTypeOK, OnConversation
<1>8. Grows
  BY <1>3, <1>4, <1>5 DEF Grows
<1>9. \A s \in Callers : creq'[s] = creq[s] \/ Held(creq[s])'
  <2>1. PICK g \in ConvFrame : g = f
    BY <1>2
  <2>2. Held(g)'
    BY <1>2, <1>8, <2>1, HeldWhileGrowing DEF ConvInv
  <2>3. creq'[r] = g => Held(creq[r])'
    BY <2>2 DEF Held, MayWrite, CompanyHasWritten
  <2> QED
    BY <1>6, <2>1, <2>3
<1> QED
  BY <1>3, <1>5, <1>7, <1>8, <1>9, GrowthKeepsInv DEF ConvInv

\* Time passes: the age of a message steers only the search for duplicates.
LEMMA AgeKeepsConv ==
  ASSUME ConvInv, MessageAges
  PROVE  ConvInv'
<1>1. PICK i \in DOMAIN msg : msg' = [msg EXCEPT ![i].recent = FALSE]
  BY DEF MessageAges
<1>2. UNCHANGED <<app, decided, conv, creq>>
  BY DEF MessageAges
<1>3. msg[i] \in Message
  BY DEF ConvInv, ConvTypeOK
<1> DEFINE new == [msg[i] EXCEPT !.recent = FALSE]
<1>4. new \in Message /\ new.conv = msg[i].conv /\ new.from = msg[i].from
  BY <1>3 DEF Message
<1>5. msg' = [msg EXCEPT ![i] = new]
  BY <1>1
<1> HIDE DEF new
<1>6. /\ msg' \in Seq(Message)
      /\ DOMAIN msg' = DOMAIN msg
      /\ \A k \in DOMAIN msg :
           msg'[k].conv = msg[k].conv /\ msg'[k].from = msg[k].from
  BY <1>4, <1>5 DEF ConvInv, ConvTypeOK
<1>7. ConvTypeOK'
  BY <1>2, <1>6 DEF ConvInv, ConvTypeOK, OnConversation
<1>8. Grows
  BY <1>2, <1>6 DEF Grows
<1> QED
  BY <1>2, <1>6, <1>7, <1>8, GrowthKeepsInv DEF ConvInv

-----------------------------------------------------------------------------
\* sendMessage loads: the status it reads is one that was stored.
LEMMA LoadKeepsConv ==
  ASSUME ConvInv, NEW r \in Callers, LoadConversation(r)
  PROVE  ConvInv'
<1> DEFINE q == creq[r]
           f == [pc |-> "count", c |-> q.c, from |-> q.from, text |-> q.text,
                 status |-> app[conv[q.c].app], row |-> conv[q.c]]
<1>1. /\ q \in [pc : {"load"}, c : Nat \ {0}, from : Senders, text : Texts]
      /\ q.c \in DOMAIN conv
  BY CallKinds DEF LoadConversation, ConvInv, ConvTypeOK, OnConversation
<1>2. conv[q.c] \in ConvRow /\ conv[q.c].app \in Apps
  <2>1. \A c \in DOMAIN conv : conv[c] \in ConvRow
    BY DEF ConvInv, ConvTypeOK
  <2>2. \A row \in ConvRow : row.app \in Apps
    BY DEF ConvRow
  <2> QED
    BY <1>1, <2>1, <2>2
<1>3. app[conv[q.c].app] \in AppStatus \cup {"none"}
  BY <1>2 DEF ConvInv, ConvTypeOK
<1>4. f \in ConvFrame /\ f.c = q.c
  BY <1>1, <1>2, <1>3 DEF ConvFrame
<1>5. Held(f)
  BY <1>2 DEF Held, ConvInv
<1>6. creq' = [creq EXCEPT ![r] = f] /\ UNCHANGED <<app, decided, conv, msg>>
  BY DEF LoadConversation
<1> HIDE DEF f
<1> QED
  BY <1>1, <1>4, <1>5, <1>6, MoveKeepsConv

\* The awaits at which sendMessage only reads.
LEMMA ReadsKeepConv ==
  ASSUME ConvInv, NEW r \in Callers,
         CheckRules(r) \/ FindDuplicate(r) \/ SaveReadConversation(r)
  PROVE  ConvInv'
<1> DEFINE q == creq[r]
<1>0. q \in ConvFrame /\ Held(q) /\ q.c \in DOMAIN conv /\ q.c \in Nat
  BY CallKinds DEF ConvInv, ConvTypeOK, OnConversation,
                   CheckRules, FindDuplicate, SaveReadConversation
<1>1. CASE CheckRules(r)
  <2>1. CASE MayWrite(q)
    <3> DEFINE f == [q EXCEPT !.pc = "dedupe"]
    <3>1. /\ q.pc = "count"
          /\ creq' = [creq EXCEPT ![r] = f]
          /\ UNCHANGED <<app, decided, conv, msg>>
      BY <1>1, <2>1 DEF CheckRules
    <3>2. f \in ConvFrame /\ f.c = q.c
      BY <1>0, <3>1, CallKinds DEF ConvFrame
    <3>3. Held(f)
      BY <1>0, <2>1, <3>1, CallKinds DEF Held, MayWrite
    <3> HIDE DEF f
    <3> QED
      BY <1>0, <3>1, <3>2, <3>3, MoveKeepsConv
  <2>2. CASE ~MayWrite(q)
    BY <1>1, <2>2, ReturnKeepsConv DEF CheckRules
  <2> QED
    BY <2>1, <2>2
<1>2. CASE FindDuplicate(r)
  <2> DEFINE f == [q EXCEPT !.pc = "insert"]
  <2>1. /\ q.pc = "dedupe"
        /\ \/ creq' = [creq EXCEPT ![r] = f]
           \/ creq' = [creq EXCEPT ![r] = Return(r, q.c)]
        /\ UNCHANGED <<app, decided, conv, msg>>
    BY <1>2 DEF FindDuplicate
  <2>2. f \in ConvFrame /\ f.c = q.c
    BY <1>0, <2>1, CallKinds DEF ConvFrame
  <2>3. Held(f)
    BY <1>0, <2>1, CallKinds DEF Held, MayWrite
  <2> HIDE DEF f
  <2> QED
    BY <1>0, <2>1, <2>2, <2>3, MoveKeepsConv, ReturnKeepsConv
<1>3. CASE SaveReadConversation(r)
  <2> DEFINE D == {k \in Columns : q.row[k] # conv[q.c][k]}
             f == [q EXCEPT !.pc = "write", !.dirty = D]
  <2>1. /\ q.pc = "save"
        /\ creq' = [creq EXCEPT ![r] = f]
        /\ UNCHANGED <<app, decided, conv, msg>>
    BY <1>3 DEF SaveReadConversation, ConvInv, ConvTypeOK
  <2>2. D \in SUBSET Columns
    OBVIOUS
  <2> HIDE DEF D
  <2>3. f \in ConvFrame /\ f.c = q.c /\ f.pc = "write"
    BY <1>0, <2>1, <2>2, CallKinds DEF ConvFrame
  <2>4. Held(f)
    BY <2>3 DEF Held
  <2> HIDE DEF f
  <2> QED
    BY <1>0, <2>1, <2>3, <2>4, MoveKeepsConv
<1> QED
  BY <1>1, <1>2, <1>3

\* No step of ConversationsService breaks the invariant, whoever calls it.
LEMMA ConvStep ==
  ASSUME ConvInv, ConvNext
  PROVE  ConvInv'
<1>1. ASSUME NEW r \in ConvReq, ConvArrives(r) PROVE ConvInv'
  BY <1>1, ArrivalKeepsConv
<1>2. ASSUME NEW r \in Callers, ConvContinues(r) PROVE ConvInv'
  <2>1. CASE FindConversation(r)
    <3> DEFINE f == [creq[r] EXCEPT !.pc = "create"]
    <3>1. /\ creq[r].pc = "find"
          /\ UNCHANGED <<app, decided, conv, msg>>
          /\ \/ creq' = [creq EXCEPT ![r] = f]
             \/ \E c \in DOMAIN conv : creq' = [creq EXCEPT ![r] = Return(r, c)]
      BY <2>1 DEF FindConversation, ConvInv, ConvTypeOK
    <3>2. f \in ConvFrame /\ f.pc = "create"
      BY <3>1, CallKinds DEF ConvFrame, ConvInv, ConvTypeOK
    <3>3. Held(f) /\ ~OnConversation(f)
      BY <3>2 DEF Held, OnConversation
    <3>4. DOMAIN conv \subseteq Nat
      BY DEF ConvInv, ConvTypeOK
    <3> HIDE DEF f
    <3> QED
      BY <3>1, <3>2, <3>3, <3>4, MoveKeepsConv, ReturnKeepsConv
  <2> QED
    BY <1>2, <2>1, CreateKeepsConv, LoadKeepsConv, ReadsKeepConv, InsertKeepsConv,
       SaveKeepsConv, MarkKeepsConv
       DEF ConvContinues
<1>3. ASSUME NEW r \in Callers, AbortCall(r) PROVE ConvInv'
  BY <1>3, ReturnKeepsConv DEF AbortCall
<1> QED
  BY <1>1, <1>2, <1>3, AgeKeepsConv DEF ConvNext

-----------------------------------------------------------------------------
\* What a request of ApplicationsController relies on between its awaits: the
\* application it saves exists, the decision it tells of was stored.
AppHeld(q) ==
  /\ q.pc \in {"save", "write"} => app[q.app] # "none"
  /\ q.pc \in {"opening", "sending", "notify"} /\ q.to \in Decided =>
       q.app \in decided

AppInv ==
  /\ AppTypeOK
  /\ \A r \in AppReq : AppHeld(areq[r])

HiringInv == JobsInv /\ ConvInv /\ AppInv

-----------------------------------------------------------------------------
\* A frame that is not idle is of one of four kinds, told apart by its pc.
LEMMA AppKinds ==
  ASSUME NEW q \in AppFrame
  PROVE  /\ q.pc \in {"exists", "insert", "tell"} =>
              q \in [pc : {"exists", "insert", "tell"}, app : Apps, tells : BOOLEAN]
         /\ q.pc \in {"save", "write"} =>
              q \in [pc : {"save", "write"}, op : {"update", "bulk", "withdraw"},
                     app : Apps, to : AppStatus, remark : BOOLEAN]
         /\ q.pc \in {"opening", "sending", "notify"} =>
              q \in [pc : {"opening", "sending", "notify"}, app : Apps,
                     to : AppStatus, remark : BOOLEAN]
  BY DEF AppFrame

\* Idle requests and lists of ids hold nothing.
LEMMA IdleApp ==
  /\ AppIdle \in AppFrame /\ AppHeld(AppIdle) /\ AppIdle.pc = "idle"
  /\ [pc |-> "list"] \in AppFrame /\ AppHeld([pc |-> "list"])
  BY DEF AppIdle, AppFrame, AppHeld

\* The two writes of an application: its row gets status s, and a decision is
\* remembered.
LEMMA StoreAppEffect ==
  ASSUME ConvTypeOK, NEW a \in Apps, NEW s \in AppStatus, StoreApp(a, s),
         \A b \in Apps : app[b] \in Decided => b \in decided
  PROVE  /\ app' \in [Apps -> AppStatus \cup {"none"}]
         /\ \A b \in Apps : app'[b] = IF b = a THEN s ELSE app[b]
         /\ decided' \in SUBSET Apps
         /\ decided \subseteq decided'
         /\ \A b \in Apps : app'[b] \in Decided => b \in decided'
  BY DEF StoreApp, ConvTypeOK

\* What a request relies on stays true: decisions stay stored and
\* applications inserted.
LEMMA GrowthKeepsApp ==
  ASSUME AppInv, decided \subseteq decided',
         \A a \in Apps : app[a] # "none" => app'[a] # "none",
         areq' \in [AppReq -> AppFrame],
         \A s \in AppReq : areq'[s] = areq[s] \/ AppHeld(areq[s])'
  PROVE  AppInv'
<1>2. ASSUME NEW s \in AppReq, areq'[s] = areq[s] PROVE AppHeld(areq[s])'
  <2>1. areq[s] \in AppFrame /\ AppHeld(areq[s])
    BY DEF AppInv, AppTypeOK
  <2>2. areq[s].pc \in {"exists", "insert", "tell", "save", "write", "opening",
                        "sending", "notify"} => areq[s].app \in Apps
    BY <2>1, AppKinds
  <2> QED
    BY <1>2, <2>1, <2>2 DEF AppHeld
<1> QED
  BY <1>2 DEF AppInv, AppTypeOK

\* A step of ApplicationsService writes no thread and no message; the call it
\* starts or ends holds nothing yet.
LEMMA CallerKeepsConv ==
  ASSUME ConvInv, NEW r \in AppReq, NEW f \in ConvFrame,
         f.pc \in {"idle", "find", "load"},
         f.pc = "load" => f.c \in DOMAIN conv,
         creq' \in {creq, [creq EXCEPT ![r] = f]},
         app' \in [Apps -> AppStatus \cup {"none"}],
         decided' \in SUBSET Apps, decided \subseteq decided',
         \A a \in Apps : app'[a] \in Decided => a \in decided',
         UNCHANGED <<conv, msg>>
  PROVE  ConvInv'
<1>1. r \in Callers
  BY DEF AppReq, Callers
<1>2. /\ creq' \in [Callers -> ConvFrame]
      /\ \A s \in Callers : creq'[s] = creq[s] \/ creq'[s] = f
  BY <1>1 DEF ConvInv, ConvTypeOK
<1>3. OnConversation(f) => f.c \in DOMAIN conv
  BY DEF OnConversation
<1>4. ConvTypeOK'
  BY <1>2, <1>3 DEF ConvInv, ConvTypeOK, OnConversation
<1>5. Grows
  BY DEF Grows
<1>6. \A s \in Callers : creq'[s] = creq[s] \/ Held(creq[s])'
  BY <1>2 DEF Held
<1> QED
  BY <1>4, <1>5, <1>6, GrowthKeepsInv

\* The empty tables, with no request in flight.
LEMMA HiringInit == Init => HiringInv
<1> SUFFICES ASSUME Init PROVE HiringInv
  OBVIOUS
<1>1. JobsInv
  BY JobsInvInit DEF Init
<1>2. ConvInv
  BY IdleCall DEF Init, ConvInit, ConvInv, ConvTypeOK, Decided
<1>3. AppInv
  BY IdleApp DEF Init, ConvInit, AppInit, AppInv, AppTypeOK
<1> QED
  BY <1>1, <1>2, <1>3 DEF HiringInv

-----------------------------------------------------------------------------
\* A step that changes no row: request r goes on with frame g, its call with f.
LEMMA GotoKeepsHiring ==
  ASSUME HiringInv, NEW r \in AppReq, NEW g \in AppFrame, AppHeld(g), Goto(r, g),
         NEW f \in ConvFrame, f.pc \in {"idle", "find", "load"},
         f.pc = "load" => f.c \in DOMAIN conv,
         creq' \in {creq, [creq EXCEPT ![r] = f]},
         UNCHANGED <<app, decided, conv, msg>>, UNCHANGED jobVars
  PROVE  HiringInv'
<1>1. JobsInv'
  BY DEF HiringInv, JobsInv, jobVars, JobsTypeOK, AnnouncedWasPublished, Witnessed
<1>2. ConvInv'
  BY CallerKeepsConv DEF HiringInv, ConvInv, ConvTypeOK
<1>3. /\ areq' \in [AppReq -> AppFrame]
      /\ \A s \in AppReq : areq'[s] = IF s = r THEN g ELSE areq[s]
  BY DEF HiringInv, AppInv, AppTypeOK, Goto
<1>4. \A s \in AppReq : areq'[s] = areq[s] \/ AppHeld(areq[s])'
  BY <1>3 DEF AppHeld
<1>5. AppInv'
  BY <1>3, <1>4, GrowthKeepsApp DEF HiringInv
<1> QED
  BY <1>1, <1>2, <1>5 DEF HiringInv

\* A step that stores status s in the row of application a.
LEMMA StoreKeepsHiring ==
  ASSUME HiringInv, NEW r \in AppReq, NEW a \in Apps, NEW s \in AppStatus,
         StoreApp(a, s),
         NEW g \in AppFrame, Goto(r, g),
         g.pc \in {"idle", "list", "tell", "opening"},
         g.pc = "opening" => g.app = a /\ g.to = s,
         NEW f \in ConvFrame, f.pc \in {"idle", "find"},
         creq' \in {creq, [creq EXCEPT ![r] = f]},
         UNCHANGED <<conv, msg>>, UNCHANGED jobVars
  PROVE  HiringInv'
<1>1. JobsInv'
  BY DEF HiringInv, JobsInv, jobVars, JobsTypeOK, AnnouncedWasPublished, Witnessed
<1>2. /\ app' \in [Apps -> AppStatus \cup {"none"}]
      /\ \A b \in Apps : app'[b] = IF b = a THEN s ELSE app[b]
      /\ decided' \in SUBSET Apps
      /\ decided \subseteq decided'
      /\ \A b \in Apps : app'[b] \in Decided => b \in decided'
  BY StoreAppEffect DEF HiringInv, ConvInv
<1>3. ConvInv'
  BY <1>2, CallerKeepsConv DEF HiringInv
<1>4. /\ areq' \in [AppReq -> AppFrame]
      /\ \A t \in AppReq : areq'[t] = IF t = r THEN g ELSE areq[t]
  BY DEF HiringInv, AppInv, AppTypeOK, Goto
<1>5. s # "none"
  BY DEF AppStatus
<1>6. \A t \in AppReq : areq'[t] = areq[t] \/ AppHeld(areq[t])'
  BY <1>2, <1>4 DEF AppHeld
<1>7. AppInv'
  BY <1>2, <1>4, <1>5, <1>6, GrowthKeepsApp DEF HiringInv
<1> QED
  BY <1>1, <1>3, <1>7 DEF HiringInv

\* What follows a save, whether it wrote or found the row as it wants it: the
\* frames of the request and of its call.
LEMMA AfterSaveFrames ==
  ASSUME ConvTypeOK, AppTypeOK, NEW r \in AppReq,
         areq[r].pc \in {"save", "write"}, AfterSaveApp(r)
  PROVE  \E g \in AppFrame, f \in ConvFrame :
           /\ Goto(r, g)
           /\ g.pc \in {"idle", "list", "opening"}
           /\ g.pc = "opening" => g.app = areq[r].app /\ g.to = areq[r].to
           /\ f.pc \in {"idle", "find"}
           /\ creq' \in {creq, [creq EXCEPT ![r] = f]}
<1> DEFINE q == areq[r]
<1>1. q \in [pc : {"save", "write"}, op : {"update", "bulk", "withdraw"},
             app : Apps, to : AppStatus, remark : BOOLEAN]
  BY AppKinds DEF AppTypeOK
<1>2. CASE q.op = "withdraw"
  <2>1. Goto(r, AppIdle) /\ creq' = creq
    BY <1>2 DEF AfterSaveApp
  <2> QED
    BY <2>1, IdleApp, IdleCall DEF ConvIdle
<1>3. CASE q.op = "bulk"
  <2> DEFINE g == [pc |-> "list"]
  <2>1. Goto(r, g) /\ creq' = creq /\ g.pc = "list" /\ g \in AppFrame
    BY <1>3, IdleApp DEF AfterSaveApp
  <2> HIDE DEF g
  <2> QED
    BY <2>1, IdleCall DEF ConvIdle
<1>4. CASE q.op = "update"
  <2> DEFINE g == [pc |-> "opening", app |-> q.app, to |-> q.to, remark |-> q.remark]
             f == [pc |-> "find", app |-> q.app]
  <2>1. Goto(r, g) /\ creq' = [creq EXCEPT ![r] = f]
    BY <1>4 DEF AfterSaveApp
  <2>2. g \in AppFrame /\ g.pc = "opening" /\ g.app = q.app /\ g.to = q.to
    BY <1>1 DEF AppFrame
  <2>3. f \in ConvFrame /\ f.pc = "find"
    BY <1>1 DEF ConvFrame
  <2> HIDE DEF f, g
  <2> QED
    BY <2>1, <2>2, <2>3
<1> QED
  BY <1>1, <1>2, <1>3, <1>4

-----------------------------------------------------------------------------
\* The four handlers begin: each checks the row it loaded.
LEMMA AppArrivesKeeps ==
  ASSUME HiringInv, NEW r \in AppReq, AppArrives(r),
         UNCHANGED <<conv, msg>>, UNCHANGED jobVars
  PROVE  HiringInv'
<1>1. CASE BeginBulk(r)
  <2> DEFINE g == [pc |-> "list"]
  <2>1. Goto(r, g) /\ UNCHANGED <<app, decided, creq>>
    BY <1>1 DEF BeginBulk
  <2>2. g \in AppFrame /\ AppHeld(g)
    BY IdleApp
  <2> HIDE DEF g
  <2> QED
    BY <2>1, <2>2, IdleCall, GotoKeepsHiring DEF ConvIdle
<1>2. ASSUME NEW a \in Apps, BeginApply(r, a) PROVE HiringInv'
  <2> DEFINE g == [pc |-> "exists", app |-> a, tells |-> TRUE]
  <2>1. Goto(r, g) /\ UNCHANGED <<app, decided, creq>>
    BY <1>2 DEF BeginApply
  <2>2. g \in AppFrame /\ AppHeld(g)
    BY DEF AppFrame, AppHeld
  <2> HIDE DEF g
  <2> QED
    BY <2>1, <2>2, IdleCall, GotoKeepsHiring DEF ConvIdle
<1>3. ASSUME NEW a \in Apps, BeginWithdraw(r, a) PROVE HiringInv'
  <2> DEFINE g == [pc |-> "save", op |-> "withdraw", app |-> a,
                   to |-> "withdrawn", remark |-> FALSE]
  <2>1. Goto(r, g) /\ UNCHANGED <<app, decided, creq>> /\ app[a] # "none"
    BY <1>3 DEF BeginWithdraw
  <2>2. g \in AppFrame /\ AppHeld(g)
    BY <2>1 DEF AppFrame, AppStatus, AppHeld
  <2> HIDE DEF g
  <2> QED
    BY <2>1, <2>2, IdleCall, GotoKeepsHiring DEF ConvIdle
<1>4. ASSUME NEW a \in Apps, NEW to \in {"reviewed", "shortlisted", "accepted", "rejected"},
             NEW remark \in BOOLEAN, BeginUpdateStatus(r, a, to, remark)
      PROVE  HiringInv'
  <2> DEFINE g == [pc |-> "save", op |-> "update", app |-> a, to |-> to,
                   remark |-> remark]
  <2>1. Goto(r, g) /\ UNCHANGED <<app, decided, creq>> /\ app[a] # "none"
    BY <1>4 DEF BeginUpdateStatus
  <2>2. g \in AppFrame /\ AppHeld(g)
    BY <2>1 DEF AppFrame, AppStatus, AppHeld
  <2> HIDE DEF g
  <2> QED
    BY <2>1, <2>2, IdleCall, GotoKeepsHiring DEF ConvIdle
<1>5. ASSUME NEW a \in Apps, BeginApplyFromApp(r, a) PROVE HiringInv'
  <2> DEFINE g == [pc |-> "exists", app |-> a, tells |-> FALSE]
  <2>1. Goto(r, g) /\ UNCHANGED <<app, decided, creq>>
    BY <1>5 DEF BeginApplyFromApp
  <2>2. g \in AppFrame /\ AppHeld(g)
    BY <2>1 DEF AppFrame, AppHeld
  <2> HIDE DEF g
  <2> QED
    BY <2>1, <2>2, IdleCall, GotoKeepsHiring DEF ConvIdle
<1> QED
  BY <1>1, <1>2, <1>3, <1>4, <1>5 DEF AppArrives

\* apply goes on: lookup, insert, notification.
LEMMA ApplyKeeps ==
  ASSUME HiringInv, NEW r \in AppReq,
         FindExisting(r) \/ InsertApplication(r) \/ TellCompany(r),
         UNCHANGED <<conv, msg>>, UNCHANGED jobVars
  PROVE  HiringInv'
<1> DEFINE q == areq[r]
<1>0. /\ q \in [pc : {"exists", "insert", "tell"}, app : Apps, tells : BOOLEAN]
      /\ AppHeld(q)
  BY AppKinds
     DEF HiringInv, AppInv, AppTypeOK, FindExisting, InsertApplication, TellCompany
<1>1. CASE FindExisting(r)
  <2> DEFINE g == [q EXCEPT !.pc = "insert"]
  <2>1. /\ q.pc = "exists"
        /\ Goto(r, g) \/ Goto(r, AppIdle)
        /\ UNCHANGED <<app, decided, creq>>
    BY <1>1 DEF FindExisting
  <2>2. g \in AppFrame /\ AppHeld(g)
    BY <1>0, <2>1 DEF AppFrame, AppHeld
  <2> HIDE DEF g
  <2> QED
    BY <2>1, <2>2, IdleApp, IdleCall, GotoKeepsHiring DEF ConvIdle
<1>2. CASE InsertApplication(r)
  <2>1. CASE app[q.app] = "none"
    <3> DEFINE g == IF q.tells THEN [q EXCEPT !.pc = "tell"] ELSE AppIdle
    <3>1. /\ StoreApp(q.app, "pending") /\ Goto(r, g) /\ creq' = creq
      BY <1>0, <1>2, <2>1 DEF InsertApplication, AppHeld
    <3>2. g \in AppFrame /\ g.pc \in {"idle", "tell"} /\ "pending" \in AppStatus
      BY <1>0, IdleApp DEF AppFrame, AppStatus
    <3> HIDE DEF g
    <3> QED
      BY <1>0, <3>1, <3>2, IdleCall, StoreKeepsHiring DEF ConvIdle
  <2>2. CASE app[q.app] # "none"
    BY <1>2, <2>2, IdleApp, IdleCall, GotoKeepsHiring DEF InsertApplication, ConvIdle
  <2> QED
    BY <2>1, <2>2
<1>3. CASE TellCompany(r)
  BY <1>3, IdleApp, IdleCall, GotoKeepsHiring DEF TellCompany, ConvIdle
<1> QED
  BY <1>1, <1>2, <1>3

\* The saves of updateStatus, bulkShortlist and withdraw, and the loop of
\* bulkShortlist.
LEMMA SavesKeep ==
  ASSUME HiringInv, NEW r \in AppReq,
         \/ SaveReadApplication(r) \/ SaveWriteApplication(r) \/ EndBulk(r)
         \/ \E a \in Apps : NextInBulk(r, a),
         UNCHANGED <<conv, msg>>, UNCHANGED jobVars
  PROVE  HiringInv'
<1> DEFINE q == areq[r]
<1>1. CASE SaveReadApplication(r)
  <2>0. /\ q \in [pc : {"save", "write"}, op : {"update", "bulk", "withdraw"},
                  app : Apps, to : AppStatus, remark : BOOLEAN]
        /\ AppHeld(q) /\ q.pc = "save"
        /\ UNCHANGED <<app, decided>>
    BY <1>1, AppKinds DEF SaveReadApplication, HiringInv, AppInv, AppTypeOK
  <2>1. CASE app[q.app] = q.to
    <3>1. q.to \in Decided => q.app \in decided
      BY <2>0, <2>1 DEF HiringInv, ConvInv
    <3>2. AfterSaveApp(r)
      BY <1>1, <2>1 DEF SaveReadApplication
    <3>3. PICK g \in AppFrame, f \in ConvFrame :
            /\ Goto(r, g)
            /\ g.pc \in {"idle", "list", "opening"}
            /\ g.pc = "opening" => g.app = q.app /\ g.to = q.to
            /\ f.pc \in {"idle", "find"}
            /\ creq' \in {creq, [creq EXCEPT ![r] = f]}
      BY <2>0, <3>2, AfterSaveFrames DEF HiringInv, ConvInv, AppInv
    <3>4. AppHeld(g)
      BY <3>1, <3>3 DEF AppHeld
    <3> QED
      BY <2>0, <3>3, <3>4, GotoKeepsHiring
  <2>2. CASE app[q.app] # q.to
    <3> DEFINE g == [q EXCEPT !.pc = "write"]
    <3>1. Goto(r, g) /\ creq' = creq
      BY <1>1, <2>2 DEF SaveReadApplication
    <3>2. g \in AppFrame /\ AppHeld(g)
      BY <2>0 DEF AppFrame, AppHeld
    <3> HIDE DEF g
    <3> QED
      BY <2>0, <3>1, <3>2, IdleCall, GotoKeepsHiring DEF ConvIdle
  <2> QED
    BY <2>1, <2>2
<1>2. CASE SaveWriteApplication(r)
  <2>0. /\ q \in [pc : {"save", "write"}, op : {"update", "bulk", "withdraw"},
                  app : Apps, to : AppStatus, remark : BOOLEAN]
        /\ AppHeld(q) /\ q.pc = "write"
        /\ StoreApp(q.app, q.to) /\ AfterSaveApp(r)
    BY <1>2, AppKinds DEF SaveWriteApplication, HiringInv, AppInv, AppTypeOK
  <2>1. PICK g \in AppFrame, f \in ConvFrame :
          /\ Goto(r, g)
          /\ g.pc \in {"idle", "list", "opening"}
          /\ g.pc = "opening" => g.app = q.app /\ g.to = q.to
          /\ f.pc \in {"idle", "find"}
          /\ creq' \in {creq, [creq EXCEPT ![r] = f]}
    BY <2>0, AfterSaveFrames DEF HiringInv, ConvInv, AppInv
  <2>2. app[q.app] # "none"
    BY <2>0 DEF AppHeld
  <2> QED
    BY <2>0, <2>1, <2>2, StoreKeepsHiring
<1>3. CASE EndBulk(r)
  BY <1>3, IdleApp, IdleCall, GotoKeepsHiring DEF EndBulk, ConvIdle
<1>4. ASSUME NEW a \in Apps, NextInBulk(r, a) PROVE HiringInv'
  <2> DEFINE g == [pc |-> "save", op |-> "bulk", app |-> a, to |-> "shortlisted",
                   remark |-> FALSE]
  <2>1. Goto(r, g) /\ UNCHANGED <<app, decided, creq>> /\ app[a] # "none"
    BY <1>4 DEF NextInBulk
  <2>2. g \in AppFrame /\ AppHeld(g)
    BY <2>1 DEF AppFrame, AppStatus, AppHeld
  <2> HIDE DEF g
  <2> QED
    BY <2>1, <2>2, IdleCall, GotoKeepsHiring DEF ConvIdle
<1> QED
  BY <1>1, <1>2, <1>3, <1>4

\* The end of updateStatus: its two calls answer, the seeker is notified.
LEMMA AnswersKeep ==
  ASSUME HiringInv, NEW r \in AppReq,
         ConversationOpened(r) \/ RemarkAnswered(r) \/ NotifySeeker(r),
         UNCHANGED <<conv, msg>>, UNCHANGED jobVars
  PROVE  HiringInv'
<1> DEFINE q == areq[r]
           g == [q EXCEPT !.pc = "notify"]
<1>0. /\ q \in [pc : {"opening", "sending", "notify"}, app : Apps,
                to : AppStatus, remark : BOOLEAN]
      /\ AppHeld(q)
  BY AppKinds DEF HiringInv, AppInv, AppTypeOK,
                  ConversationOpened, RemarkAnswered, NotifySeeker
<1>1. g \in AppFrame /\ AppHeld(g)
  BY <1>0 DEF AppFrame, AppHeld
<1>2. CASE ConversationOpened(r)
  <2> DEFINE h == [q EXCEPT !.pc = "sending"]
             f == [pc |-> "load", c |-> creq[r].c, from |-> "company", text |-> Remark]
  <2>1. /\ UNCHANGED <<app, decided>>
        /\ \/ Goto(r, g) /\ creq' = [creq EXCEPT ![r] = ConvIdle]
           \/ /\ Goto(r, h) /\ creq' = [creq EXCEPT ![r] = f]
              /\ creq[r].c # 0
    BY <1>2 DEF ConversationOpened
  <2>2. h \in AppFrame /\ AppHeld(h)
    BY <1>0 DEF AppFrame, AppHeld
  <2>3. creq[r] \in ConvFrame /\ Held(creq[r]) /\ creq[r].pc = "returned"
    BY <1>2 DEF ConversationOpened, HiringInv, ConvInv, ConvTypeOK, Callers, AppReq
  <2>4. creq[r].c # 0 => creq[r].c \in DOMAIN conv /\ creq[r].c \in Nat \ {0}
    BY <2>3, CallKinds DEF Held
  <2>5. creq[r].c # 0 => /\ f \in ConvFrame
                         /\ f.pc = "load" /\ f.c \in DOMAIN conv
    BY <2>4, RemarkAssumption DEF ConvFrame, Senders
  <2> HIDE DEF f, g, h
  <2>6. CASE Goto(r, g) /\ creq' = [creq EXCEPT ![r] = ConvIdle]
    BY <1>1, <2>1, <2>6, IdleCall, GotoKeepsHiring DEF ConvIdle
  <2>7. CASE Goto(r, h) /\ creq' = [creq EXCEPT ![r] = f] /\ creq[r].c # 0
    BY <2>1, <2>2, <2>5, <2>7, GotoKeepsHiring
  <2> QED
    BY <2>1, <2>6, <2>7
<1>3. CASE RemarkAnswered(r)
  <2>1. /\ Goto(r, g) /\ creq' = [creq EXCEPT ![r] = ConvIdle]
        /\ UNCHANGED <<app, decided>>
    BY <1>3 DEF RemarkAnswered
  <2> HIDE DEF g
  <2> QED
    BY <1>1, <2>1, IdleCall, GotoKeepsHiring DEF ConvIdle
<1>4. CASE NotifySeeker(r)
  BY <1>4, IdleApp, IdleCall, GotoKeepsHiring DEF NotifySeeker, ConvIdle
<1> QED
  BY <1>2, <1>3, <1>4

\* No step of recruitment breaks the invariant.
LEMMA HiringStep == HiringInv /\ [Next]_hiringVars => HiringInv'
<1> SUFFICES ASSUME HiringInv, [Next]_hiringVars PROVE HiringInv'
  OBVIOUS
<1>1. CASE JobsNext /\ UNCHANGED <<convVars, areq>>
  <2>1. JobsInv'
    BY <1>1, JobsInvStep DEF HiringInv
  <2>2. ConvInv'
    BY <1>1 DEF HiringInv, ConvInv, ConvTypeOK, convVars, InOrder, Held, MayWrite,
                CompanyHasWritten
  <2>3. AppInv'
    BY <1>1, GrowthKeepsApp DEF HiringInv, AppInv, AppTypeOK, convVars
  <2> QED
    BY <2>1, <2>2, <2>3 DEF HiringInv
<1>2. CASE ConvNext /\ UNCHANGED <<jobVars, areq>>
  <2>1. ConvInv'
    BY <1>2, ConvStep DEF HiringInv
  <2>2. UNCHANGED <<app, decided>>
    BY <1>2 DEF ConvNext, ConvArrives, ConvContinues, BeginSend, BeginMarkRead,
                FindConversation, CreateConversation, LoadConversation, CheckRules,
                FindDuplicate, InsertMessage, SaveReadConversation,
                SaveWriteConversation, MarkMessages, AbortCall, MessageAges
  <2>3. JobsInv'
    BY <1>2 DEF HiringInv, JobsInv, jobVars, JobsTypeOK, AnnouncedWasPublished,
                Witnessed
  <2>4. AppInv'
    BY <1>2, <2>2, GrowthKeepsApp DEF HiringInv, AppInv, AppTypeOK
  <2> QED
    BY <2>1, <2>3, <2>4 DEF HiringInv
<1>3. CASE AppNext /\ UNCHANGED jobVars
  <2>1. PICK r \in AppReq : AppArrives(r) \/ AppContinues(r) \/ AbortApplication(r)
    BY <1>3 DEF AppNext
  <2>2. UNCHANGED <<conv, msg>> /\ UNCHANGED jobVars
    BY <1>3 DEF AppNext
  <2>3. CASE AbortApplication(r)
    BY <2>2, <2>3, IdleApp, IdleCall, GotoKeepsHiring DEF AbortApplication, ConvIdle
  <2> QED
    BY <2>1, <2>2, <2>3, AppArrivesKeeps, ApplyKeeps, SavesKeep, AnswersKeep
       DEF AppContinues
<1>4. CASE UNCHANGED hiringVars
  BY <1>4 DEF hiringVars, HiringInv, JobsInv, JobsTypeOK, AnnouncedWasPublished,
              Witnessed, ConvInv, ConvTypeOK, InOrder, Held, MayWrite,
              CompanyHasWritten, AppInv, AppTypeOK, AppHeld
<1> QED
  BY <1>1, <1>2, <1>3, <1>4 DEF Next

-----------------------------------------------------------------------------
\* Every reachable state of recruitment is well typed.
THEOREM HiringTypeCorrect == Spec => []TypeOK
<1>1. HiringInv => TypeOK
  BY DEF HiringInv, JobsInv, ConvInv, AppInv, TypeOK
<1> QED
  BY <1>1, HiringInit, HiringStep, PTL DEF Spec

\* Rule 1 of sendMessage survives its awaits: the candidate never writes first,
\* whatever requests overlap.
THEOREM SeekerNeverFirst == Spec => []SeekerAnswers
<1>1. HiringInv => SeekerAnswers
  BY DEF HiringInv, ConvInv, InOrder, SeekerAnswers
<1> QED
  BY <1>1, HiringInit, HiringStep, PTL DEF Spec

\* Rule 2 of sendMessage survives its awaits, and so does the remark that
\* updateStatus sends: the company writes only about applications that were
\* shortlisted, accepted or rejected.
THEOREM CompanyNeverEarly == Spec => []CompanyWritesAfterDecision
<1>1. HiringInv => CompanyWritesAfterDecision
  BY DEF HiringInv, ConvInv, InOrder, CompanyWritesAfterDecision
<1> QED
  BY <1>1, HiringInit, HiringStep, PTL DEF Spec

\* updateStatus notifies the seeker only of a decision that was stored.
THEOREM NoticesAreOfDecisions == Spec => DecisionStoredBeforeNotice
<1> DEFINE Told == \A r \in AppReq :
             areq[r].pc = "notify" /\ areq[r].to \in Decided /\ areq'[r] # areq[r]
               => areq[r].app \in decided
<1>1. HiringInv /\ [Next]_hiringVars => [Told]_hiringVars
  BY DEF HiringInv, AppInv, AppHeld
<1>2. Spec => [][Told]_hiringVars
  BY <1>1, HiringInit, HiringStep, PTL DEF Spec
<1> QED
  BY <1>2 DEF DecisionStoredBeforeNotice

-----------------------------------------------------------------------------
\* MessageFlow sees a step of recruitment as one of its own when threads are
\* only appended to, and nothing happens to it when counters, read marks and
\* requests change.
Threads == [c \in DOMAIN conv |-> conv[c].app]
Said == [i \in DOMAIN msg |-> [thread |-> msg[i].conv, who |-> msg[i].from]]

\* Append as a function.
LEMMA AppendIsFunction ==
  ASSUME NEW T, NEW s \in Seq(T), NEW x \in T
  PROVE  Append(s, x) =
           [i \in 1..(Len(s) + 1) |-> IF i \in 1..Len(s) THEN s[i] ELSE x]
<1> DEFINE t == Append(s, x)
<1>1. /\ t \in Seq(T) /\ Len(t) = Len(s) + 1 /\ Len(s) \in Nat
      /\ \A i \in 1..(Len(s) + 1) : t[i] = IF i \in 1..Len(s) THEN s[i] ELSE x
  OBVIOUS
<1> HIDE DEF t
<1>2. t = [i \in 1..(Len(s) + 1) |-> t[i]]
  BY <1>1
<1>3. t = [i \in 1..(Len(s) + 1) |-> IF i \in 1..Len(s) THEN s[i] ELSE x]
  BY <1>1, <1>2
<1> QED
  BY <1>3 DEF t

\* A thread more.
LEMMA ThreadAppended ==
  ASSUME conv \in Seq(ConvRow), NEW row \in ConvRow, conv' = Append(conv, row)
  PROVE  Threads' = Append(Threads, row.app)
<1>1. /\ DOMAIN conv = 1..Len(conv) /\ Len(conv) \in Nat
      /\ DOMAIN conv' = 1..(Len(conv) + 1)
      /\ \A c \in 1..Len(conv) : conv'[c] = conv[c]
      /\ conv'[Len(conv) + 1] = row
  OBVIOUS
<1>2. Threads \in Seq(Apps) /\ Len(Threads) = Len(conv) /\ row.app \in Apps
  <2>1. \A c \in 1..Len(conv) : conv[c] \in ConvRow
    BY <1>1
  <2>2. \A q \in ConvRow : q.app \in Apps
    BY DEF ConvRow
  <2> QED
    BY <1>1, <2>1, <2>2 DEF Threads
<1>3. Append(Threads, row.app) =
        [c \in 1..(Len(conv) + 1) |-> IF c \in 1..Len(conv) THEN Threads[c] ELSE row.app]
  BY <1>2, AppendIsFunction
<1>4. Threads' = [c \in 1..(Len(conv) + 1) |-> conv'[c].app]
  BY <1>1 DEF Threads
<1>5. \A c \in 1..(Len(conv) + 1) :
        conv'[c].app = IF c \in 1..Len(conv) THEN Threads[c] ELSE row.app
  BY <1>1 DEF Threads
<1> QED
  BY <1>3, <1>4, <1>5

\* A message more.
LEMMA MessageAppended ==
  ASSUME msg \in Seq(Message), NEW new \in Message, msg' = Append(msg, new)
  PROVE  Said' = Append(Said, [thread |-> new.conv, who |-> new.from])
<1> DEFINE T == [thread : Nat, who : Senders]
           x == [thread |-> new.conv, who |-> new.from]
<1>1. /\ DOMAIN msg = 1..Len(msg) /\ Len(msg) \in Nat
      /\ DOMAIN msg' = 1..(Len(msg) + 1)
      /\ \A c \in 1..Len(msg) : msg'[c] = msg[c]
      /\ msg'[Len(msg) + 1] = new
  OBVIOUS
<1>2. Said \in Seq(T) /\ Len(Said) = Len(msg) /\ x \in T
  <2>1. \A c \in 1..Len(msg) : msg[c] \in Message
    BY <1>1
  <2>2. \A m \in Message : [thread |-> m.conv, who |-> m.from] \in T
    BY DEF Message
  <2> HIDE DEF T
  <2> QED
    BY <1>1, <2>1, <2>2 DEF Said
<1> HIDE DEF T, x
<1>3. Append(Said, x) = [c \in 1..(Len(msg) + 1) |->
                           IF c \in 1..Len(msg) THEN Said[c] ELSE x]
  BY <1>2, AppendIsFunction
<1>4. Said' = [c \in 1..(Len(msg) + 1) |->
                 [thread |-> msg'[c].conv, who |-> msg'[c].from]]
  BY <1>1 DEF Said
<1>5. \A c \in 1..(Len(msg) + 1) :
        [thread |-> msg'[c].conv, who |-> msg'[c].from] =
          IF c \in 1..Len(msg) THEN Said[c] ELSE x
  BY <1>1 DEF Said, x
<1>6. Said' = Append(Said, x)
  BY <1>3, <1>4, <1>5
<1> QED
  BY <1>6 DEF x

\* Rows written to keep their applications.
LEMMA ThreadsKept ==
  ASSUME DOMAIN conv' = DOMAIN conv, \A c \in DOMAIN conv : conv'[c].app = conv[c].app
  PROVE  Threads' = Threads
  BY DEF Threads

\* Messages written to keep their threads and senders.
LEMMA SaidKept ==
  ASSUME DOMAIN msg' = DOMAIN msg,
         \A i \in DOMAIN msg :
           msg'[i].conv = msg[i].conv /\ msg'[i].from = msg[i].from
  PROVE  Said' = Said
  BY DEF Said

\* findOrCreate opens a thread, sendMessage speaks in one; nothing else that
\* ConversationsService does is visible in MessageFlow.
LEMMA ConvFlows ==
  ASSUME HiringInv, ConvNext
  PROVE  \/ UNCHANGED <<decided, Threads, Said>>
         \/ \E a \in Apps : /\ Threads' = Append(Threads, a)
                            /\ UNCHANGED <<decided, Said>>
         \/ \E t \in DOMAIN Threads, who \in Senders :
              /\ Flow!MaySpeak(t, who)
              /\ Said' = Append(Said, [thread |-> t, who |-> who])
              /\ UNCHANGED <<decided, Threads>>
<1>0. /\ conv \in Seq(ConvRow) /\ msg \in Seq(Message)
      /\ creq \in [Callers -> ConvFrame]
      /\ \A r \in Callers : OnConversation(creq[r]) => creq[r].c \in DOMAIN conv
  BY DEF HiringInv, ConvInv, ConvTypeOK
<1>1. CASE MessageAges
  <2>1. UNCHANGED <<decided, conv>>
    BY <1>1 DEF MessageAges
  <2>2. PICK i \in DOMAIN msg : msg' = [msg EXCEPT ![i].recent = FALSE]
    BY <1>1 DEF MessageAges
  <2>3. \A k \in DOMAIN msg : msg[k] \in Message
    BY <1>0
  <2>4. Said' = Said
    BY <2>2, <2>3, SaidKept DEF Message
  <2> QED
    BY <2>1, <2>4 DEF Threads
<1>2. ASSUME NEW r \in ConvReq, ConvArrives(r) PROVE UNCHANGED <<decided, Threads, Said>>
  BY <1>2 DEF ConvArrives, BeginSend, BeginMarkRead, Threads, Said
<1>3. ASSUME NEW r \in Callers, AbortCall(r) PROVE UNCHANGED <<decided, Threads, Said>>
  BY <1>3 DEF AbortCall, Threads, Said
<1>4. ASSUME NEW r \in Callers,
             \/ FindConversation(r) \/ LoadConversation(r) \/ CheckRules(r)
             \/ FindDuplicate(r) \/ SaveReadConversation(r)
      PROVE  UNCHANGED <<decided, Threads, Said>>
  BY <1>4 DEF FindConversation, LoadConversation, CheckRules, FindDuplicate,
              SaveReadConversation, Threads, Said
<1>5. ASSUME NEW r \in Callers, CreateConversation(r)
      PROVE  \E a \in Apps : Threads' = Append(Threads, a) /\ UNCHANGED <<decided, Said>>
  <2> DEFINE row == [app |-> creq[r].app, unreadCompany |-> 0, unreadSeeker |-> 0,
                     last |-> 0]
  <2>1. conv' = Append(conv, row) /\ UNCHANGED <<decided, msg>>
    BY <1>5 DEF CreateConversation
  <2>2. row \in ConvRow /\ row.app = creq[r].app /\ creq[r].app \in Apps
    BY <1>0, <1>5, CallKinds DEF CreateConversation, ConvRow
  <2> HIDE DEF row
  <2>3. Threads' = Append(Threads, creq[r].app)
    BY <1>0, <2>1, <2>2, ThreadAppended
  <2> QED
    BY <2>1, <2>2, <2>3 DEF Said
<1>6. ASSUME NEW r \in Callers, InsertMessage(r)
      PROVE  \E t \in DOMAIN Threads, who \in Senders :
               /\ Flow!MaySpeak(t, who)
               /\ Said' = Append(Said, [thread |-> t, who |-> who])
               /\ UNCHANGED <<decided, Threads>>
  <2> DEFINE q == creq[r]
             new == [conv |-> q.c, from |-> q.from, text |-> q.text,
                     read |-> FALSE, recent |-> TRUE]
  <2>1. /\ q \in [pc : {"count", "dedupe", "insert"}, c : Nat \ {0},
                  from : Senders, text : Texts,
                  status : AppStatus \cup {"none"}, row : ConvRow]
        /\ q.pc = "insert" /\ q.c \in DOMAIN conv /\ Held(q)
    BY <1>0, <1>6, CallKinds DEF InsertMessage, HiringInv, ConvInv, OnConversation
  <2>2. msg' = Append(msg, new) /\ UNCHANGED <<decided, conv>>
    BY <1>6 DEF InsertMessage
  <2>3. new \in Message /\ new.conv = q.c /\ new.from = q.from
    BY <2>1 DEF Message
  <2> HIDE DEF new
  <2>4. Said' = Append(Said, [thread |-> q.c, who |-> q.from])
    BY <1>0, <2>2, <2>3, MessageAppended
  <2>5. CompanyHasWritten(q.c) => conv[q.c].app \in decided
    BY DEF CompanyHasWritten, HiringInv, ConvInv, InOrder
  <2>6. CompanyHasWritten(q.c) => Flow!CompanySpoke(q.c)
    BY DEF CompanyHasWritten, Flow!CompanySpoke
  <2>7. Flow!MaySpeak(q.c, q.from)
    BY <2>1, <2>5, <2>6 DEF Held, MayWrite, Senders, Flow!MaySpeak
  <2> QED
    BY <2>1, <2>2, <2>4, <2>7 DEF Threads
<1>7. ASSUME NEW r \in Callers, SaveWriteConversation(r)
      PROVE  UNCHANGED <<decided, Threads, Said>>
  <2>1. UNCHANGED <<decided, msg>>
    BY <1>7 DEF SaveWriteConversation
  <2> DEFINE q == creq[r]
             old == conv[q.c]
             new == [app |-> old.app,
                     unreadCompany |-> Column("unreadCompany", q.row.unreadCompany,
                                              old.unreadCompany, q.dirty),
                     unreadSeeker |-> Column("unreadSeeker", q.row.unreadSeeker,
                                             old.unreadSeeker, q.dirty),
                     last |-> Column("last", q.row.last, old.last, q.dirty)]
  <2>2. conv' = [conv EXCEPT ![q.c] = new] /\ new.app = conv[q.c].app
    BY <1>7 DEF SaveWriteConversation
  <2> HIDE DEF new
  <2>3. Threads' = Threads
    BY <2>2, ThreadsKept
  <2> QED
    BY <2>1, <2>3 DEF Said
<1>8. ASSUME NEW r \in Callers, MarkMessages(r)
      PROVE  UNCHANGED <<decided, Threads, Said>>
  <2>1. UNCHANGED <<decided, conv>>
    BY <1>8 DEF MarkMessages
  <2>2. \A k \in DOMAIN msg : msg[k] \in Message
    BY <1>0
  <2>3. Said' = Said
    BY <1>8, <2>2, SaidKept DEF MarkMessages, Message
  <2> QED
    BY <2>1, <2>3 DEF Threads
<1> QED
  BY <1>1, <1>2, <1>3, <1>4, <1>5, <1>6, <1>7, <1>8 DEF ConvNext, ConvContinues

\* A step of ApplicationsService is a decision or invisible.
LEMMA AppFlows ==
  ASSUME HiringInv, AppNext
  PROVE  /\ UNCHANGED <<Threads, Said>>
         /\ decided' = decided \/ \E a \in Apps : decided' = decided \cup {a}
<1>1. UNCHANGED <<Threads, Said>>
  BY DEF AppNext, Threads, Said
<1>2. PICK r \in AppReq : AppArrives(r) \/ AppContinues(r) \/ AbortApplication(r)
  BY DEF AppNext
<1>3. CASE InsertApplication(r) \/ SaveWriteApplication(r)
  <2>1. areq[r].app \in Apps
    BY <1>3, AppKinds DEF InsertApplication, SaveWriteApplication, HiringInv, AppInv,
                          AppTypeOK
  <2> QED
    BY <1>1, <1>3, <2>1 DEF InsertApplication, SaveWriteApplication, StoreApp
<1>4. CASE ~(InsertApplication(r) \/ SaveWriteApplication(r))
  <2>1. decided' = decided
    BY <1>2, <1>4
       DEF AppArrives, AppContinues, AbortApplication, BeginBulk, BeginApply,
           BeginApplyFromApp,
           BeginWithdraw, BeginUpdateStatus, FindExisting, TellCompany, NextInBulk,
           EndBulk, SaveReadApplication, ConversationOpened, RemarkAnswered,
           NotifySeeker
  <2> QED
    BY <1>1, <2>1
<1> QED
  BY <1>3, <1>4

\* Every step of recruitment is one of MessageFlow, or invisible in it.
LEMMA FlowStep == HiringInv /\ [Next]_hiringVars => [Flow!Next]_(Flow!vars)
<1> SUFFICES ASSUME HiringInv, [Next]_hiringVars PROVE [Flow!Next]_(Flow!vars)
  OBVIOUS
<1>1. CASE UNCHANGED <<decided, Threads, Said>>
  BY <1>1 DEF Flow!vars, Threads, Said
<1>2. ASSUME NEW a \in Apps, Threads' = Append(Threads, a), UNCHANGED <<decided, Said>>
      PROVE  Flow!Next
  BY <1>2 DEF Flow!Next, Flow!Open, Threads, Said
<1>3. ASSUME NEW t \in DOMAIN Threads, NEW who \in Senders, Flow!MaySpeak(t, who),
             Said' = Append(Said, [thread |-> t, who |-> who]),
             UNCHANGED <<decided, Threads>>
      PROVE  Flow!Next
  <2>1. Flow!Speak(t, who)
    BY <1>3 DEF Flow!Speak, Threads, Said
  <2> QED
    BY <2>1 DEF Flow!Next, Threads, Senders
<1>4. ASSUME NEW a \in Apps, decided' = decided \cup {a}, UNCHANGED <<Threads, Said>>
      PROVE  Flow!Next
  BY <1>4 DEF Flow!Next, Flow!Decide, Threads, Said
<1>5. CASE UNCHANGED convVars
  BY <1>1, <1>5 DEF convVars, Threads, Said
<1>6. CASE ConvNext
  BY <1>1, <1>2, <1>3, <1>6, ConvFlows
<1>7. CASE AppNext
  BY <1>1, <1>4, <1>7, AppFlows
<1> QED
  BY <1>5, <1>6, <1>7 DEF Next, hiringVars, convVars

\* The three services of recruitment implement MessageFlow: under any overlap
\* of requests and any faults, threads and what is said in them follow the order
\* that sendMessage enforces request by request.
THEOREM RecruitmentImplementsMessageFlow == Spec => ImplementsMessageFlow
<1>1. Init => Flow!Init
  BY DEF Init, ConvInit, Flow!Init
<1> QED
  BY <1>1, HiringInit, HiringStep, FlowStep, PTL
     DEF Spec, ImplementsMessageFlow, Flow!Spec

-----------------------------------------------------------------------------
\* The unread counters of a conversation never show more than was written,
\* although sendMessage and markRead save rows they loaded some awaits before.

\* No more unread messages in row than the other side wrote in thread c.
Bounded(c, row) ==
  /\ row.unreadSeeker <= Sent(c, {"company"})
  /\ row.unreadCompany <= Sent(c, {"seeker", "admin"})

\* A call that holds a row it loaded, or the one it is about to save.
Snapshot(q) == q.pc \in {"count", "dedupe", "insert", "save", "write"}

\* The strengthening of UnreadWasWritten: a snapshot that waits to be saved was
\* bounded when it was taken, and messages are never deleted.
UnreadInv ==
  /\ \A c \in DOMAIN conv : Bounded(c, conv[c])
  /\ \A r \in Callers : Snapshot(creq[r]) => Bounded(creq[r].c, creq[r].row)

-----------------------------------------------------------------------------
\* The messages of m that a sender in S wrote in thread c.
Written(m, c, S) == {i \in DOMAIN m : m[i].conv = c /\ m[i].from \in S}

\* The messages of a thread can be counted.
LEMMA WrittenIsFinite ==
  ASSUME NEW m \in Seq(Message), NEW c, NEW S
  PROVE  /\ IsFiniteSet(Written(m, c, S))
         /\ Cardinality(Written(m, c, S)) \in Nat
<1>1. DOMAIN m = 1..Len(m) /\ Len(m) \in Nat
  OBVIOUS
<1>2. IsFiniteSet(1..Len(m))
  BY <1>1, FS_Interval
<1>3. Written(m, c, S) \in SUBSET (1..Len(m))
  BY <1>1 DEF Written
<1>4. IsFiniteSet(Written(m, c, S))
  BY <1>2, <1>3, FS_Subset
<1> QED
  BY <1>4, FS_CardinalityType

\* Sent counts them.
LEMMA SentIsCardinality ==
  ASSUME NEW c, NEW S
  PROVE  /\ Sent(c, S) = Cardinality(Written(msg, c, S))
         /\ Sent(c, S)' = Cardinality(Written(msg', c, S))
  BY DEF Sent, Written

\* Counts do not shrink while messages keep their threads and senders.
LEMMA SentGrows ==
  ASSUME msg \in Seq(Message), msg' \in Seq(Message), DOMAIN msg \subseteq DOMAIN msg',
         \A i \in DOMAIN msg :
           msg'[i].conv = msg[i].conv /\ msg'[i].from = msg[i].from,
         NEW c, NEW S
  PROVE  /\ Sent(c, S) \in Nat /\ Sent(c, S)' \in Nat
         /\ Sent(c, S) <= Sent(c, S)'
<1>1. Cardinality(Written(msg, c, S)) \in Nat
  BY WrittenIsFinite
<1>2. /\ IsFiniteSet(Written(msg', c, S))
      /\ Cardinality(Written(msg', c, S)) \in Nat
  BY WrittenIsFinite
<1>3. Written(msg, c, S) \in SUBSET Written(msg', c, S)
  BY DEF Written
<1>4. Cardinality(Written(msg, c, S)) <= Cardinality(Written(msg', c, S))
  BY <1>2, <1>3, FS_Subset
<1> QED
  BY <1>1, <1>2, <1>4, SentIsCardinality

\* A message more counts once.
LEMMA SentCounts ==
  ASSUME msg \in Seq(Message), NEW new \in Message, msg' = Append(msg, new),
         NEW S, new.from \in S
  PROVE  Sent(new.conv, S)' = Sent(new.conv, S) + 1
<1> DEFINE M == Written(msg, new.conv, S)
<1>1. /\ DOMAIN msg = 1..Len(msg) /\ Len(msg) \in Nat
      /\ DOMAIN msg' = 1..(Len(msg) + 1)
      /\ \A i \in 1..Len(msg) : msg'[i] = msg[i]
      /\ msg'[Len(msg) + 1] = new
  OBVIOUS
<1>2. Written(msg', new.conv, S) = M \cup {Len(msg) + 1} /\ Len(msg) + 1 \notin M
  BY <1>1 DEF Written
<1>3. IsFiniteSet(M)
  BY WrittenIsFinite
<1>4. Cardinality(M \cup {Len(msg) + 1}) = Cardinality(M) + 1
  BY <1>2, <1>3, FS_AddElement
<1> QED
  BY <1>2, <1>4, SentIsCardinality

\* A bounded row stays bounded while messages keep their threads and senders.
LEMMA BoundedWhileGrowing ==
  ASSUME msg \in Seq(Message), msg' \in Seq(Message), DOMAIN msg \subseteq DOMAIN msg',
         \A i \in DOMAIN msg :
           msg'[i].conv = msg[i].conv /\ msg'[i].from = msg[i].from,
         NEW c, NEW row \in ConvRow, Bounded(c, row)
  PROVE  Bounded(c, row)'
<1>1. row.unreadSeeker \in Nat /\ row.unreadCompany \in Nat
  BY DEF ConvRow
<1> DEFINE S == {"company"}
           T == {"seeker", "admin"}
<1>2. /\ row.unreadSeeker <= Sent(c, S)
      /\ row.unreadCompany <= Sent(c, T)
  BY DEF Bounded
<1> HIDE DEF S, T
<1>3. Sent(c, S) \in Nat /\ Sent(c, S)' \in Nat /\ Sent(c, S) <= Sent(c, S)'
  BY SentGrows
<1>4. Sent(c, T) \in Nat /\ Sent(c, T)' \in Nat /\ Sent(c, T) <= Sent(c, T)'
  BY SentGrows
<1>5. /\ row.unreadSeeker <= Sent(c, S)'
      /\ row.unreadCompany <= Sent(c, T)'
  BY <1>1, <1>2, <1>3, <1>4
<1> QED
  BY <1>5 DEF Bounded, S, T

\* The row of a snapshot is a row.
LEMMA SnapshotIsRow ==
  ASSUME NEW q \in ConvFrame, Snapshot(q)
  PROVE  q.row \in ConvRow
  BY CallKinds DEF Snapshot

\* Every step below is of this kind: messages keep their threads and senders,
\* and a row or snapshot that is new is bounded.
LEMMA GrowthKeepsUnread ==
  ASSUME ConvTypeOK, ConvTypeOK', UnreadInv, DOMAIN msg \subseteq DOMAIN msg',
         \A i \in DOMAIN msg :
           msg'[i].conv = msg[i].conv /\ msg'[i].from = msg[i].from,
         \A c \in DOMAIN conv' :
           (c \in DOMAIN conv /\ conv'[c] = conv[c]) \/ Bounded(c, conv[c])',
         \A s \in Callers :
           creq'[s] = creq[s]
             \/ (Snapshot(creq[s]) => Bounded(creq[s].c, creq[s].row))'
  PROVE  UnreadInv'
<1>0. msg \in Seq(Message) /\ msg' \in Seq(Message)
  BY DEF ConvTypeOK
<1>1. ASSUME NEW c \in DOMAIN conv' PROVE Bounded(c, conv[c])'
  <2>1. CASE c \in DOMAIN conv /\ conv'[c] = conv[c]
    <3>1. PICK row \in ConvRow : row = conv[c]
      BY <2>1 DEF ConvTypeOK
    <3>2. Bounded(c, row)
      BY <2>1, <3>1 DEF UnreadInv
    <3>3. Bounded(c, row)'
      BY <1>0, <3>2, BoundedWhileGrowing
    <3> QED
      BY <2>1, <3>1, <3>3 DEF Bounded
  <2> QED
    BY <2>1 DEF Bounded
<1>2. ASSUME NEW s \in Callers, Snapshot(creq[s])'
      PROVE  Bounded(creq[s].c, creq[s].row)'
  <2>1. CASE creq'[s] = creq[s]
    <3>1. PICK q \in ConvFrame : q = creq[s]
      BY DEF ConvTypeOK
    <3>2. Snapshot(q)
      BY <1>2, <2>1, <3>1 DEF Snapshot
    <3>3. q.row \in ConvRow /\ Bounded(q.c, q.row)
      BY <3>1, <3>2, SnapshotIsRow DEF UnreadInv
    <3>4. Bounded(q.c, q.row)'
      BY <1>0, <3>3, BoundedWhileGrowing
    <3> QED
      BY <2>1, <3>1, <3>4 DEF Bounded
  <2> QED
    BY <1>2, <2>1 DEF Bounded, Snapshot
<1> QED
  BY <1>1, <1>2 DEF UnreadInv

-----------------------------------------------------------------------------
\* A step that only gives request r a frame without a snapshot, or with one that
\* is bounded.
LEMMA MoveKeepsUnread ==
  ASSUME ConvTypeOK, ConvTypeOK', UnreadInv, NEW r \in Callers, NEW f \in ConvFrame,
         Snapshot(f) => Bounded(f.c, f.row),
         creq' = [creq EXCEPT ![r] = f], UNCHANGED <<conv, msg>>
  PROVE  UnreadInv'
<1>1. \A s \in Callers : creq'[s] = IF s = r THEN f ELSE creq[s]
  BY DEF ConvTypeOK
<1>2. \A s \in Callers :
        Snapshot(creq'[s]) => Bounded(creq'[s].c, creq'[s].row)
  BY <1>1 DEF UnreadInv
<1>3. \A c, S : Sent(c, S)' = Sent(c, S)
  BY SentIsCardinality
<1>4. \A c, row : Bounded(c, row) =>
        /\ row.unreadSeeker <= Sent(c, {"company"})'
        /\ row.unreadCompany <= Sent(c, {"seeker", "admin"})'
  BY <1>3 DEF Bounded
<1>5. \A c \in DOMAIN conv' : Bounded(c, conv[c])'
  BY <1>4 DEF UnreadInv, Bounded
<1>6. \A s \in Callers : (Snapshot(creq[s]) => Bounded(creq[s].c, creq[s].row))'
  BY <1>2, <1>4 DEF Bounded, Snapshot
<1> QED
  BY <1>5, <1>6 DEF UnreadInv

\* Calls that end, and those without a snapshot.
LEMMA ReturnHasNoSnapshot ==
  ASSUME NEW r, NEW c
  PROVE  ~Snapshot(Return(r, c))
  BY DEF Return, ConvIdle, Snapshot

\* sendMessage loads a row that is bounded, and keeps it until it inserts.
LEMMA SendKeepsUnread ==
  ASSUME ConvTypeOK, ConvTypeOK', UnreadInv, NEW r \in Callers,
         LoadConversation(r) \/ CheckRules(r) \/ FindDuplicate(r)
  PROVE  UnreadInv'
<1> DEFINE q == creq[r]
           f == creq'[r]
<1>1. q \in ConvFrame /\ f \in ConvFrame
  BY DEF ConvTypeOK
<1>2. creq' = [creq EXCEPT ![r] = f] /\ UNCHANGED <<conv, msg>>
  BY DEF LoadConversation, CheckRules, FindDuplicate, ConvTypeOK
<1>3. CASE LoadConversation(r)
  <2>1. q.c \in DOMAIN conv /\ f.c = q.c /\ f.row = conv[q.c]
    BY <1>3 DEF LoadConversation, ConvTypeOK, OnConversation
  <2>2. Bounded(f.c, f.row)
    BY <2>1 DEF UnreadInv
  <2> QED
    BY <1>1, <1>2, <2>2, MoveKeepsUnread
<1>4. CASE CheckRules(r) \/ FindDuplicate(r)
  <2>1. Snapshot(q) /\ Bounded(q.c, q.row)
    BY <1>4 DEF CheckRules, FindDuplicate, Snapshot, UnreadInv
  <2>2. \/ ~Snapshot(f)
        \/ f.c = q.c /\ f.row = q.row
    BY <1>1, <1>4, <2>1, ReturnHasNoSnapshot, CallKinds
       DEF CheckRules, FindDuplicate, ConvTypeOK
  <2>3. Snapshot(f) => Bounded(f.c, f.row)
    BY <2>1, <2>2
  <2> QED
    BY <1>1, <1>2, <2>3, MoveKeepsUnread
<1> QED
  BY <1>3, <1>4

\* Rules 4 and 5: the recipient's counter and the messages go up by one.
LEMMA InsertKeepsUnread ==
  ASSUME ConvTypeOK, ConvTypeOK', UnreadInv, NEW r \in Callers, InsertMessage(r)
  PROVE  UnreadInv'
<1> PICK n \in Nat : n = Len(msg) + 1
  BY DEF ConvTypeOK
<1>1. PICK q \in [pc : {"count", "dedupe", "insert"}, c : Nat \ {0},
                  from : Senders, text : Texts,
                  status : AppStatus \cup {"none"}, row : ConvRow] :
        q = creq[r] /\ q.pc = "insert"
  BY CallKinds DEF InsertMessage, ConvTypeOK
<1>2. Bounded(q.c, q.row) /\ q.row \in ConvRow
  BY <1>1 DEF UnreadInv, Snapshot
<1> DEFINE new == [conv |-> q.c, from |-> q.from, text |-> q.text,
                   read |-> FALSE, recent |-> TRUE]
           f == [pc |-> "save", op |-> "send", c |-> q.c, from |-> q.from,
                 row |-> Counted(q, n), dirty |-> {}]
<1>3. /\ msg' = Append(msg, new)
      /\ creq' = [creq EXCEPT ![r] = f]
      /\ conv' = conv
  BY <1>1 DEF InsertMessage
<1>4. new \in Message /\ new.conv = q.c /\ new.from = q.from
  BY <1>1 DEF Message
<1>5. f.c = q.c /\ f.row = Counted(q, n)
  OBVIOUS
<1> HIDE DEF new, f
<1>6. /\ msg \in Seq(Message) /\ msg' \in Seq(Message)
      /\ DOMAIN msg \subseteq DOMAIN msg'
      /\ \A i \in DOMAIN msg :
           msg'[i].conv = msg[i].conv /\ msg'[i].from = msg[i].from
  BY <1>3, <1>4 DEF ConvTypeOK
<1>7. \A s \in Callers : creq'[s] = IF s = r THEN f ELSE creq[s]
  BY <1>3 DEF ConvTypeOK
<1> DEFINE S == {"company"}
           T == {"seeker", "admin"}
           row == q.row
<1>8. /\ row.unreadSeeker \in Nat /\ row.unreadSeeker <= Sent(q.c, S)
      /\ row.unreadCompany \in Nat /\ row.unreadCompany <= Sent(q.c, T)
  BY <1>2 DEF Bounded, ConvRow
<1>9. /\ q.from \in S => Sent(q.c, S)' = Sent(q.c, S) + 1
      /\ q.from \in T => Sent(q.c, T)' = Sent(q.c, T) + 1
  BY <1>3, <1>4, <1>6, SentCounts
<1>10. q.from = "company" \/ q.from \in T
  BY <1>1 DEF Senders
<1>11. /\ Sent(q.c, S) \in Nat /\ Sent(q.c, S)' \in Nat /\ Sent(q.c, S) <= Sent(q.c, S)'
       /\ Sent(q.c, T) \in Nat /\ Sent(q.c, T)' \in Nat /\ Sent(q.c, T) <= Sent(q.c, T)'
  BY <1>6, SentGrows
<1>12. /\ f.row.unreadSeeker =
            IF q.from = "company" THEN row.unreadSeeker + 1 ELSE row.unreadSeeker
       /\ f.row.unreadCompany =
            IF q.from = "company" THEN row.unreadCompany ELSE row.unreadCompany + 1
  BY <1>2, <1>5 DEF Counted, ConvRow
<1>13. q.from = "company" => q.from \in S
  OBVIOUS
<1> HIDE DEF S, T, row
<1>14. f.row.unreadSeeker <= Sent(q.c, S)' /\ f.row.unreadCompany <= Sent(q.c, T)'
  BY <1>8, <1>9, <1>10, <1>11, <1>12, <1>13
<1>15. Bounded(f.c, f.row)'
  BY <1>5, <1>14 DEF Bounded, S, T
<1>16. ASSUME NEW s \in Callers
       PROVE  creq'[s] = creq[s]
                \/ (Snapshot(creq[s]) => Bounded(creq[s].c, creq[s].row))'
  BY <1>7, <1>15 DEF Bounded
<1> QED
  BY <1>3, <1>6, <1>16, GrowthKeepsUnread

\* The entity that a save of the badges writes is bounded, column by column.
LEMMA SaveKeepsUnread ==
  ASSUME ConvTypeOK, ConvTypeOK', UnreadInv, NEW r \in Callers,
         SaveWriteConversation(r)
  PROVE  UnreadInv'
<1>1. PICK q \in [pc : {"save", "write"}, op : {"send", "read"}, c : Nat \ {0},
                  from : Senders, row : ConvRow, dirty : SUBSET Columns] :
        q = creq[r] /\ q.c \in DOMAIN conv
  BY CallKinds DEF SaveWriteConversation, ConvTypeOK, OnConversation
<1>2. PICK old \in ConvRow : old = conv[q.c]
  BY <1>1 DEF ConvTypeOK
<1> DEFINE new == [app |-> old.app,
                   unreadCompany |-> Column("unreadCompany", q.row.unreadCompany,
                                            old.unreadCompany, q.dirty),
                   unreadSeeker |-> Column("unreadSeeker", q.row.unreadSeeker,
                                           old.unreadSeeker, q.dirty),
                   last |-> Column("last", q.row.last, old.last, q.dirty)]
           f == IF q.op = "send" THEN Return(r, q.c)
                ELSE [pc |-> "mark", c |-> q.c, from |-> q.from]
<1>3. Bounded(q.c, q.row) /\ Bounded(q.c, old)
  BY <1>1, <1>2, SnapshotIsRow DEF UnreadInv, Snapshot
<1>4. /\ conv' = [conv EXCEPT ![q.c] = new]
      /\ creq' = [creq EXCEPT ![r] = f]
      /\ msg' = msg
  BY <1>1, <1>2 DEF SaveWriteConversation
<1>5. /\ new.unreadSeeker \in {q.row.unreadSeeker, old.unreadSeeker}
      /\ new.unreadCompany \in {q.row.unreadCompany, old.unreadCompany}
  BY DEF Column
<1>6. ~Snapshot(f)
  BY ReturnHasNoSnapshot DEF Snapshot
<1> HIDE DEF new, f
<1>7. Bounded(q.c, new)
  BY <1>3, <1>5 DEF Bounded
<1>8. \A c, S : Sent(c, S)' = Sent(c, S)
  BY <1>4, SentIsCardinality
<1>9. Bounded(q.c, new)'
  BY <1>7, <1>8 DEF Bounded
<1>10. \A c \in DOMAIN conv' :
         (c \in DOMAIN conv /\ conv'[c] = conv[c]) \/ Bounded(c, conv[c])'
  BY <1>1, <1>4, <1>9 DEF Bounded, ConvTypeOK
<1>11. \A s \in Callers :
         creq'[s] = creq[s]
           \/ (Snapshot(creq[s]) => Bounded(creq[s].c, creq[s].row))'
  BY <1>4, <1>6 DEF ConvTypeOK, Snapshot
<1> QED
  BY <1>4, <1>10, <1>11, GrowthKeepsUnread

\* No counter shows less than nothing.
LEMMA ZeroIsBounded ==
  ASSUME msg \in Seq(Message), NEW c, NEW S
  PROVE  0 <= Sent(c, S)
  BY WrittenIsFinite, SentIsCardinality

\* findOrCreate opens a thread with no unread messages.
LEMMA CreateKeepsUnread ==
  ASSUME ConvTypeOK, ConvTypeOK', UnreadInv, NEW r \in Callers, CreateConversation(r)
  PROVE  UnreadInv'
<1> DEFINE new == [app |-> creq[r].app, unreadCompany |-> 0,
                   unreadSeeker |-> 0, last |-> 0]
           f == Return(r, Len(conv) + 1)
<1>1. /\ conv' = Append(conv, new)
      /\ creq' = [creq EXCEPT ![r] = f]
      /\ msg' = msg
  BY DEF CreateConversation
<1>2. new.unreadSeeker = 0 /\ new.unreadCompany = 0 /\ ~Snapshot(f)
  BY ReturnHasNoSnapshot
<1> HIDE DEF new, f
<1>3. \A c \in DOMAIN conv' :
        (c \in DOMAIN conv /\ conv'[c] = conv[c]) \/ conv'[c] = new
  BY <1>1 DEF ConvTypeOK
<1>4. \A c, S : 0 <= Sent(c, S)'
  BY <1>1, ZeroIsBounded, SentIsCardinality DEF ConvTypeOK
<1>5. \A c \in DOMAIN conv' :
        (c \in DOMAIN conv /\ conv'[c] = conv[c]) \/ Bounded(c, conv[c])'
  BY <1>2, <1>3, <1>4 DEF Bounded
<1>6. \A s \in Callers :
        creq'[s] = creq[s]
          \/ (Snapshot(creq[s]) => Bounded(creq[s].c, creq[s].row))'
  BY <1>1, <1>2 DEF ConvTypeOK, Snapshot
<1> QED
  BY <1>1, <1>5, <1>6, GrowthKeepsUnread

\* The controller's calls arrive without a snapshot, or, for markRead, with the
\* row they loaded and one counter of it cleared.
LEMMA ArrivalKeepsUnread ==
  ASSUME ConvTypeOK, ConvTypeOK', UnreadInv, NEW r \in ConvReq, ConvArrives(r)
  PROVE  UnreadInv'
<1> USE DEF Callers
<1>1. PICK c \in DOMAIN conv, from \in Senders :
        \/ \E text \in Texts : BeginSend(r, c, from, text)
        \/ BeginMarkRead(r, c, from)
  BY DEF ConvArrives
<1>2. ASSUME NEW text \in Texts, BeginSend(r, c, from, text) PROVE UnreadInv'
  <2> DEFINE f == [pc |-> "load", c |-> c, from |-> from, text |-> text]
  <2>1. creq' = [creq EXCEPT ![r] = f] /\ UNCHANGED <<conv, msg>> /\ ~Snapshot(f)
    BY <1>2 DEF BeginSend, Snapshot
  <2> HIDE DEF f
  <2>2. f \in ConvFrame
    BY <2>1 DEF ConvTypeOK
  <2> QED
    BY <2>1, <2>2, MoveKeepsUnread
<1>3. CASE BeginMarkRead(r, c, from)
  <2> PICK old \in ConvRow : old = conv[c]
    BY DEF ConvTypeOK
  <2> DEFINE row == IF from = "company" THEN [old EXCEPT !.unreadCompany = 0]
                                        ELSE [old EXCEPT !.unreadSeeker = 0]
             f == [pc |-> "save", op |-> "read", c |-> c, from |-> from,
                   row |-> row, dirty |-> {}]
  <2>1. creq' = [creq EXCEPT ![r] = f] /\ UNCHANGED <<conv, msg>>
    BY <1>3 DEF BeginMarkRead
  <2>2. /\ row.unreadSeeker \in {0, old.unreadSeeker}
        /\ row.unreadCompany \in {0, old.unreadCompany}
    BY DEF ConvRow
  <2>3. f.c = c /\ f.row = row
    OBVIOUS
  <2> HIDE DEF row, f
  <2>4. Bounded(c, old)
    BY DEF UnreadInv
  <2>5. Bounded(c, row)
    BY <2>2, <2>4, ZeroIsBounded DEF Bounded, ConvTypeOK
  <2>6. f \in ConvFrame
    BY <2>1 DEF ConvTypeOK
  <2> QED
    BY <2>1, <2>3, <2>5, <2>6, MoveKeepsUnread
<1> QED
  BY <1>1, <1>2, <1>3

\* Time and markRead's bulk update touch neither threads nor senders.
LEMMA MarksKeepUnread ==
  ASSUME ConvTypeOK, ConvTypeOK', UnreadInv,
         MessageAges \/ \E r \in Callers : MarkMessages(r)
  PROVE  UnreadInv'
<1>1. \A i \in DOMAIN msg : msg[i] \in Message
  BY DEF ConvTypeOK
<1>2. /\ DOMAIN msg' = DOMAIN msg
      /\ \A i \in DOMAIN msg :
           msg'[i].conv = msg[i].conv /\ msg'[i].from = msg[i].from
  <2>1. CASE MessageAges
    <3>1. PICK i \in DOMAIN msg : msg' = [msg EXCEPT ![i].recent = FALSE]
      BY <2>1 DEF MessageAges
    <3> QED
      BY <1>1, <3>1 DEF Message
  <2>2. ASSUME NEW r \in Callers, MarkMessages(r)
        PROVE  /\ DOMAIN msg' = DOMAIN msg
               /\ \A i \in DOMAIN msg :
                    msg'[i].conv = msg[i].conv /\ msg'[i].from = msg[i].from
    BY <1>1, <2>2 DEF MarkMessages, Message
  <2> QED
    BY <2>1, <2>2
<1>3. conv' = conv
  BY DEF MessageAges, MarkMessages
<1>4. \A s \in Callers :
        creq'[s] = creq[s]
          \/ (Snapshot(creq[s]) => Bounded(creq[s].c, creq[s].row))'
  <2>1. CASE MessageAges
    BY <2>1 DEF MessageAges
  <2>2. ASSUME NEW r \in Callers, MarkMessages(r), NEW s \in Callers
        PROVE  creq'[s] = creq[s] \/ ~Snapshot(creq'[s])
    BY <2>2, ReturnHasNoSnapshot DEF MarkMessages, ConvTypeOK
  <2> QED
    BY <2>1, <2>2 DEF Snapshot
<1> QED
  BY <1>2, <1>3, <1>4, GrowthKeepsUnread

\* Calls that look up, fail or read before a save hold what they held.
LEMMA WaitsKeepUnread ==
  ASSUME ConvTypeOK, ConvTypeOK', UnreadInv, NEW r \in Callers,
         FindConversation(r) \/ SaveReadConversation(r) \/ AbortCall(r)
  PROVE  UnreadInv'
<1> DEFINE q == creq[r]
           f == creq'[r]
<1>1. q \in ConvFrame /\ f \in ConvFrame
  BY DEF ConvTypeOK
<1>2. creq' = [creq EXCEPT ![r] = f] /\ UNCHANGED <<conv, msg>>
  BY DEF FindConversation, SaveReadConversation, AbortCall, ConvTypeOK
<1>3. Snapshot(f) => Bounded(f.c, f.row)
  <2>1. CASE FindConversation(r)
    BY <1>1, <2>1, ReturnHasNoSnapshot, CallKinds
       DEF FindConversation, Snapshot, ConvTypeOK
  <2>2. CASE SaveReadConversation(r)
    <3>1. f.c = q.c /\ f.row = q.row /\ Snapshot(q)
      BY <1>1, <2>2, CallKinds DEF SaveReadConversation, Snapshot, ConvTypeOK
    <3> QED
      BY <3>1 DEF UnreadInv
  <2>3. CASE AbortCall(r)
    BY <2>3, ReturnHasNoSnapshot DEF AbortCall, ConvTypeOK
  <2> QED
    BY <2>1, <2>2, <2>3
<1> QED
  BY <1>1, <1>2, <1>3, MoveKeepsUnread

-----------------------------------------------------------------------------
\* Whatever recruitment does next, counters stay bounded.
LEMMA UnreadStep ==
  HiringInv /\ HiringInv' /\ UnreadInv /\ [Next]_hiringVars => UnreadInv'
<1> SUFFICES ASSUME HiringInv, HiringInv', UnreadInv, [Next]_hiringVars
             PROVE  UnreadInv'
  OBVIOUS
<1>0. ConvTypeOK /\ ConvTypeOK'
  BY DEF HiringInv, ConvInv
<1>1. CASE ConvNext
  BY <1>0, <1>1, CreateKeepsUnread, ArrivalKeepsUnread, MarksKeepUnread,
     WaitsKeepUnread, SendKeepsUnread, InsertKeepsUnread, SaveKeepsUnread
     DEF ConvNext, ConvContinues
<1>2. ASSUME UNCHANGED <<conv, msg>>,
             \A s \in Callers : creq'[s] = creq[s] \/ ~Snapshot(creq'[s])
      PROVE  UnreadInv'
  <2>1. \A s \in Callers :
          creq'[s] = creq[s]
            \/ (Snapshot(creq[s]) => Bounded(creq[s].c, creq[s].row))'
    BY <1>2 DEF Snapshot
  <2> QED
    BY <1>0, <1>2, <2>1, GrowthKeepsUnread
<1>3. CASE AppNext
  <2>1. PICK r \in AppReq : AppArrives(r) \/ AppContinues(r) \/ AbortApplication(r)
    BY <1>3 DEF AppNext
  <2> DEFINE Free == \A s \in Callers : creq'[s] = creq[s] \/ ~Snapshot(creq'[s])
             find == [pc |-> "find", app |-> areq[r].app]
             load == [pc |-> "load", c |-> creq[r].c, from |-> "company",
                      text |-> Remark]
  <2>2. ASSUME NEW f, f.pc \in {"idle", "find", "load"},
               creq' = [creq EXCEPT ![r] = f]
        PROVE  Free
    BY <1>0, <2>2 DEF ConvTypeOK, Snapshot
  <2>3. find.pc = "find" /\ load.pc = "load" /\ ConvIdle.pc = "idle"
    BY DEF ConvIdle
  <2>4. ASSUME SaveReadApplication(r) \/ SaveWriteApplication(r) PROVE Free
    <3>1. areq[r].op \in {"withdraw", "bulk", "update"}
      BY <2>4, AppKinds
         DEF SaveReadApplication, SaveWriteApplication, HiringInv, AppInv, AppTypeOK
    <3>2. AfterSaveApp(r) \/ creq' = creq
      BY <2>4 DEF SaveReadApplication, SaveWriteApplication
    <3>3. creq' = creq \/ creq' = [creq EXCEPT ![r] = find]
      BY <3>1, <3>2 DEF AfterSaveApp
    <3> HIDE DEF find
    <3> QED
      BY <2>2, <2>3, <3>3
  <2>5. ASSUME ConversationOpened(r) \/ RemarkAnswered(r) \/ AbortApplication(r)
        PROVE  Free
    <3>1. creq' = [creq EXCEPT ![r] = load] \/ creq' = [creq EXCEPT ![r] = ConvIdle]
      BY <2>5 DEF ConversationOpened, RemarkAnswered, AbortApplication
    <3> HIDE DEF load
    <3> QED
      BY <2>2, <2>3, <3>1
  <2>6. ASSUME ~SaveReadApplication(r), ~SaveWriteApplication(r),
               ~ConversationOpened(r), ~RemarkAnswered(r), ~AbortApplication(r)
        PROVE  Free
    <3>1. creq' = creq
      BY <2>1, <2>6
         DEF AppArrives, AppContinues, BeginBulk, BeginApply,
             BeginApplyFromApp, BeginWithdraw,
             BeginUpdateStatus, FindExisting, InsertApplication, TellCompany,
             NextInBulk, EndBulk, NotifySeeker
    <3> QED
      BY <3>1
  <2>7. Free
    BY <2>4, <2>5, <2>6
  <2> QED
    BY <1>2, <1>3, <2>7 DEF AppNext
<1>4. CASE UNCHANGED convVars
  BY <1>2, <1>4 DEF convVars
<1> QED
  BY <1>1, <1>3, <1>4 DEF Next, hiringVars, convVars

\* The badges of a conversation never show more than the other side wrote:
\* concurrent sends and marks lose counts or bring them back, but invent none.
THEOREM BadgesInventNothing == Spec => []UnreadWasWritten
<1>1. Init => UnreadInv
  BY DEF Init, ConvInit, UnreadInv, Snapshot, ConvIdle
<1>2. UnreadInv => UnreadWasWritten
  BY DEF UnreadInv, Bounded, UnreadWasWritten
<1> QED
  BY <1>1, <1>2, HiringInit, HiringStep, UnreadStep, PTL DEF Spec

-----------------------------------------------------------------------------
\* How many threads an application gets.  findOrCreate looks and inserts some
\* awaits later; a second thread is opened by a decision that has looked before
\* the first one inserts, and by nothing else.
Opening(r) == creq[r].pc \in {"find", "create"}

Opened(a) == \E c \in DOMAIN conv : conv[c].app = a

\* The strengthening of ThreadsAreBounded.
OpeningInv ==
  /\ ThreadsAreBounded
  /\ \A r \in Callers : Opening(r) => r \in CallReq

\* The threads of an application and the requests about to open one are finite sets.
LEMMA ThreadsAreFinite ==
  ASSUME ConvTypeOK, IsFiniteSet(CallReq), NEW a
  PROVE  /\ IsFiniteSet(ThreadsAbout(a)) /\ Cardinality(ThreadsAbout(a)) \in Nat
         /\ IsFiniteSet(AboutToOpen(a)) /\ Cardinality(AboutToOpen(a)) \in Nat
         /\ Cardinality(CallReq) \in Nat
<1>1. Len(conv) \in Nat /\ DOMAIN conv = 1 .. Len(conv)
  BY DEF ConvTypeOK
<1>2. IsFiniteSet(DOMAIN conv)
  BY <1>1, FS_Interval
<1>3. ThreadsAbout(a) \subseteq DOMAIN conv /\ AboutToOpen(a) \subseteq CallReq
  BY DEF ThreadsAbout, AboutToOpen
<1>4. IsFiniteSet(ThreadsAbout(a)) /\ IsFiniteSet(AboutToOpen(a))
  BY <1>2, <1>3, FS_Subset
<1> QED
  BY <1>4, FS_CardinalityType

\* A step that opens no thread and lets no request believe that there is none.
LEMMA WaitsKeepOpening ==
  ASSUME IsFiniteSet(CallReq), ConvTypeOK, OpeningInv, DOMAIN conv' = DOMAIN conv,
         \A c \in DOMAIN conv : conv'[c].app = conv[c].app,
         \A s \in Callers :
           \/ creq'[s] = creq[s]
           \/ creq'[s].pc \notin {"find", "create"}
           \/ s \in CallReq /\ (creq'[s].pc = "create" => ~Opened(creq'[s].app))
  PROVE  OpeningInv'
<1>1. ASSUME NEW a \in Apps
      PROVE  Cardinality(ThreadsAbout(a)') + Cardinality(AboutToOpen(a)')
               <= Cardinality(CallReq)
  <2>1. ThreadsAbout(a)' = ThreadsAbout(a)
    BY DEF ThreadsAbout
  <2>2. /\ IsFiniteSet(ThreadsAbout(a)) /\ Cardinality(ThreadsAbout(a)) \in Nat
        /\ IsFiniteSet(AboutToOpen(a)) /\ Cardinality(AboutToOpen(a)) \in Nat
        /\ Cardinality(CallReq) \in Nat
    BY ThreadsAreFinite
  <2>3. CASE Opened(a)
    <3>1. AboutToOpen(a)' \subseteq AboutToOpen(a)
      BY <2>3 DEF AboutToOpen, Callers
    <3>2. /\ Cardinality(AboutToOpen(a)') \in Nat
          /\ Cardinality(AboutToOpen(a)') <= Cardinality(AboutToOpen(a))
      <4>1. IsFiniteSet(AboutToOpen(a)')
        BY <2>2, <3>1, FS_Subset
      <4> QED
        BY <2>2, <3>1, <4>1, FS_Subset, FS_CardinalityType
    <3>3. Cardinality(ThreadsAbout(a)) + Cardinality(AboutToOpen(a)) <= Cardinality(CallReq)
      BY DEF OpeningInv, ThreadsAreBounded
    <3> QED
      BY <2>1, <2>2, <3>2, <3>3
  <2>4. CASE ~Opened(a)
    <3>1. Cardinality(ThreadsAbout(a)') = 0
      BY <2>1, <2>4, FS_EmptySet DEF ThreadsAbout, Opened
    <3>2. AboutToOpen(a)' \subseteq CallReq
      BY DEF AboutToOpen
    <3>3. /\ Cardinality(AboutToOpen(a)') \in Nat
          /\ Cardinality(AboutToOpen(a)') <= Cardinality(CallReq)
      <4>1. IsFiniteSet(AboutToOpen(a)')
        BY <3>2, FS_Subset
      <4> QED
        BY <3>2, <4>1, FS_Subset, FS_CardinalityType
    <3> QED
      BY <2>2, <3>1, <3>3
  <2> QED
    BY <2>3, <2>4
<1>2. \A r \in Callers : Opening(r)' => r \in CallReq
  BY DEF OpeningInv, Opening
<1> QED
  BY <1>1, <1>2 DEF OpeningInv, ThreadsAreBounded

LEMMA FindKeepsOpening ==
  ASSUME IsFiniteSet(CallReq), ConvTypeOK, OpeningInv, NEW r \in Callers, FindConversation(r)
  PROVE  OpeningInv'
<1>1. r \in CallReq /\ creq[r] \in [pc : {"find", "create"}, app : Apps]
  BY CallKinds DEF OpeningInv, Opening, FindConversation, ConvTypeOK
<1> DEFINE f == [creq[r] EXCEPT !.pc = "create"]
<1>2. f.pc = "create" /\ f.app = creq[r].app
  BY <1>1
<1>3. \/ creq' = [creq EXCEPT ![r] = f] /\ ~Opened(creq[r].app)
      \/ \E c \in DOMAIN conv : creq' = [creq EXCEPT ![r] = Return(r, c)]
  BY DEF FindConversation, Opened, ConvTypeOK
<1>4. \A c : Return(r, c).pc \notin {"find", "create"}
  BY DEF Return, ConvIdle
<1> HIDE DEF f
<1>5. \A s \in Callers :
        \/ creq'[s] = creq[s]
        \/ creq'[s].pc \notin {"find", "create"}
        \/ s \in CallReq /\ (creq'[s].pc = "create" => ~Opened(creq'[s].app))
  BY <1>1, <1>2, <1>3, <1>4 DEF ConvTypeOK
<1>6. conv' = conv
  BY DEF FindConversation
<1> QED BY <1>5, <1>6, WaitsKeepOpening

LEMMA CreateKeepsOpening ==
  ASSUME IsFiniteSet(CallReq), ConvTypeOK, OpeningInv, NEW r \in Callers,
         CreateConversation(r)
  PROVE  OpeningInv'
<1> DEFINE new == [app |-> creq[r].app, unreadCompany |-> 0,
                   unreadSeeker |-> 0, last |-> 0]
           f == Return(r, Len(conv) + 1)
           n == Len(conv) + 1
<1>1. /\ creq[r].pc = "create" /\ conv' = Append(conv, new)
      /\ creq' = [creq EXCEPT ![r] = f]
  BY DEF CreateConversation
<1>2. new \in ConvRow /\ new.app = creq[r].app
  BY CallKinds DEF CreateConversation, ConvTypeOK, ConvRow
<1>3. f.pc \notin {"find", "create"}
  BY DEF Return, ConvIdle
<1> HIDE DEF new, f
<1>4. /\ DOMAIN conv' = DOMAIN conv \cup {n}
      /\ n \notin DOMAIN conv
      /\ \A c \in DOMAIN conv : conv'[c] = conv[c]
      /\ conv'[n] = new
  BY <1>1, <1>2 DEF ConvTypeOK
<1>5. \A s \in Callers : creq'[s] = IF s = r THEN f ELSE creq[s]
  BY <1>1 DEF ConvTypeOK
<1> HIDE DEF n
<1>6. r \in CallReq
  BY <1>1 DEF OpeningInv, Opening
<1>7. ASSUME NEW a \in Apps
      PROVE  Cardinality(ThreadsAbout(a)') + Cardinality(AboutToOpen(a)')
               <= Cardinality(CallReq)
  <2>1. /\ IsFiniteSet(ThreadsAbout(a)) /\ Cardinality(ThreadsAbout(a)) \in Nat
        /\ IsFiniteSet(AboutToOpen(a)) /\ Cardinality(AboutToOpen(a)) \in Nat
        /\ Cardinality(CallReq) \in Nat
    BY ThreadsAreFinite
  <2>2. Cardinality(ThreadsAbout(a)) + Cardinality(AboutToOpen(a)) <= Cardinality(CallReq)
    BY DEF OpeningInv, ThreadsAreBounded
  <2>3. AboutToOpen(a)' \subseteq AboutToOpen(a) \ {r}
    BY <1>3, <1>5 DEF AboutToOpen, Callers
  <2>4. CASE creq[r].app = a
    <3>1. ThreadsAbout(a)' \subseteq ThreadsAbout(a) \cup {n}
      BY <1>4 DEF ThreadsAbout
    <3>2. r \in AboutToOpen(a)
      BY <1>1, <1>6, <2>4 DEF AboutToOpen
    <3>3. /\ IsFiniteSet(AboutToOpen(a) \ {r})
          /\ Cardinality(AboutToOpen(a) \ {r}) = Cardinality(AboutToOpen(a)) - 1
      BY <2>1, <3>2, FS_RemoveElement
    <3>4. /\ Cardinality(AboutToOpen(a)') \in Nat
          /\ Cardinality(AboutToOpen(a)') <= Cardinality(AboutToOpen(a)) - 1
      <4>1. IsFiniteSet(AboutToOpen(a)')
        BY <2>3, <3>3, FS_Subset
      <4> QED
        BY <2>3, <3>3, <4>1, FS_Subset, FS_CardinalityType
    <3>5. n \notin ThreadsAbout(a)
      BY <1>4 DEF ThreadsAbout
    <3>6. /\ IsFiniteSet(ThreadsAbout(a) \cup {n})
          /\ Cardinality(ThreadsAbout(a) \cup {n}) = Cardinality(ThreadsAbout(a)) + 1
      BY <2>1, <3>5, FS_AddElement
    <3>7. /\ Cardinality(ThreadsAbout(a)') \in Nat
          /\ Cardinality(ThreadsAbout(a)') <= Cardinality(ThreadsAbout(a)) + 1
      <4>1. IsFiniteSet(ThreadsAbout(a)')
        BY <3>1, <3>6, FS_Subset
      <4> QED
        BY <3>1, <3>6, <4>1, FS_Subset, FS_CardinalityType
    <3> QED
      BY <2>1, <2>2, <3>4, <3>7
  <2>5. CASE creq[r].app # a
    <3>1. ThreadsAbout(a)' = ThreadsAbout(a)
      BY <1>2, <1>4, <2>5 DEF ThreadsAbout
    <3>2. AboutToOpen(a)' \subseteq AboutToOpen(a)
      BY <2>3
    <3>3. /\ Cardinality(AboutToOpen(a)') \in Nat
          /\ Cardinality(AboutToOpen(a)') <= Cardinality(AboutToOpen(a))
      <4>1. IsFiniteSet(AboutToOpen(a)')
        BY <2>1, <3>2, FS_Subset
      <4> QED
        BY <2>1, <3>2, <4>1, FS_Subset, FS_CardinalityType
    <3> QED
      BY <2>1, <2>2, <3>1, <3>3
  <2> QED
    BY <2>4, <2>5
<1>8. \A s \in Callers : creq'[s].pc \in {"find", "create"} => s \in CallReq
  BY <1>3, <1>5 DEF OpeningInv, Opening
<1> QED
  BY <1>7, <1>8 DEF OpeningInv, ThreadsAreBounded, Opening

\* The other steps of the service open nothing.
LEMMA CallKeepsOpening ==
  ASSUME IsFiniteSet(CallReq), ConvTypeOK, OpeningInv, NEW r \in Callers,
         \/ LoadConversation(r) \/ CheckRules(r) \/ FindDuplicate(r)
         \/ InsertMessage(r) \/ SaveReadConversation(r) \/ SaveWriteConversation(r)
         \/ MarkMessages(r) \/ AbortCall(r) \/ (r \in ConvReq /\ ConvArrives(r))
  PROVE  OpeningInv'
<1>1. \A c : Return(r, c).pc \notin {"find", "create"}
  BY DEF Return, ConvIdle
<1>2. creq[r] \in ConvFrame
  BY DEF ConvTypeOK
<1> DEFINE Waits == \A s \in Callers :
                      creq'[s] = creq[s] \/ creq'[s].pc \notin {"find", "create"}
<1>3. ASSUME NEW f, creq' = [creq EXCEPT ![r] = f], f.pc \notin {"find", "create"}
      PROVE  Waits
  BY <1>3 DEF ConvTypeOK
<1> HIDE DEF Waits
<1>4. Waits
  <2> DEFINE q == creq[r]
             load == [pc |-> "count", c |-> q.c, from |-> q.from, text |-> q.text,
                      status |-> app[conv[q.c].app], row |-> conv[q.c]]
             sent == [pc |-> "save", op |-> "send", c |-> q.c, from |-> q.from,
                      row |-> Counted(q, Len(msg) + 1), dirty |-> {}]
             mark == [pc |-> "mark", c |-> q.c, from |-> q.from]
             checked == [q EXCEPT !.pc = "dedupe"]
             missed == [q EXCEPT !.pc = "insert"]
             compared == [q EXCEPT !.pc = "write",
                            !.dirty = {k \in Columns : q.row[k] # conv[q.c][k]}]
  <2>0. /\ load.pc = "count" /\ sent.pc = "save" /\ mark.pc = "mark"
        /\ q.pc = "count" => checked.pc = "dedupe"
        /\ q.pc = "dedupe" => missed.pc = "insert"
        /\ q.pc = "save" => compared.pc = "write"
    BY <1>2, CallKinds
  <2>1. CASE LoadConversation(r)
    <3>1. creq' = [creq EXCEPT ![r] = load]
      BY <2>1 DEF LoadConversation
    <3> HIDE DEF load
    <3> QED BY <1>3, <2>0, <3>1
  <2>2. CASE CheckRules(r)
    <3>1. q.pc = "count"
          /\ (creq' = [creq EXCEPT ![r] = checked] \/ creq' = [creq EXCEPT ![r] = Return(r, 0)])
      BY <2>2 DEF CheckRules, ConvTypeOK
    <3> HIDE DEF checked
    <3> QED BY <1>1, <1>3, <2>0, <3>1
  <2>3. CASE FindDuplicate(r)
    <3>1. q.pc = "dedupe"
          /\ (creq' = [creq EXCEPT ![r] = missed] \/ creq' = [creq EXCEPT ![r] = Return(r, q.c)])
      BY <2>3 DEF FindDuplicate, ConvTypeOK
    <3> HIDE DEF missed
    <3> QED BY <1>1, <1>3, <2>0, <3>1
  <2>4. CASE InsertMessage(r)
    <3>1. creq' = [creq EXCEPT ![r] = sent]
      BY <2>4 DEF InsertMessage
    <3> HIDE DEF sent
    <3> QED BY <1>3, <2>0, <3>1
  <2>5. CASE SaveReadConversation(r)
    <3>1. q.pc = "save" /\ creq' = [creq EXCEPT ![r] = compared]
      BY <2>5, CallKinds DEF SaveReadConversation, ConvTypeOK
    <3> HIDE DEF compared
    <3> QED BY <1>3, <2>0, <3>1
  <2>6. CASE SaveWriteConversation(r)
    <3>1. creq' = [creq EXCEPT ![r] = mark] \/ creq' = [creq EXCEPT ![r] = Return(r, q.c)]
      BY <2>6 DEF SaveWriteConversation
    <3> HIDE DEF mark
    <3> QED BY <1>1, <1>3, <2>0, <3>1
  <2>7. CASE MarkMessages(r) \/ AbortCall(r)
    <3>1. creq' = [creq EXCEPT ![r] = Return(r, q.c)] \/ creq' = [creq EXCEPT ![r] = Return(r, 0)]
      BY <2>7 DEF MarkMessages, AbortCall
    <3> QED BY <1>1, <1>3, <3>1
  <2>8. CASE r \in ConvReq /\ ConvArrives(r)
    <3>1. PICK c \in DOMAIN conv, from \in Senders :
            \/ \E text \in Texts : BeginSend(r, c, from, text)
            \/ BeginMarkRead(r, c, from)
      BY <2>8 DEF ConvArrives
    <3>2. ASSUME NEW text \in Texts, BeginSend(r, c, from, text) PROVE Waits
      <4> DEFINE f == [pc |-> "load", c |-> c, from |-> from, text |-> text]
      <4>1. f.pc = "load" /\ creq' = [creq EXCEPT ![r] = f]
        BY <3>2 DEF BeginSend
      <4> HIDE DEF f
      <4> QED BY <1>3, <4>1
    <3>3. ASSUME BeginMarkRead(r, c, from) PROVE Waits
      <4> DEFINE row == IF from = "company" THEN [conv[c] EXCEPT !.unreadCompany = 0]
                                            ELSE [conv[c] EXCEPT !.unreadSeeker = 0]
                 f == [pc |-> "save", op |-> "read", c |-> c, from |-> from,
                       row |-> row, dirty |-> {}]
      <4>1. f.pc = "save" /\ creq' = [creq EXCEPT ![r] = f]
        BY <3>3 DEF BeginMarkRead
      <4> HIDE DEF f
      <4> QED BY <1>3, <4>1
    <3> QED BY <3>1, <3>2, <3>3
  <2> QED BY <2>1, <2>2, <2>3, <2>4, <2>5, <2>6, <2>7, <2>8
<1>5. DOMAIN conv' = DOMAIN conv /\ \A c \in DOMAIN conv : conv'[c].app = conv[c].app
  <2>1. CASE SaveWriteConversation(r)
    <3> DEFINE c == creq[r].c
               old == conv[c]
               row == [app |-> old.app,
                       unreadCompany |-> Column("unreadCompany", creq[r].row.unreadCompany,
                                                old.unreadCompany, creq[r].dirty),
                       unreadSeeker |-> Column("unreadSeeker", creq[r].row.unreadSeeker,
                                               old.unreadSeeker, creq[r].dirty),
                       last |-> Column("last", creq[r].row.last, old.last, creq[r].dirty)]
    <3>1. conv' = [conv EXCEPT ![c] = row] /\ row.app = conv[c].app
      BY <2>1 DEF SaveWriteConversation
    <3>2. conv \in Seq(ConvRow)
      BY DEF ConvTypeOK
    <3> HIDE DEF c, old, row
    <3>3. DOMAIN conv' = DOMAIN conv
          /\ \A d \in DOMAIN conv : conv'[d] = IF d = c THEN row ELSE conv[d]
      BY <3>1, <3>2
    <3> QED BY <3>1, <3>3
  <2>2. CASE ~SaveWriteConversation(r)
    BY <2>2 DEF LoadConversation, CheckRules, FindDuplicate, InsertMessage,
       SaveReadConversation, MarkMessages, AbortCall, ConvArrives, BeginSend, BeginMarkRead
  <2> QED BY <2>1, <2>2
<1> QED BY <1>4, <1>5, WaitsKeepOpening DEF Waits

\* ApplicationsService starts a call, or ends one.
LEMMA AppKeepsOpening ==
  ASSUME IsFiniteSet(CallReq), HiringInv, OpeningInv, AppNext
  PROVE  OpeningInv'
<1>0. ConvTypeOK
  BY DEF HiringInv, ConvInv
<1>1. PICK r \in AppReq : AppArrives(r) \/ AppContinues(r) \/ AbortApplication(r)
  BY DEF AppNext
<1> DEFINE Calls == \A s \in Callers :
                      \/ creq'[s] = creq[s]
                      \/ s \in CallReq /\ creq'[s].pc # "create"
           find == [pc |-> "find", app |-> areq[r].app]
           load == [pc |-> "load", c |-> creq[r].c, from |-> "company", text |-> Remark]
<1>2. ASSUME NEW f, f.pc \in {"idle", "find", "load"}, creq' = [creq EXCEPT ![r] = f]
      PROVE  Calls
  BY <1>0, <1>2 DEF ConvTypeOK, AppReq
<1>3. find.pc = "find" /\ load.pc = "load" /\ ConvIdle.pc = "idle"
  BY DEF ConvIdle
<1>4. ASSUME SaveReadApplication(r) \/ SaveWriteApplication(r) PROVE Calls
  <2>1. areq[r].op \in {"withdraw", "bulk", "update"}
    BY <1>4, AppKinds
       DEF SaveReadApplication, SaveWriteApplication, HiringInv, AppInv, AppTypeOK
  <2>2. AfterSaveApp(r) \/ creq' = creq
    BY <1>4 DEF SaveReadApplication, SaveWriteApplication
  <2>3. creq' = creq \/ creq' = [creq EXCEPT ![r] = find]
    BY <2>1, <2>2 DEF AfterSaveApp
  <2> HIDE DEF find
  <2> QED BY <1>2, <1>3, <2>3
<1>5. ASSUME ConversationOpened(r) \/ RemarkAnswered(r) \/ AbortApplication(r) PROVE Calls
  <2>1. creq' = [creq EXCEPT ![r] = load] \/ creq' = [creq EXCEPT ![r] = ConvIdle]
    BY <1>5 DEF ConversationOpened, RemarkAnswered, AbortApplication
  <2> HIDE DEF load
  <2> QED BY <1>2, <1>3, <2>1
<1>6. ASSUME ~SaveReadApplication(r), ~SaveWriteApplication(r),
             ~ConversationOpened(r), ~RemarkAnswered(r), ~AbortApplication(r)
      PROVE  Calls
  <2>1. creq' = creq
    BY <1>1, <1>6
       DEF AppArrives, AppContinues, BeginBulk, BeginApply, BeginApplyFromApp, BeginWithdraw,
           BeginUpdateStatus, FindExisting, InsertApplication, TellCompany,
           NextInBulk, EndBulk, NotifySeeker
  <2> QED BY <2>1
<1>7. Calls
  BY <1>4, <1>5, <1>6
<1>8. conv' = conv
  BY DEF AppNext
<1> QED BY <1>0, <1>7, <1>8, WaitsKeepOpening

LEMMA OpeningStep ==
  ASSUME IsFiniteSet(CallReq), HiringInv, OpeningInv, [Next]_hiringVars
  PROVE  OpeningInv'
<1>0. ConvTypeOK
  BY DEF HiringInv, ConvInv
<1>1. CASE UNCHANGED <<conv, creq>>
  BY <1>0, <1>1, WaitsKeepOpening
<1>2. CASE ConvNext
  <2>1. CASE MessageAges
    BY <1>1, <2>1 DEF MessageAges
  <2>2. ASSUME NEW r \in ConvReq, ConvArrives(r) PROVE OpeningInv'
    BY <1>0, <2>2, CallKeepsOpening DEF Callers
  <2>3. ASSUME NEW r \in Callers, ConvContinues(r) \/ AbortCall(r) PROVE OpeningInv'
    BY <1>0, <2>3, FindKeepsOpening, CreateKeepsOpening, CallKeepsOpening DEF ConvContinues
  <2> QED BY <1>2, <2>1, <2>2, <2>3 DEF ConvNext
<1>3. CASE AppNext
  BY <1>3, AppKeepsOpening
<1> QED BY <1>1, <1>2, <1>3 DEF Next, hiringVars, convVars

\* However decisions on an application overlap and die between the lookup and the
\* insert of findOrCreate, its threads are never more than the requests that could
\* be in flight together; no decision after them opens another.
THEOREM ThreadsStayBounded ==
  ASSUME IsFiniteSet(CallReq)
  PROVE  Spec => []ThreadsAreBounded
<1>1. Init => OpeningInv
  <2> SUFFICES ASSUME Init PROVE OpeningInv
    OBVIOUS
  <2>1. conv = <<>> /\ \A r \in Callers : creq[r].pc = "idle"
    BY DEF Init, ConvInit, ConvIdle
  <2>2. ASSUME NEW a \in Apps PROVE ThreadsAbout(a) = {} /\ AboutToOpen(a) = {}
    BY <2>1 DEF ThreadsAbout, AboutToOpen, Callers
  <2>3. Cardinality(CallReq) \in Nat /\ Cardinality({}) = 0
    BY FS_CardinalityType, FS_EmptySet
  <2>4. ThreadsAreBounded
    BY <2>2, <2>3 DEF ThreadsAreBounded
  <2> QED
    BY <2>1, <2>4 DEF OpeningInv, Opening
<1>2. HiringInv /\ OpeningInv /\ [Next]_hiringVars => OpeningInv'
  BY OpeningStep
<1>3. OpeningInv => ThreadsAreBounded
  BY DEF OpeningInv
<1> QED BY <1>1, <1>2, <1>3, HiringInit, HiringStep, PTL DEF Spec
=============================================================================

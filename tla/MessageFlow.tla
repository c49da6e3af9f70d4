---------------------------- MODULE MessageFlow ----------------------------
(***************************************************************************)
(* What the messaging part of recruitment promises, without requests,      *)
(* snapshots or retries: threads about applications, in which the company  *)
(* speaks only after it has decided and the seeker only after the company. *)
(* Conversations and Applications are shown to implement it.               *)
(***************************************************************************)
EXTENDS Naturals, Sequences

CONSTANT Apps

VARIABLES
  decided,  \* applications a decision was made on
  threads,  \* the application each thread is about, in order of opening
  said      \* who spoke in which thread, in order

vars == <<decided, threads, said>>

Init == decided = {} /\ threads = <<>> /\ said = <<>>

Decide(a) ==
  /\ decided' = decided \cup {a}
  /\ UNCHANGED <<threads, said>>

Open(a) ==
  /\ threads' = Append(threads, a)
  /\ UNCHANGED <<decided, said>>

CompanySpoke(t) == \E i \in DOMAIN said : said[i] = [thread |-> t, who |-> "company"]

MaySpeak(t, who) ==
  \/ who = "company" /\ threads[t] \in decided
  \/ who = "seeker" /\ CompanySpoke(t)
  \/ who = "admin"

Speak(t, who) ==
  /\ MaySpeak(t, who)
  /\ said' = Append(said, [thread |-> t, who |-> who])
  /\ UNCHANGED <<decided, threads>>

Next ==
  \/ \E a \in Apps : Decide(a) \/ Open(a)
  \/ \E t \in DOMAIN threads, who \in {"company", "seeker", "admin"} : Speak(t, who)

Spec == Init /\ [][Next]_vars
=============================================================================

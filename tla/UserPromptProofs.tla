--------------------------- MODULE UserPromptProofs ---------------------------
(***************************************************************************)
(* user_prompt keeps its promise (UserPrompt implements PromptOnce), for    *)
(* every set of prompts and runs.                                           *)
(*                                                                          *)
(* The argument: a request is dead when its text can go in no more, unless  *)
(* its module lapses, because no line of it is out or because its module    *)
(* answered not_delivered. All the requests of a prompt are dead but the    *)
(* one that is being asked, which is why at most one copy goes in that was  *)
(* not called out; and the daemon says not_delivered only when all are.     *)
(***************************************************************************)
EXTENDS UserPrompt, FiniteSetTheorems, TLAPS

Dead(i) == line[i] = "none" \/ reply[i] \in {"try_next", "refused"}

(* What a request has come to at its module. *)
RequestsAgree ==
  \A i \in Ids :
    /\ reply[i] # None => line[i] = "read"
    /\ i \in text \ lapsed => reply[i] \in {"accepted", "unconfirmed"}
    /\ reply[i] = "accepted" => i \in text \cup lapsed
    /\ waiting[i] \in Replies => waiting[i] = reply[i]

(* A run that is still to be asked was sent nothing. *)
LeftUnasked ==
  \A p \in Prompts :
    /\ pc[p] = "idle" => \A r \in Runs : line[<<p, r>>] = "none"
    /\ pc[p] \in {"loop", "write", "wait"} =>
         \A r \in left[p] : line[<<p, r>>] = "none"
    /\ pc[p] \in {"write", "wait"} => asking[p] \in Runs \ left[p]

(* At most one request of a prompt is not dead, the one it asks. *)
OthersDead ==
  \A p \in Prompts :
    /\ pc[p] = "loop" => \A r \in Runs : Dead(<<p, r>>)
    /\ pc[p] \in {"write", "wait"} =>
         \A r \in Runs \ {asking[p]} : Dead(<<p, r>>)
    /\ \A r, q \in Runs : r = q \/ Dead(<<p, r>>) \/ Dead(<<p, q>>)

(* What the person was told. *)
NotYetTold == \A p \in Prompts : pc[p] # "done" => answer[p] = None
ToldIn ==
  \A p \in Prompts : answer[p] = "accepted" => \E r \in Runs : <<p, r>> \in text \cup lapsed
ToldOut == \A p \in Prompts :
             answer[p] = "not_delivered" => \A r \in Runs : Dead(<<p, r>>)

IInv ==
  /\ TypeOK /\ RequestsAgree /\ LeftUnasked /\ OthersDead
  /\ NotYetTold /\ ToldIn /\ ToldOut

-----------------------------------------------------------------------------
LEMMA InitIInv == Init => IInv
<1> SUFFICES ASSUME Init PROVE IInv
  OBVIOUS
<1> USE NoneAssumption DEF Init
<1>1. TypeOK
  BY DEF TypeOK
<1>2. RequestsAgree
  BY DEF RequestsAgree, Replies
<1>3. LeftUnasked
  BY DEF LeftUnasked, Ids
<1>4. OthersDead
  BY DEF OthersDead, Dead, Ids
<1>5. NotYetTold /\ ToldIn /\ ToldOut
  BY DEF NotYetTold, ToldIn, ToldOut, Outcomes
<1> QED
  BY <1>1, <1>2, <1>3, <1>4, <1>5 DEF IInv

(* The type invariant is inductive by itself. *)
LEMMA TypeStep == TypeOK /\ [Next]_vars => TypeOK'
<1> SUFFICES ASSUME TypeOK, [Next]_vars PROVE TypeOK'
  OBVIOUS
<1> USE DEF TypeOK, Ids, Replies, Outcomes
<1>1. ASSUME NEW p \in Prompts, Begin(p) PROVE TypeOK'
  BY <1>1 DEF Begin, moduleVars
<1>2. ASSUME NEW p \in Prompts, Ask(p) PROVE TypeOK'
  BY <1>2 DEF Ask
<1>3. ASSUME NEW p \in Prompts, LoopExpires(p) PROVE TypeOK'
  BY <1>3 DEF LoopExpires, Told, moduleVars
<1>4. ASSUME NEW p \in Prompts, LoopEnds(p) PROVE TypeOK'
  BY <1>4 DEF LoopEnds, Told, moduleVars
<1>5. ASSUME NEW p \in Prompts, NotWritten(p) PROVE TypeOK'
  BY <1>5 DEF NotWritten, Id
<1>6. ASSUME NEW p \in Prompts, Written(p) PROVE TypeOK'
  <2>1. line' = line \/ line' = [line EXCEPT ![Id(p)] = "none"]
    BY <1>6 DEF Written
  <2>2. line' \in [Ids -> {"none", "sent", "read"}]
    BY <2>1
  <2> QED
    BY <1>6, <2>2 DEF Written
<1>7. ASSUME NEW p \in Prompts, WaitExpires(p) PROVE TypeOK'
  BY <1>7 DEF WaitExpires, Told, Id, moduleVars
<1>8. ASSUME NEW p \in Prompts, TryNext(p) PROVE TypeOK'
  BY <1>8 DEF TryNext, Replied, Id, moduleVars
<1>9. ASSUME NEW p \in Prompts, Decide(p) PROVE TypeOK'
  BY <1>9 DEF Decide, Replied, Told, Id, moduleVars
<1>10. ASSUME NEW i \in Ids, Take(i) PROVE TypeOK'
  BY <1>10 DEF Take
<1>11. ASSUME NEW i \in Ids, ModuleReads(i) PROVE TypeOK'
  BY <1>11 DEF ModuleReads, daemonVars
<1>12. ASSUME NEW i \in Ids, ModuleEnds(i) PROVE TypeOK'
  BY <1>12 DEF ModuleEnds, daemonVars
<1>13. ASSUME NEW i \in Ids, TextEnters(i) PROVE TypeOK'
  BY <1>13 DEF TextEnters, daemonVars
<1>14. ASSUME NEW i \in Ids, ModuleMistakes(i) \/ TextSlips(i) PROVE TypeOK'
  BY <1>14 DEF ModuleMistakes, TextSlips, daemonVars
<1>15. CASE UNCHANGED vars
  BY <1>15 DEF vars, daemonVars, moduleVars
<1> QED
  BY <1>1, <1>2, <1>3, <1>4, <1>5, <1>6, <1>7, <1>8, <1>9, <1>10, <1>11, <1>12,
     <1>13, <1>14, <1>15 DEF Next, Handler

(* The steps keep the other parts as well. *)
LEMMA StepIInv == IInv /\ [Next]_vars => IInv'
<1> SUFFICES ASSUME IInv, [Next]_vars PROVE IInv'
  OBVIOUS
<1> DEFINE Rest == RequestsAgree /\ LeftUnasked /\ OthersDead
                     /\ NotYetTold /\ ToldIn /\ ToldOut
<1>t. TypeOK'
  BY TypeStep DEF IInv
<1>i. TypeOK /\ Rest
  BY DEF IInv
<1> USE NoneAssumption DEF Ids, Replies, Outcomes
<1>1. ASSUME NEW p \in Prompts, Begin(p) PROVE Rest'
  <2>1. RequestsAgree'
    BY <1>i, <1>1 DEF TypeOK, RequestsAgree, Begin, moduleVars
  <2>2. LeftUnasked'
    BY <1>i, <1>1 DEF TypeOK, LeftUnasked, Begin, moduleVars
  <2>3. OthersDead'
    BY <1>i, <1>1 DEF TypeOK, RequestsAgree, LeftUnasked, OthersDead, Dead, Begin, moduleVars
  <2>4. NotYetTold'
    BY <1>i, <1>1 DEF TypeOK, NotYetTold, Begin, moduleVars
  <2>5. ToldIn'
    BY <1>i, <1>1 DEF TypeOK, RequestsAgree, NotYetTold, ToldIn, Begin, moduleVars
  <2>6. ToldOut'
    BY <1>i, <1>1 DEF TypeOK, RequestsAgree, OthersDead, NotYetTold, ToldOut, Dead, Begin, moduleVars
  <2> QED
    BY <2>1, <2>2, <2>3, <2>4, <2>5, <2>6
<1>2. ASSUME NEW p \in Prompts, Ask(p) PROVE Rest'
  <2>1. RequestsAgree'
    <3>1. PICK r \in left[p] : /\ waiting' = [waiting EXCEPT ![<<p, r>>] = "open"]
                               /\ line' = [line EXCEPT ![<<p, r>>] = "sent"]
      BY <1>2 DEF Ask
    <3>2. <<p, r>> \in Ids /\ reply[<<p, r>>] = None
      BY <1>i, <1>2, <3>1 DEF Ask, TypeOK, LeftUnasked, RequestsAgree
    <3> QED
      BY <1>i, <1>2, <3>1, <3>2 DEF TypeOK, RequestsAgree, Ask
  <2>2. LeftUnasked'
    BY <1>i, <1>2 DEF TypeOK, LeftUnasked, Ask
  <2>3. OthersDead'
    BY <1>i, <1>2 DEF TypeOK, RequestsAgree, LeftUnasked, OthersDead, Dead, Ask
  <2>4. NotYetTold'
    BY <1>i, <1>2 DEF TypeOK, NotYetTold, Ask
  <2>5. ToldIn'
    BY <1>i, <1>2 DEF TypeOK, RequestsAgree, NotYetTold, ToldIn, Ask
  <2>6. ToldOut'
    <3> SUFFICES ASSUME NEW q \in Prompts, answer'[q] = "not_delivered", NEW r \in Runs
                 PROVE  Dead(<<q, r>>)'
      BY DEF ToldOut
    <3>1. answer[q] = "not_delivered" /\ q # p
      BY <1>i, <1>2 DEF Ask, NotYetTold
    <3>2. Dead(<<q, r>>)
      BY <1>i, <3>1 DEF ToldOut
    <3>3. PICK s \in left[p] : line' = [line EXCEPT ![<<p, s>>] = "sent"]
      BY <1>2 DEF Ask
    <3>4. line'[<<q, r>>] = line[<<q, r>>]
      BY <1>i, <3>1, <3>3 DEF TypeOK
    <3> QED
      BY <1>2, <3>2, <3>4 DEF Ask, Dead
  <2> QED
    BY <2>1, <2>2, <2>3, <2>4, <2>5, <2>6
<1>3. ASSUME NEW p \in Prompts, LoopExpires(p) PROVE Rest'
  <2>1. RequestsAgree'
    BY <1>i, <1>3 DEF TypeOK, RequestsAgree, LoopExpires, Told, moduleVars
  <2>2. LeftUnasked'
    BY <1>i, <1>3 DEF TypeOK, LeftUnasked, LoopExpires, Told, moduleVars
  <2>3. OthersDead'
    BY <1>i, <1>3 DEF TypeOK, RequestsAgree, LeftUnasked, OthersDead, Dead, LoopExpires, Told, moduleVars
  <2>4. NotYetTold'
    BY <1>i, <1>3 DEF TypeOK, NotYetTold, LoopExpires, Told, moduleVars
  <2>5. ToldIn'
    BY <1>i, <1>3 DEF TypeOK, RequestsAgree, NotYetTold, ToldIn, LoopExpires, Told, moduleVars
  <2>6. ToldOut'
    <3> SUFFICES ASSUME NEW q \in Prompts, answer'[q] = "not_delivered", NEW r \in Runs
                 PROVE  Dead(<<q, r>>)'
      BY DEF ToldOut
    <3>1. answer[q] = "not_delivered"
      BY <1>i, <1>3 DEF LoopExpires, Told, TypeOK
    <3>2. Dead(<<q, r>>)
      BY <1>i, <3>1 DEF ToldOut
    <3> QED
      BY <1>3, <3>2 DEF LoopExpires, moduleVars, Dead
  <2> QED
    BY <2>1, <2>2, <2>3, <2>4, <2>5, <2>6
<1>4. ASSUME NEW p \in Prompts, LoopEnds(p) PROVE Rest'
  <2>1. RequestsAgree'
    BY <1>i, <1>4 DEF TypeOK, RequestsAgree, LoopEnds, Told, moduleVars
  <2>2. LeftUnasked'
    BY <1>i, <1>4 DEF TypeOK, LeftUnasked, LoopEnds, Told, moduleVars
  <2>3. OthersDead'
    BY <1>i, <1>4 DEF TypeOK, RequestsAgree, LeftUnasked, OthersDead, Dead, LoopEnds, Told, moduleVars
  <2>4. NotYetTold'
    BY <1>i, <1>4 DEF TypeOK, NotYetTold, LoopEnds, Told, moduleVars
  <2>5. ToldIn'
    BY <1>i, <1>4 DEF TypeOK, RequestsAgree, NotYetTold, ToldIn, LoopEnds, Told, moduleVars
  <2>6. ToldOut'
    <3> SUFFICES ASSUME NEW q \in Prompts, answer'[q] = "not_delivered", NEW r \in Runs
                 PROVE  Dead(<<q, r>>)'
      BY DEF ToldOut
    <3>1. Dead(<<q, r>>)
      <4>1. CASE q = p
        BY <1>i, <1>4, <4>1 DEF LoopEnds, OthersDead
      <4>2. CASE q # p
        BY <1>i, <1>4, <4>2 DEF LoopEnds, Told, TypeOK, ToldOut
      <4> QED
        BY <4>1, <4>2
    <3> QED
      BY <1>4, <3>1 DEF LoopEnds, moduleVars, Dead
  <2> QED
    BY <2>1, <2>2, <2>3, <2>4, <2>5, <2>6
<1>5. ASSUME NEW p \in Prompts, NotWritten(p) PROVE Rest'
  <2>1. RequestsAgree'
    BY <1>i, <1>5 DEF TypeOK, RequestsAgree, NotWritten, Id
  <2>2. LeftUnasked'
    BY <1>i, <1>5 DEF TypeOK, LeftUnasked, NotWritten, Id
  <2>3. OthersDead'
    BY <1>i, <1>5 DEF TypeOK, RequestsAgree, LeftUnasked, OthersDead, Dead, NotWritten, Id
  <2>4. NotYetTold'
    BY <1>i, <1>5 DEF TypeOK, NotYetTold, NotWritten, Id
  <2>5. ToldIn'
    BY <1>i, <1>5 DEF TypeOK, RequestsAgree, NotYetTold, ToldIn, NotWritten, Id
  <2>6. ToldOut'
    <3> SUFFICES ASSUME NEW q \in Prompts, answer'[q] = "not_delivered", NEW r \in Runs
                 PROVE  Dead(<<q, r>>)'
      BY DEF ToldOut
    <3>1. Dead(<<q, r>>)
      BY <1>i, <1>5 DEF ToldOut, NotWritten
    <3>2. reply' = reply /\ line' = [line EXCEPT ![Id(p)] = "none"]
      BY <1>5 DEF NotWritten
    <3>3. line'[<<q, r>>] \in {line[<<q, r>>], "none"}
      BY <1>i, <3>2 DEF TypeOK
    <3> QED
      BY <3>1, <3>2, <3>3 DEF Dead
  <2> QED
    BY <2>1, <2>2, <2>3, <2>4, <2>5, <2>6
<1>6. ASSUME NEW p \in Prompts, Written(p) PROVE Rest'
  <2>1. RequestsAgree'
    BY <1>i, <1>6 DEF TypeOK, RequestsAgree, Written, Id
  <2>2. LeftUnasked'
    BY <1>i, <1>6 DEF TypeOK, LeftUnasked, Written, Id
  <2>3. OthersDead'
    BY <1>i, <1>6 DEF TypeOK, RequestsAgree, LeftUnasked, OthersDead, Dead, Written, Id
  <2>4. NotYetTold'
    BY <1>i, <1>6 DEF TypeOK, NotYetTold, Written, Id
  <2>5. ToldIn'
    BY <1>i, <1>6 DEF TypeOK, RequestsAgree, NotYetTold, ToldIn, Written, Id
  <2>6. ToldOut'
    <3> SUFFICES ASSUME NEW q \in Prompts, answer'[q] = "not_delivered", NEW r \in Runs
                 PROVE  Dead(<<q, r>>)'
      BY DEF ToldOut
    <3>1. Dead(<<q, r>>)
      BY <1>i, <1>6 DEF Written, ToldOut
    <3>2. line'[<<q, r>>] \in {line[<<q, r>>], "none"}
      BY <1>i, <1>6 DEF Written, TypeOK
    <3> QED
      BY <1>6, <3>1, <3>2 DEF Written, Dead
  <2> QED
    BY <2>1, <2>2, <2>3, <2>4, <2>5, <2>6
<1>7. ASSUME NEW p \in Prompts, WaitExpires(p) PROVE Rest'
  <2>1. RequestsAgree'
    BY <1>i, <1>7 DEF TypeOK, RequestsAgree, WaitExpires, Told, Id, moduleVars
  <2>2. LeftUnasked'
    BY <1>i, <1>7 DEF TypeOK, LeftUnasked, WaitExpires, Told, Id, moduleVars
  <2>3. OthersDead'
    BY <1>i, <1>7 DEF TypeOK, RequestsAgree, LeftUnasked, OthersDead, Dead, WaitExpires, Told, Id, moduleVars
  <2>4. NotYetTold'
    BY <1>i, <1>7 DEF TypeOK, NotYetTold, WaitExpires, Told, Id, moduleVars
  <2>5. ToldIn'
    BY <1>i, <1>7 DEF TypeOK, RequestsAgree, NotYetTold, ToldIn, WaitExpires, Told, Id, moduleVars
  <2>6. ToldOut'
    <3> SUFFICES ASSUME NEW q \in Prompts, answer'[q] = "not_delivered", NEW r \in Runs
                 PROVE  Dead(<<q, r>>)'
      BY DEF ToldOut
    <3>1. answer[q] = "not_delivered"
      BY <1>i, <1>7 DEF WaitExpires, Told, TypeOK
    <3>2. Dead(<<q, r>>)
      BY <1>i, <3>1 DEF ToldOut
    <3> QED
      BY <1>7, <3>2 DEF WaitExpires, moduleVars, Dead
  <2> QED
    BY <2>1, <2>2, <2>3, <2>4, <2>5, <2>6
<1>8. ASSUME NEW p \in Prompts, TryNext(p) PROVE Rest'
  <2>1. RequestsAgree'
    BY <1>i, <1>8 DEF TypeOK, RequestsAgree, TryNext, Replied, Id, moduleVars
  <2>2. LeftUnasked'
    BY <1>i, <1>8 DEF TypeOK, LeftUnasked, TryNext, Replied, Id, moduleVars
  <2>3. OthersDead'
    <3>1. Id(p) \in Ids /\ Dead(Id(p))
      BY <1>i, <1>8 DEF TryNext, Replied, TypeOK, RequestsAgree, LeftUnasked, Dead, Id
    <3>2. \A r \in Runs : Dead(<<p, r>>)
      BY <1>i, <1>8, <3>1 DEF TryNext, Replied, OthersDead, Id
    <3>3. \A i \in Ids : Dead(i)' = Dead(i)
      BY <1>8 DEF TryNext, moduleVars, Dead
    <3> QED
      BY <1>i, <1>8, <3>2, <3>3 DEF TryNext, TypeOK, OthersDead
  <2>4. NotYetTold'
    BY <1>i, <1>8 DEF TypeOK, NotYetTold, TryNext, Replied, Id, moduleVars
  <2>5. ToldIn'
    BY <1>i, <1>8 DEF TypeOK, RequestsAgree, NotYetTold, ToldIn, TryNext, Replied, Id, moduleVars
  <2>6. ToldOut'
    BY <1>i, <1>8 DEF TypeOK, RequestsAgree, OthersDead, NotYetTold, ToldOut, Dead, TryNext, Replied, Id, moduleVars
  <2> QED
    BY <2>1, <2>2, <2>3, <2>4, <2>5, <2>6
<1>9. ASSUME NEW p \in Prompts, Decide(p) PROVE Rest'
  <2>1. RequestsAgree'
    BY <1>i, <1>9 DEF TypeOK, RequestsAgree, Decide, Replied, Told, Id, moduleVars
  <2>2. LeftUnasked'
    BY <1>i, <1>9 DEF TypeOK, LeftUnasked, Decide, Replied, Told, Id, moduleVars
  <2>3. OthersDead'
    BY <1>i, <1>9 DEF TypeOK, RequestsAgree, LeftUnasked, OthersDead, Dead, Decide, Replied, Told, Id, moduleVars
  <2>4. NotYetTold'
    BY <1>i, <1>9 DEF TypeOK, NotYetTold, Decide, Replied, Told, Id, moduleVars
  <2>5. ToldIn'
    <3> SUFFICES ASSUME NEW q \in Prompts, answer'[q] = "accepted"
                 PROVE  \E r \in Runs : <<q, r>> \in text \cup lapsed
      BY <1>9 DEF ToldIn, Decide, moduleVars
    <3>1. CASE q = p
      <4>1. waiting[Id(p)] = "accepted"
        BY <1>i, <1>9, <3>1 DEF Decide, Replied, Told, TypeOK
      <4>2. asking[p] \in Runs /\ reply[Id(p)] = "accepted"
        BY <1>i, <1>9, <4>1 DEF Decide, Replied, LeftUnasked, RequestsAgree, Id
      <4> QED
        BY <1>i, <3>1, <4>2 DEF RequestsAgree, Id
    <3>2. CASE q # p
      BY <1>i, <1>9, <3>2 DEF Decide, Told, TypeOK, ToldIn
    <3> QED
      BY <3>1, <3>2
  <2>6. ToldOut'
    <3> SUFFICES ASSUME NEW q \in Prompts, answer'[q] = "not_delivered", NEW r \in Runs
                 PROVE  Dead(<<q, r>>)'
      BY DEF ToldOut
    <3>1. CASE q = p
      <4>1. waiting[Id(p)] = "refused"
        BY <1>i, <1>9, <3>1 DEF Decide, Replied, Told, TypeOK
      <4>2. asking[p] \in Runs /\ reply[Id(p)] = "refused"
        BY <1>i, <1>9, <4>1 DEF Decide, Replied, LeftUnasked, RequestsAgree, Id
      <4>3. Dead(<<q, r>>)
        BY <1>i, <1>9, <3>1, <4>2 DEF Decide, Replied, OthersDead, Dead, Id
      <4> QED
        BY <1>9, <4>3 DEF Decide, moduleVars, Dead
    <3>2. CASE q # p
      BY <1>i, <1>9, <3>2 DEF Decide, Told, TypeOK, ToldOut, moduleVars, Dead
    <3> QED
      BY <3>1, <3>2
  <2> QED
    BY <2>1, <2>2, <2>3, <2>4, <2>5, <2>6
<1>10. ASSUME NEW i \in Ids, Take(i) PROVE Rest'
  <2>1. RequestsAgree'
    BY <1>i, <1>10 DEF TypeOK, RequestsAgree, Take
  <2>2. LeftUnasked'
    BY <1>i, <1>10 DEF TypeOK, LeftUnasked, Take
  <2>3. OthersDead'
    BY <1>i, <1>10 DEF TypeOK, RequestsAgree, LeftUnasked, OthersDead, Dead, Take
  <2>4. NotYetTold'
    BY <1>i, <1>10 DEF TypeOK, NotYetTold, Take
  <2>5. ToldIn'
    BY <1>i, <1>10 DEF TypeOK, RequestsAgree, NotYetTold, ToldIn, Take
  <2>6. ToldOut'
    BY <1>i, <1>10 DEF TypeOK, RequestsAgree, OthersDead, NotYetTold, ToldOut, Dead, Take
  <2> QED
    BY <2>1, <2>2, <2>3, <2>4, <2>5, <2>6
<1>11. ASSUME NEW i \in Ids, ModuleReads(i) PROVE Rest'
  <2>1. RequestsAgree'
    BY <1>i, <1>11 DEF TypeOK, RequestsAgree, ModuleReads, daemonVars
  <2>2. LeftUnasked'
    BY <1>i, <1>11 DEF TypeOK, LeftUnasked, ModuleReads, daemonVars
  <2>3. OthersDead'
    BY <1>i, <1>11 DEF TypeOK, RequestsAgree, LeftUnasked, OthersDead, Dead, ModuleReads, daemonVars
  <2>4. NotYetTold'
    BY <1>i, <1>11 DEF TypeOK, NotYetTold, ModuleReads, daemonVars
  <2>5. ToldIn'
    BY <1>i, <1>11 DEF TypeOK, RequestsAgree, NotYetTold, ToldIn, ModuleReads, daemonVars
  <2>6. ToldOut'
    <3> SUFFICES ASSUME NEW q \in Prompts, answer'[q] = "not_delivered", NEW r \in Runs
                 PROVE  Dead(<<q, r>>)'
      BY DEF ToldOut
    <3>1. Dead(<<q, r>>)
      BY <1>i, <1>11 DEF ToldOut, ModuleReads, daemonVars
    <3>2. reply' = reply /\ line' = [line EXCEPT ![i] = "read"] /\ line[i] = "sent"
      BY <1>11 DEF ModuleReads
    <3> QED
      BY <1>i, <3>1, <3>2 DEF Dead, TypeOK
  <2> QED
    BY <2>1, <2>2, <2>3, <2>4, <2>5, <2>6
<1>12. ASSUME NEW i \in Ids, ModuleEnds(i) PROVE Rest'
  <2>1. RequestsAgree'
    BY <1>i, <1>12 DEF TypeOK, RequestsAgree, ModuleEnds, daemonVars
  <2>2. LeftUnasked'
    BY <1>i, <1>12 DEF TypeOK, LeftUnasked, ModuleEnds, daemonVars
  <2>3. OthersDead'
    BY <1>i, <1>12 DEF TypeOK, RequestsAgree, LeftUnasked, OthersDead, Dead, ModuleEnds, daemonVars
  <2>4. NotYetTold'
    BY <1>i, <1>12 DEF TypeOK, NotYetTold, ModuleEnds, daemonVars
  <2>5. ToldIn'
    BY <1>i, <1>12 DEF TypeOK, RequestsAgree, NotYetTold, ToldIn, ModuleEnds, daemonVars
  <2>6. ToldOut'
    <3> SUFFICES ASSUME NEW q \in Prompts, answer'[q] = "not_delivered", NEW r \in Runs
                 PROVE  Dead(<<q, r>>)'
      BY DEF ToldOut
    <3>1. Dead(<<q, r>>)
      BY <1>i, <1>12 DEF ModuleEnds, daemonVars, ToldOut
    <3>2. <<q, r>> # i
      BY <1>12, <3>1 DEF ModuleEnds, Dead
    <3>3. PICK said \in Replies : reply' = [reply EXCEPT ![i] = said]
      BY <1>12 DEF ModuleEnds
    <3>4. reply'[<<q, r>>] = reply[<<q, r>>]
      BY <1>i, <3>2, <3>3 DEF TypeOK
    <3> QED
      BY <1>12, <3>1, <3>4 DEF ModuleEnds, Dead
  <2> QED
    BY <2>1, <2>2, <2>3, <2>4, <2>5, <2>6
<1>13. ASSUME NEW i \in Ids, TextEnters(i) PROVE Rest'
  <2>1. RequestsAgree'
    BY <1>i, <1>13 DEF TypeOK, RequestsAgree, TextEnters, daemonVars
  <2>2. LeftUnasked'
    BY <1>i, <1>13 DEF TypeOK, LeftUnasked, TextEnters, daemonVars
  <2>3. OthersDead'
    BY <1>i, <1>13 DEF TypeOK, RequestsAgree, LeftUnasked, OthersDead, Dead, TextEnters, daemonVars
  <2>4. NotYetTold'
    BY <1>i, <1>13 DEF TypeOK, NotYetTold, TextEnters, daemonVars
  <2>5. ToldIn'
    BY <1>i, <1>13 DEF TypeOK, RequestsAgree, NotYetTold, ToldIn, TextEnters, daemonVars
  <2>6. ToldOut'
    BY <1>i, <1>13 DEF TypeOK, RequestsAgree, OthersDead, NotYetTold, ToldOut, Dead, TextEnters, daemonVars
  <2> QED
    BY <2>1, <2>2, <2>3, <2>4, <2>5, <2>6
<1>14. ASSUME NEW i \in Ids, ModuleMistakes(i) PROVE Rest'
  <2>1. /\ reply' = [reply EXCEPT ![i] = "accepted"] /\ reply[i] = None /\ line[i] = "read"
        /\ lapsed' = lapsed \cup {i} /\ UNCHANGED <<daemonVars, line, arrived, text>>
    BY <1>14 DEF ModuleMistakes
  <2>2. \A j \in Ids : Dead(j)' = Dead(j)
    BY <1>i, <2>1 DEF TypeOK, Dead
  <2>3. RequestsAgree'
    BY <1>i, <2>1 DEF TypeOK, RequestsAgree, daemonVars
  <2>4. LeftUnasked' /\ NotYetTold'
    BY <1>i, <2>1 DEF LeftUnasked, NotYetTold, daemonVars
  <2>5. OthersDead' /\ ToldOut'
    BY <1>i, <2>1, <2>2 DEF OthersDead, ToldOut, daemonVars
  <2>6. ToldIn'
    BY <1>i, <2>1 DEF ToldIn, daemonVars
  <2> QED
    BY <2>3, <2>4, <2>5, <2>6
<1>15. ASSUME NEW i \in Ids, TextSlips(i) PROVE Rest'
  <2>1. /\ text' = text \cup {i} /\ lapsed' = lapsed \cup {i}
        /\ UNCHANGED <<daemonVars, line, reply, arrived>>
    BY <1>15 DEF TextSlips
  <2>2. \A j \in Ids : Dead(j)' = Dead(j)
    BY <2>1 DEF Dead
  <2>3. RequestsAgree'
    BY <1>i, <2>1 DEF RequestsAgree, daemonVars
  <2>4. LeftUnasked' /\ NotYetTold'
    BY <1>i, <2>1 DEF LeftUnasked, NotYetTold, daemonVars
  <2>5. OthersDead' /\ ToldOut'
    BY <1>i, <2>1, <2>2 DEF OthersDead, ToldOut, daemonVars
  <2>6. ToldIn'
    BY <1>i, <2>1 DEF ToldIn, daemonVars
  <2> QED
    BY <2>3, <2>4, <2>5, <2>6
<1>16. ASSUME UNCHANGED vars PROVE Rest'
  BY <1>i, <1>16 DEF vars, daemonVars, moduleVars, RequestsAgree, LeftUnasked, OthersDead,
     NotYetTold, ToldIn, ToldOut, Dead
<1>17. Rest'
  BY <1>1, <1>2, <1>3, <1>4, <1>5, <1>6, <1>7, <1>8, <1>9, <1>10, <1>11, <1>12,
     <1>13, <1>14, <1>15, <1>16 DEF Next, Handler
<1> QED
  BY <1>t, <1>17 DEF IInv

-----------------------------------------------------------------------------
(* A text that is in was not answered not_delivered, unless it slipped in: *)
(* its request is alive.                                                   *)
LEMMA InIsAlive ==
  ASSUME IInv, NEW i \in Ids, i \in text \ lapsed
  PROVE  ~ Dead(i)
<1>1. reply[i] \in {"accepted", "unconfirmed"}
  BY DEF IInv, RequestsAgree
<1>2. line[i] = "read"
  BY <1>1, NoneAssumption DEF IInv, RequestsAgree, Replies
<1> QED
  BY <1>1, <1>2 DEF Dead

LEMMA Invariance == Spec => []IInv
  BY InitIInv, StepIInv, PTL DEF Spec

(* The type invariant of user_prompt, for all prompts and runs.            *)
THEOREM TypeCorrect == Spec => []TypeOK
<1>1. IInv => TypeOK
  BY DEF IInv
<1> QED
  BY <1>1, Invariance, PTL

(* The text of a prompt goes in at most once, besides copies its modules   *)
(* said were out, whatever requests, replies and deadlines do (userPrompt  *)
(* asks the runs one at a time).                                           *)
THEOREM OneCopy == Spec => []AtMostOneCopy
<1>1. IInv => AtMostOneCopy
  <2> SUFFICES ASSUME IInv, NEW p \in Prompts
                      PROVE  Cardinality({r \in Copies(p) : <<p, r>> \notin lapsed}) <= 1
    BY DEF AtMostOneCopy
  <2> DEFINE Sure == {r \in Copies(p) : <<p, r>> \notin lapsed}
  <2>1. \A r, q \in Sure : r = q
    <3> SUFFICES ASSUME NEW r \in Sure, NEW q \in Sure PROVE r = q
      OBVIOUS
    <3>1. r \in Runs /\ q \in Runs /\ ~ Dead(<<p, r>>) /\ ~ Dead(<<p, q>>)
      BY InIsAlive DEF Copies, Ids
    <3> QED
      BY <3>1 DEF IInv, OthersDead
  <2> HIDE DEF Sure
  <2>2. Cardinality(Sure) <= 1
    <3>1. CASE Sure = {}
      BY <3>1, FS_EmptySet
    <3>2. CASE Sure # {}
      <4>1. PICK r : Sure = {r}
        BY <2>1, <3>2
      <4>2. Cardinality({r}) = 1
        BY FS_Singleton
      <4> QED
        BY <4>1, <4>2
    <3> QED
      BY <3>1, <3>2
  <2> QED
    BY <2>2 DEF Sure
<1> QED
  BY <1>1, Invariance, PTL

(* A step of user_prompt enters the text of at most one prompt, or tells   *)
(* the person of one what is so, or is none of PromptOnce's.               *)
LEMMA StepKeepsPromise == IInv /\ IInv' /\ [Next]_vars => [Once!Next]_Once!vars
<1> SUFFICES ASSUME IInv, IInv', [Next]_vars PROVE [Once!Next]_Once!vars
  OBVIOUS
<1> DEFINE In == {p \in Prompts : Copies(p) # {}}
           Lapsed == {p \in Prompts : \E r \in Runs : <<p, r>> \in lapsed}
<1>s. ASSUME text' = text, answer' = answer, lapsed' = lapsed PROVE [Once!Next]_Once!vars
  BY <1>s DEF Once!vars, Copies
<1>t. ASSUME NEW p \in Prompts, NEW o \in Outcomes, Told(p, o), text' = text, lapsed' = lapsed,
             answer[p] = None
      PROVE  Once!Tell(p, o)
  <2>1. In' = In /\ Lapsed' = Lapsed
    BY <1>t DEF Copies
  <2>2. answer' = [answer EXCEPT ![p] = o] /\ answer'[p] = o
    BY <1>t DEF Told, IInv, TypeOK
  <2>3. o = "accepted" => p \in In \cup Lapsed
    BY <1>t, <2>2 DEF IInv, ToldIn, Copies
  <2>4. o = "not_delivered" => p \notin In \ Lapsed
    <3> SUFFICES ASSUME answer'[p] = "not_delivered", NEW r \in Copies(p), p \notin Lapsed
                 PROVE  FALSE
      BY <1>t, <2>2
    <3>1. r \in Runs /\ Dead(<<p, r>>)'
      BY DEF IInv, ToldOut, Copies
    <3>2. reply'[<<p, r>>] \in {"accepted", "unconfirmed"}
      BY <1>t, <3>1 DEF IInv, RequestsAgree, Copies, Ids
    <3>3. line'[<<p, r>>] = "read"
      BY <3>1, <3>2, NoneAssumption DEF IInv, RequestsAgree, Replies, Ids
    <3> QED
      BY <3>1, <3>2, <3>3 DEF Dead
  <2> QED
    BY <1>t, <2>1, <2>2, <2>3, <2>4 DEF Once!Tell
<1>q. ASSUME NEW p \in Prompts, NEW o \in Outcomes, Told(p, o), text' = text, lapsed' = lapsed,
             pc[p] # "done"
      PROVE  [Once!Next]_Once!vars
  BY <1>q, <1>t DEF Once!Next, Once!Outcomes, Outcomes, IInv, NotYetTold
<1>e. ASSUME NEW i \in Ids, reply'[i] \in {"accepted", "unconfirmed"},
             text' = text \cup {i}, answer' = answer, lapsed' = lapsed
      PROVE  [Once!Next]_Once!vars
  <2>1. PICK p \in Prompts, r \in Runs : i = <<p, r>>
    BY <1>e DEF Ids
  <2>2. In' = In \cup {p} /\ Lapsed' = Lapsed
    BY <1>e, <2>1 DEF Copies, Ids
  <2>3. CASE p \in In
    BY <1>e, <2>2, <2>3 DEF Once!vars
  <2>4. CASE p \notin In
    <3>1. answer[p] = "accepted" => p \in Lapsed
      BY <2>4 DEF IInv, ToldIn, Copies
    <3>2. answer[p] # "not_delivered"
      <4> SUFFICES ASSUME answer[p] = "not_delivered" PROVE FALSE
        OBVIOUS
      <4>1. Dead(i)'
        BY <1>e, <2>1 DEF IInv, ToldOut
      <4>2. line'[i] = "read"
        BY <1>e, NoneAssumption DEF IInv, RequestsAgree, Replies
      <4> QED
        BY <1>e, <4>1, <4>2 DEF Dead
    <3> QED
      BY <1>e, <2>2, <2>4, <3>1, <3>2 DEF Once!Next, Once!Enter
  <2> QED
    BY <2>3, <2>4
<1>1. ASSUME NEW p \in Prompts, Begin(p) \/ Ask(p) \/ NotWritten(p) \/ Written(p) \/ TryNext(p)
      PROVE  [Once!Next]_Once!vars
  BY <1>1, <1>s DEF Begin, Ask, NotWritten, Written, TryNext, moduleVars
<1>2. ASSUME NEW p \in Prompts, LoopExpires(p) \/ LoopEnds(p) \/ WaitExpires(p)
      PROVE  [Once!Next]_Once!vars
  BY <1>2, <1>q DEF LoopExpires, LoopEnds, WaitExpires, moduleVars, Outcomes
<1>3. ASSUME NEW p \in Prompts, Decide(p) PROVE [Once!Next]_Once!vars
  <2> DEFINE o == IF waiting[Id(p)] = "refused" THEN "not_delivered" ELSE waiting[Id(p)]
  <2>1. o \in Outcomes
    BY <1>3 DEF Decide, Replied, Replies, Outcomes
  <2> QED
    BY <1>3, <2>1, <1>q DEF Decide, Replied, moduleVars
<1>4. ASSUME NEW i \in Ids, Take(i) \/ ModuleReads(i) PROVE [Once!Next]_Once!vars
  BY <1>4, <1>s DEF Take, ModuleReads, daemonVars
<1>5. ASSUME NEW i \in Ids, ModuleEnds(i) PROVE [Once!Next]_Once!vars
  <2>1. PICK said \in Replies : /\ reply' = [reply EXCEPT ![i] = said]
                                /\ text' = IF said = "accepted" THEN text \cup {i} ELSE text
    BY <1>5 DEF ModuleEnds
  <2>2. reply'[i] = said /\ answer' = answer /\ lapsed' = lapsed
    BY <1>5, <2>1 DEF ModuleEnds, daemonVars, IInv, TypeOK
  <2> QED
    BY <2>1, <2>2, <1>e, <1>s
<1>6. ASSUME NEW i \in Ids, TextEnters(i) PROVE [Once!Next]_Once!vars
  BY <1>6, <1>e DEF TextEnters, daemonVars
<1>7. ASSUME NEW i \in Ids, ModuleMistakes(i) \/ TextSlips(i) PROVE [Once!Next]_Once!vars
  <2>1. PICK p \in Prompts, r \in Runs : i = <<p, r>>
    BY DEF Ids
  <2>2. lapsed' = lapsed \cup {i} /\ text' \in {text, text \cup {i}} /\ answer' = answer
    BY <1>7 DEF ModuleMistakes, TextSlips, daemonVars
  <2>3. Lapsed' = Lapsed \cup {p}
    BY <2>1, <2>2
  <2>4. In' \in {In, In \cup {p}}
    BY <2>1, <2>2 DEF Copies
  <2> QED
    BY <2>2, <2>3, <2>4 DEF Once!Next, Once!Lapse
<1>8. ASSUME UNCHANGED vars PROVE [Once!Next]_Once!vars
  BY <1>8, <1>s DEF vars, daemonVars, moduleVars
<1> QED
  BY <1>1, <1>2, <1>3, <1>4, <1>5, <1>6, <1>7, <1>8 DEF Next, Handler

(* user_prompt implements PromptOnce: what the person is told accepted is  *)
(* in, and what is not_delivered is out for good, unless a module that was *)
(* asked said so of a text that is not.                                    *)
THEOREM Promise == Spec => KeepsPromise
<1>1. Init => Once!Init
  BY DEF Init, Once!Init, Copies
<1>2. IInv /\ IInv' /\ [Next]_vars => [Once!Next]_Once!vars
  BY StepKeepsPromise
<1> QED
  BY <1>1, <1>2, Invariance, PTL DEF Spec, KeepsPromise, Once!Spec
=============================================================================

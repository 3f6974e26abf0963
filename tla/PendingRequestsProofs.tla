------------------------ MODULE PendingRequestsProofs ------------------------
(***************************************************************************)
(* Proofs about PendingRequests, for any calls, workers and number of      *)
(* answers.                                                                *)
(*                                                                         *)
(* Messages for a call are of two sorts: the acknowledgement, which leaves *)
(* the entry of the call in the map, and the others, which take it out.    *)
(* The invariant says that there is at most one of each sort, in the       *)
(* channel or in the hand of a worker, and that it is there only if it was *)
(* paid for: the acknowledgement by acked, the other by the entry.         *)
(***************************************************************************)
EXTENDS PendingRequests, TLAPS

Carries(w, c) == worker[w].pc = "deliver" /\ worker[w].call = c

CarriesAck(w, c) == Carries(w, c) /\ worker[w].cmd \in Acks

CarriesLast(w, c) == Carries(w, c) /\ worker[w].cmd \notin Acks

HoldsAck(c) == \E i \in 1..Len(respCh[c]) : respCh[c][i] \in Acks

HoldsLast(c) == \E i \in 1..Len(respCh[c]) : respCh[c][i] \notin Acks

\* Where the call is tells whether it has an entry.
EntryInv(c) ==
    /\ pc[c] \in {"idle", "returned"} => c \notin pending
    /\ pc[c] = "stored" => c \in pending
    /\ pc[c] \in {"idle", "stored"} => respCh[c] = <<>> /\ \A w \in Workers : ~Carries(w, c)

\* Acknowledgements on their way: none before the first, and one at most.
AckInv(c) ==
    /\ c \in acked => kind[c] = "register"
    /\ c \notin acked => ~HoldsAck(c) /\ \A w \in Workers : ~CarriesAck(w, c)
    /\ \A w \in Workers : CarriesAck(w, c) => ~HoldsAck(c)
    /\ \A v, w \in Workers : CarriesAck(v, c) /\ CarriesAck(w, c) => v = w
    /\ \A i, j \in 1..Len(respCh[c]) :
          respCh[c][i] \in Acks /\ respCh[c][j] \in Acks => i = j

\* The other messages on their way: none while the entry is there, and one at most.
LastInv(c) ==
    /\ c \in pending => ~HoldsLast(c) /\ \A w \in Workers : ~CarriesLast(w, c)
    /\ \A w \in Workers : CarriesLast(w, c) => ~HoldsLast(c)
    /\ \A v, w \in Workers : CarriesLast(v, c) /\ CarriesLast(w, c) => v = w
    /\ \A i, j \in 1..Len(respCh[c]) :
          respCh[c][i] \notin Acks /\ respCh[c][j] \notin Acks => i = j

\* A waiting call without an entry has a message that ends the wait coming.
ReachInv(c) ==
    pc[c] = "wait" /\ c \notin pending =>
        HoldsLast(c) \/ c \in derailed \/ \E w \in Workers : CarriesLast(w, c)

CallInv(c) == EntryInv(c) /\ AckInv(c) /\ LastInv(c) /\ ReachInv(c)

\* TypeOK without the bounds of the channels, which follow from the rest.
Types ==
    /\ kind \in [Calls -> Kinds]
    /\ pc \in [Calls -> {"idle", "stored", "wait", "cleanup", "returned"}]
    /\ pending \in SUBSET Calls
    /\ respCh \in [Calls -> Seq(Commands)]
    /\ outcome \in [Calls -> {"none", "reply", "timeout", "error"}]
    /\ worker \in [Workers -> Task]
    /\ \A w \in Workers : worker[w].pc = "deliver" => worker[w].call \in Calls
    /\ sharedCh \in Seq(Calls \cup {NoCall}) /\ Len(sharedCh) <= 1
    /\ answers \in [Calls \cup {NoCall} -> 0..MaxAnswers]
    /\ acked \in SUBSET Calls
    /\ derailed \in SUBSET Calls

\* The inductive invariant.
IInv == Types /\ \A c \in Calls : CallInv(c)

-----------------------------------------------------------------------------
(* Types.                                                                  *)

\* A worker's task, with a call when it is to be delivered.
LEMMA WorkerType ==
  ASSUME Types, NEW w \in Workers, NEW task \in Task,
         task.pc = "deliver" => task.call \in Calls,
         worker' = [worker EXCEPT ![w] = task]
  PROVE  /\ worker' \in [Workers -> Task]
         /\ \A v \in Workers : worker'[v].pc = "deliver" => worker'[v].call \in Calls
  BY DEF Types

\* A call that goes on keeps the types of pc and outcome.
LEMMA CallType ==
  ASSUME Types, NEW c \in Calls,
         NEW from, NEW to \in {"idle", "stored", "wait", "cleanup", "returned"},
         Goes(c, from, to)
  PROVE  pc' \in [Calls -> {"idle", "stored", "wait", "cleanup", "returned"}]
  BY DEF Types, Goes

\* A call that ends keeps the type of outcome.
LEMMA OutcomeType ==
  ASSUME Types, NEW c \in Calls, NEW how \in {"reply", "timeout", "error"}, Ends(c, how)
  PROVE  outcome' \in [Calls -> {"none", "reply", "timeout", "error"}]
  BY DEF Types, Ends

\* What is left of a channel after its head was taken.
LEMMA TailType ==
  ASSUME Types, NEW c \in Calls, respCh[c] # <<>>, respCh' = [respCh EXCEPT ![c] = Tail(@)]
  PROVE  respCh' \in [Calls -> Seq(Commands)]
<1>1. respCh[c] \in Seq(Commands)
  BY DEF Types
<1>2. Tail(respCh[c]) \in Seq(Commands)
  BY <1>1
<1> QED BY <1>2 DEF Types

\* Taking a message off the central queue counts it.
LEMMA TakesType ==
  ASSUME Types, NEW w \in Workers, NEW c \in Calls \cup {NoCall}, NEW cmd \in Commands,
         answers[c] < MaxAnswers, cmd \in Acks => c \in Calls, Takes(w, c, cmd)
  PROVE  answers' \in [Calls \cup {NoCall} -> 0..MaxAnswers] /\ acked' \in SUBSET Calls
<1>1. answers[c] + 1 \in 0..MaxAnswers
  BY PendingAssumption DEF Types
<1>2. answers' = [answers EXCEPT ![c] = answers[c] + 1]
  BY DEF Takes
<1>3. answers' \in [Calls \cup {NoCall} -> 0..MaxAnswers]
  BY <1>1, <1>2 DEF Types
<1>4. acked' \in SUBSET Calls
  BY DEF Types, Takes
<1> QED BY <1>3, <1>4

\* Every step keeps the types.
LEMMA TypesStep == Types /\ [Next]_vars => Types'
<1> SUFFICES ASSUME Types, [Next]_vars PROVE Types'
  OBVIOUS
<1>1. ASSUME NEW c \in Calls, CallStep(c) PROVE Types'
  <2>1. CASE Unavailable(c)
    BY <1>1, <2>1, CallType, OutcomeType DEF Types, Unavailable
  <2>2. CASE Store(c)
    BY <1>1, <2>2, CallType DEF Types, Store
  <2>3. CASE Send(c)
    BY <1>1, <2>3, CallType DEF Types, Send
  <2>4. CASE SendFails(c)
    BY <1>1, <2>4, CallType, OutcomeType DEF Types, SendFails
  <2>5. CASE Receive(c)
    BY <1>1, <2>5, CallType, OutcomeType, TailType DEF Types, Receive
  <2>6. CASE ReceiveRegister(c)
    <3>1. respCh' \in [Calls -> Seq(Commands)]
      BY <1>1, <2>6, TailType DEF ReceiveRegister
    <3>2. CASE Goes(c, "wait", "cleanup") /\ Ends(c, "reply") /\ UNCHANGED derailed
      BY <1>1, <2>6, <3>1, <3>2, CallType, OutcomeType DEF Types, ReceiveRegister
    <3>3. CASE UNCHANGED <<pc, outcome>> /\ derailed' \in {derailed, derailed \cup {c}}
      BY <1>1, <2>6, <3>1, <3>3 DEF Types, ReceiveRegister
    <3> QED BY <2>6, <3>2, <3>3 DEF ReceiveRegister
  <2>7. CASE TimerFires(c)
    BY <1>1, <2>7, CallType, OutcomeType DEF Types, TimerFires
  <2>8. CASE Cleanup(c)
    BY <1>1, <2>8, CallType DEF Types, Cleanup
  <2> QED BY <1>1, <2>1, <2>2, <2>3, <2>4, <2>5, <2>6, <2>7, <2>8 DEF CallStep
<1>2. ASSUME NEW w \in Workers, NEW c \in Calls, NEW cmd \in Commands, Dispatch(w, c, cmd)
      PROVE Types'
  <2>1. answers' \in [Calls \cup {NoCall} -> 0..MaxAnswers] /\ acked' \in SUBSET Calls
    BY <1>2, TakesType DEF Dispatch, MayAnswer
  <2>2. [pc |-> "deliver", call |-> c, cmd |-> cmd] \in Task
    BY <1>2 DEF Task
  <2>3. /\ worker' \in [Workers -> Task]
        /\ \A v \in Workers : worker'[v].pc = "deliver" => worker'[v].call \in Calls
    BY <1>2, <2>2, WorkerType DEF Dispatch
  <2> QED BY <1>2, <2>1, <2>3 DEF Types, Dispatch, Takes
<1>3. ASSUME NEW w \in Workers, NEW c \in Calls, NEW cmd \in Commands, DispatchMiss(w, c, cmd)
      PROVE Types'
  <2>1. answers' \in [Calls \cup {NoCall} -> 0..MaxAnswers] /\ acked' \in SUBSET Calls
    BY <1>3, TakesType DEF DispatchMiss, MayAnswer
  <2>2. [pc |-> "fallback", call |-> c, cmd |-> cmd] \in Task
    BY <1>3 DEF Task
  <2>3. /\ worker' \in [Workers -> Task]
        /\ \A v \in Workers : worker'[v].pc = "deliver" => worker'[v].call \in Calls
    <3>1. CASE cmd = "Fallback"
      BY <1>3, <2>2, <3>1, WorkerType DEF DispatchMiss
    <3>2. CASE cmd # "Fallback"
      BY <1>3, <3>2 DEF DispatchMiss, Types
    <3> QED BY <3>1, <3>2
  <2> QED BY <1>3, <2>1, <2>3 DEF Types, DispatchMiss, Takes
<1>4. ASSUME NEW w \in Workers, DispatchNoId(w) PROVE Types'
  <2>1. answers' \in [Calls \cup {NoCall} -> 0..MaxAnswers] /\ acked' \in SUBSET Calls
    BY <1>4, TakesType DEF DispatchNoId, Commands, Acks
  <2>2. [pc |-> "fallback", call |-> NoCall, cmd |-> "Fallback"] \in Task
    BY DEF Task, Commands
  <2>3. /\ worker' \in [Workers -> Task]
        /\ \A v \in Workers : worker'[v].pc = "deliver" => worker'[v].call \in Calls
    BY <1>4, <2>2, WorkerType DEF DispatchNoId
  <2> QED BY <1>4, <2>1, <2>3 DEF Types, DispatchNoId, Takes
<1>5. Idle \in Task /\ Idle.pc # "deliver"
  BY DEF Idle, Task, Commands
<1>6. ASSUME NEW w \in Workers, Deliver(w) PROVE Types'
  <2>1. worker[w].call \in Calls /\ worker[w].cmd \in Commands
    BY <1>6 DEF Types, Deliver, Task
  <2>2. respCh[worker[w].call] \in Seq(Commands)
    BY <2>1 DEF Types
  <2>3. Append(respCh[worker[w].call], worker[w].cmd) \in Seq(Commands)
    BY <2>1, <2>2
  <2>4. respCh' \in [Calls -> Seq(Commands)]
    BY <1>6, <2>1, <2>3 DEF Types, Deliver
  <2>5. /\ worker' \in [Workers -> Task]
        /\ \A v \in Workers : worker'[v].pc = "deliver" => worker'[v].call \in Calls
    BY <1>5, <1>6, WorkerType DEF Deliver
  <2> QED BY <1>6, <2>4, <2>5 DEF Types, Deliver
<1>7. ASSUME NEW w \in Workers, DeliverShared(w) PROVE Types'
  <2>1. worker[w].call \in Calls \cup {NoCall}
    BY <1>7 DEF Types, Task
  <2>2. sharedCh \in Seq(Calls \cup {NoCall}) /\ Len(sharedCh) < 1
    BY <1>7 DEF Types, DeliverShared
  <2>3. sharedCh' \in Seq(Calls \cup {NoCall}) /\ Len(sharedCh') <= 1
    BY <1>7, <2>1, <2>2 DEF DeliverShared
  <2>4. /\ worker' \in [Workers -> Task]
        /\ \A v \in Workers : worker'[v].pc = "deliver" => worker'[v].call \in Calls
    BY <1>5, <1>7, WorkerType DEF DeliverShared
  <2> QED BY <1>7, <2>3, <2>4 DEF Types, DeliverShared
<1>8. CASE ReadShared
  <2>1. sharedCh \in Seq(Calls \cup {NoCall}) /\ sharedCh # <<>> /\ Len(sharedCh) <= 1
    BY <1>8 DEF Types, ReadShared
  <2>2. sharedCh' \in Seq(Calls \cup {NoCall}) /\ Len(sharedCh') <= 1
    BY <1>8, <2>1 DEF ReadShared
  <2> QED BY <1>8, <2>2 DEF Types, ReadShared
<1>9. CASE UNCHANGED vars
  BY <1>9 DEF Types, vars
<1> QED BY <1>1, <1>2, <1>3, <1>4, <1>6, <1>7, <1>8, <1>9 DEF Next

-----------------------------------------------------------------------------
(* The messages of one call.                                               *)

\* A step that does not touch what the invariant of a call looks at.
LEMMA Frame ==
  ASSUME NEW c, CallInv(c),
         pc'[c] = pc[c], kind' = kind, respCh'[c] = respCh[c],
         c \in pending' <=> c \in pending,
         c \in acked' <=> c \in acked,
         c \in derailed' <=> c \in derailed,
         \A w \in Workers : Carries(w, c)' <=> Carries(w, c),
         \A w \in Workers : Carries(w, c) => worker'[w].cmd = worker[w].cmd
  PROVE  CallInv(c)'
<1>1. HoldsAck(c)' <=> HoldsAck(c)
  BY DEF HoldsAck
<1>2. HoldsLast(c)' <=> HoldsLast(c)
  BY DEF HoldsLast
<1>3. \A w \in Workers : CarriesAck(w, c)' <=> CarriesAck(w, c)
  BY DEF CarriesAck
<1>4. \A w \in Workers : CarriesLast(w, c)' <=> CarriesLast(w, c)
  BY DEF CarriesLast
<1>5. EntryInv(c)'
  BY DEF CallInv, EntryInv
<1>6. AckInv(c)'
  BY <1>1, <1>3 DEF CallInv, AckInv
<1>7. LastInv(c)'
  BY <1>2, <1>4 DEF CallInv, LastInv
<1>8. ReachInv(c)'
  BY <1>2, <1>4 DEF CallInv, ReachInv
<1> QED BY <1>5, <1>6, <1>7, <1>8 DEF CallInv

\* A step of another call.
LEMMA OtherCall ==
  ASSUME IInv, NEW d \in Calls, CallStep(d), NEW c \in Calls, c # d
  PROVE  CallInv(c)'
<1>1. /\ worker' = worker /\ kind' = kind /\ acked' = acked
      /\ pending' \in {pending, pending \cup {d}, pending \ {d}}
      /\ derailed' \in {derailed, derailed \cup {d}}
      /\ pc'[c] = pc[c]
      /\ respCh'[c] = respCh[c]
  BY DEF IInv, Types, CallStep, Goes, Unavailable, Store, Send, SendFails, Receive,
         ReceiveRegister, TimerFires, Cleanup
<1>2. /\ c \in pending' <=> c \in pending
      /\ c \in derailed' <=> c \in derailed
  BY <1>1
<1>3. CallInv(c)
  BY DEF IInv
<1>4. /\ \A w \in Workers : Carries(w, c)' <=> Carries(w, c)
      /\ \A w \in Workers : worker'[w].cmd = worker[w].cmd
  BY <1>1 DEF Carries
<1> QED BY <1>1, <1>2, <1>3, <1>4, Frame

\* Taking the head of a channel leaves some of its messages, in their order.
LEMMA TailFacts ==
  ASSUME NEW s \in Seq(Commands), s # <<>>
  PROVE  /\ Tail(s) \in Seq(Commands)
         /\ Len(s) \in Nat \ {0} /\ Len(Tail(s)) = Len(s) - 1
         /\ Head(s) = s[1]
         /\ \A i \in 1..Len(Tail(s)) : i + 1 \in 1..Len(s) /\ Tail(s)[i] = s[i + 1]
  OBVIOUS

\* The invariant of a channel survives when its head is taken.
LEMMA TailKeeps ==
  ASSUME IInv, NEW c \in Calls, respCh[c] # <<>>, respCh' = [respCh EXCEPT ![c] = Tail(@)],
         worker' = worker, kind' = kind, acked' = acked, pending' = pending
  PROVE  AckInv(c)' /\ LastInv(c)'
<1> DEFINE s == respCh[c]
<1>1. s \in Seq(Commands) /\ respCh'[c] = Tail(s)
  BY DEF IInv, Types
<1>2. /\ Len(s) \in Nat \ {0} /\ Len(Tail(s)) = Len(s) - 1
      /\ \A i \in 1..Len(Tail(s)) : i + 1 \in 1..Len(s) /\ Tail(s)[i] = s[i + 1]
  BY <1>1, TailFacts
<1>3. AckInv(c) /\ LastInv(c)
  BY DEF IInv, CallInv
<1>4. HoldsAck(c)' => HoldsAck(c)
  BY <1>1, <1>2 DEF HoldsAck
<1>5. HoldsLast(c)' => HoldsLast(c)
  BY <1>1, <1>2 DEF HoldsLast
<1>6. \A w \in Workers : CarriesAck(w, c)' <=> CarriesAck(w, c)
  BY DEF CarriesAck, Carries
<1>7. \A w \in Workers : CarriesLast(w, c)' <=> CarriesLast(w, c)
  BY DEF CarriesLast, Carries
<1>8. \A i, j \in 1..Len(Tail(s)) :
         (Tail(s)[i] \in Acks /\ Tail(s)[j] \in Acks => i = j)
         /\ (Tail(s)[i] \notin Acks /\ Tail(s)[j] \notin Acks => i = j)
  <2> SUFFICES ASSUME NEW i \in 1..Len(Tail(s)), NEW j \in 1..Len(Tail(s))
               PROVE  (Tail(s)[i] \in Acks /\ Tail(s)[j] \in Acks => i = j)
                      /\ (Tail(s)[i] \notin Acks /\ Tail(s)[j] \notin Acks => i = j)
    OBVIOUS
  <2>1. i + 1 \in 1..Len(s) /\ j + 1 \in 1..Len(s)
        /\ Tail(s)[i] = s[i + 1] /\ Tail(s)[j] = s[j + 1]
    BY <1>2
  <2>2. (s[i + 1] \in Acks /\ s[j + 1] \in Acks => i + 1 = j + 1)
        /\ (s[i + 1] \notin Acks /\ s[j + 1] \notin Acks => i + 1 = j + 1)
    BY <1>3, <2>1 DEF AckInv, LastInv
  <2>3. i \in Int /\ j \in Int
    BY <1>2
  <2> QED BY <2>1, <2>2, <2>3
<1>9. AckInv(c)'
  BY <1>1, <1>3, <1>4, <1>6, <1>8 DEF AckInv
<1>10. LastInv(c)'
  BY <1>1, <1>3, <1>5, <1>7, <1>8 DEF LastInv
<1> QED BY <1>9, <1>10

\* A step of the call itself.
LEMMA OwnCall ==
  ASSUME IInv, NEW c \in Calls, CallStep(c)
  PROVE  CallInv(c)'
<1>1. CallInv(c) /\ Types
  BY DEF IInv
<1>2. ASSUME respCh' = respCh, worker' = worker, kind' = kind, acked' = acked,
             pending' = pending \/ pending' = pending \ {c}
                \/ (pc[c] = "idle" /\ pending' = pending \cup {c})
      PROVE  AckInv(c)' /\ LastInv(c)'
  <2>1. \A w \in Workers : /\ CarriesAck(w, c)' <=> CarriesAck(w, c)
                           /\ CarriesLast(w, c)' <=> CarriesLast(w, c)
    BY <1>2 DEF CarriesAck, CarriesLast, Carries
  <2>2. (HoldsAck(c)' <=> HoldsAck(c)) /\ (HoldsLast(c)' <=> HoldsLast(c))
    BY <1>2 DEF HoldsAck, HoldsLast
  <2>3. pc[c] = "idle" => ~HoldsLast(c) /\ \A w \in Workers : ~CarriesLast(w, c)
    BY <1>1 DEF CallInv, EntryInv, HoldsLast, CarriesLast
  <2>4. AckInv(c)'
    BY <1>1, <1>2, <2>1, <2>2 DEF CallInv, AckInv
  <2>5. LastInv(c)'
    BY <1>1, <1>2, <2>1, <2>2, <2>3 DEF CallInv, LastInv
  <2> QED BY <2>4, <2>5
<1>3. CASE Unavailable(c)
  <2>1. AckInv(c)' /\ LastInv(c)'
    BY <1>2, <1>3 DEF Unavailable
  <2>2. EntryInv(c)' /\ ReachInv(c)'
    BY <1>1, <1>3 DEF Unavailable, Goes, CallInv, EntryInv, ReachInv, Types
  <2> QED BY <2>1, <2>2 DEF CallInv
<1>4. CASE Store(c)
  <2>1. AckInv(c)' /\ LastInv(c)'
    BY <1>2, <1>4 DEF Store, Goes
  <2>2. EntryInv(c)' /\ ReachInv(c)'
    BY <1>1, <1>4 DEF Store, Goes, CallInv, EntryInv, ReachInv, Types, Carries
  <2> QED BY <2>1, <2>2 DEF CallInv
<1>5. CASE Send(c)
  <2>1. AckInv(c)' /\ LastInv(c)'
    BY <1>2, <1>5 DEF Send
  <2>2. EntryInv(c)' /\ ReachInv(c)'
    BY <1>1, <1>5 DEF Send, Goes, CallInv, EntryInv, ReachInv, Types
  <2> QED BY <2>1, <2>2 DEF CallInv
<1>6. CASE SendFails(c)
  <2>1. AckInv(c)' /\ LastInv(c)'
    BY <1>2, <1>6 DEF SendFails
  <2>2. EntryInv(c)' /\ ReachInv(c)'
    BY <1>1, <1>6 DEF SendFails, Goes, CallInv, EntryInv, ReachInv, Types
  <2> QED BY <2>1, <2>2 DEF CallInv
<1>7. CASE Receive(c)
  <2>1. AckInv(c)' /\ LastInv(c)'
    BY <1>7, TailKeeps DEF Receive
  <2>2. c \notin pending
    <3>1. respCh[c] \in Seq(Commands) /\ respCh[c] # <<>>
      BY <1>1, <1>7 DEF Types, Receive
    <3>2. 1 \in 1..Len(respCh[c])
      BY <3>1
    <3>3. ~HoldsAck(c)
      BY <1>1, <1>7 DEF Receive, CallInv, AckInv
    <3>4. HoldsLast(c)
      BY <3>2, <3>3 DEF HoldsAck, HoldsLast
    <3> QED BY <1>1, <3>4 DEF CallInv, LastInv
  <2>3. EntryInv(c)' /\ ReachInv(c)'
    BY <1>1, <1>7, <2>2 DEF Receive, Goes, EntryInv, ReachInv, Types
  <2> QED BY <2>1, <2>3 DEF CallInv
<1>8. CASE ReceiveRegister(c)
  <2>1. AckInv(c)' /\ LastInv(c)'
    BY <1>8, TailKeeps DEF ReceiveRegister
  <2>2. pc[c] = "wait" /\ pc'[c] \in {"wait", "cleanup"}
    BY <1>1, <1>8 DEF ReceiveRegister, Goes, Types
  <2>3. EntryInv(c)'
    BY <2>2 DEF EntryInv
  <2>4. ReachInv(c)'
    <3> SUFFICES ASSUME pc'[c] = "wait", c \notin pending', c \notin derailed'
                 PROVE  HoldsLast(c)' \/ \E w \in Workers : CarriesLast(w, c)'
      BY DEF ReachInv
    <3>1. Head(respCh[c]) = "AckPending" /\ derailed' = derailed /\ pending' = pending
          /\ worker' = worker
      BY <1>1, <1>8 DEF ReceiveRegister, Goes, Types
    <3>2. HoldsLast(c) \/ \E w \in Workers : CarriesLast(w, c)
      BY <1>1, <2>2, <3>1 DEF CallInv, ReachInv
    <3>3. ASSUME HoldsLast(c) PROVE HoldsLast(c)'
      <4>1. respCh[c] \in Seq(Commands) /\ respCh[c] # <<>> /\ respCh'[c] = Tail(respCh[c])
        BY <1>1, <1>8 DEF Types, ReceiveRegister
      <4>2. PICK i \in 1..Len(respCh[c]) : respCh[c][i] \notin Acks
        BY <3>3 DEF HoldsLast
      <4>3. respCh[c][1] \in Acks
        BY <3>1, <4>1, TailFacts DEF Acks
      <4>4. i - 1 \in 1..Len(Tail(respCh[c])) /\ Tail(respCh[c])[i - 1] = respCh[c][i]
        BY <4>1, <4>2, <4>3, TailFacts
      <4> QED BY <4>1, <4>2, <4>4 DEF HoldsLast
    <3>4. \A w \in Workers : CarriesLast(w, c) => CarriesLast(w, c)'
      BY <3>1 DEF CarriesLast, Carries
    <3> QED BY <3>2, <3>3, <3>4
  <2> QED BY <2>1, <2>3, <2>4 DEF CallInv
<1>9. CASE TimerFires(c)
  <2>1. AckInv(c)' /\ LastInv(c)'
    BY <1>2, <1>9 DEF TimerFires
  <2>2. EntryInv(c)' /\ ReachInv(c)'
    BY <1>1, <1>9 DEF TimerFires, Goes, CallInv, EntryInv, ReachInv, Types
  <2> QED BY <2>1, <2>2 DEF CallInv
<1>10. CASE Cleanup(c)
  <2>1. AckInv(c)' /\ LastInv(c)'
    BY <1>2, <1>10 DEF Cleanup
  <2>2. EntryInv(c)' /\ ReachInv(c)'
    BY <1>1, <1>10 DEF Cleanup, Goes, CallInv, EntryInv, ReachInv, Types
  <2> QED BY <2>1, <2>2 DEF CallInv
<1> QED BY <1>3, <1>4, <1>5, <1>6, <1>7, <1>8, <1>9, <1>10 DEF CallStep

-----------------------------------------------------------------------------
(* The workers.                                                            *)

\* A worker that neither takes up nor puts down a message for a call.
LEMMA NoCarrier ==
  ASSUME IInv, NEW w \in Workers, NEW task, worker[w].pc # "deliver", task.pc # "deliver",
         worker' = worker \/ worker' = [worker EXCEPT ![w] = task],
         pc' = pc, kind' = kind, respCh' = respCh, pending' = pending, derailed' = derailed,
         NEW c \in Calls, c \in acked' <=> c \in acked
  PROVE  CallInv(c)'
<1>1. /\ \A v \in Workers : Carries(v, c)' <=> Carries(v, c)
      /\ \A v \in Workers : Carries(v, c) => worker'[v].cmd = worker[v].cmd
  BY DEF IInv, Types, Carries
<1> QED BY <1>1, Frame DEF IInv

\* Only a registration that was not acknowledged gets an acknowledgement.
LEMMA AckAnswers ==
  ASSUME NEW c, NEW cmd \in Acks, MayAnswer(c, cmd)
  PROVE  kind[c] = "register" /\ c \notin acked
  BY DEF MayAnswer, Acks

\* The worker looks up d and has a message for it in hand.
LEMMA DispatchKeeps ==
  ASSUME IInv, NEW w \in Workers, NEW d \in Calls, NEW cmd \in Commands, Dispatch(w, d, cmd),
         NEW c \in Calls
  PROVE  CallInv(c)'
<1>1. /\ pc' = pc /\ kind' = kind /\ respCh' = respCh /\ derailed' = derailed
      /\ d \in pending /\ pc[d] \in {"wait", "cleanup", "returned"}
      /\ pending' = (IF cmd \in Acks THEN pending ELSE pending \ {d})
      /\ acked' = (IF cmd \in Acks THEN acked \cup {d} ELSE acked)
      /\ worker[w].pc = "idle"
      /\ worker' = [worker EXCEPT ![w] = [pc |-> "deliver", call |-> d, cmd |-> cmd]]
  BY DEF Dispatch, Takes, MayAnswer
<1>2. CallInv(c) /\ worker \in [Workers -> Task]
  BY DEF IInv, Types
<1>3. CASE c # d
  <2>1. /\ \A v \in Workers : Carries(v, c)' <=> Carries(v, c)
        /\ \A v \in Workers : Carries(v, c) => worker'[v].cmd = worker[v].cmd
    BY <1>1, <1>2, <1>3 DEF Carries
  <2>2. (c \in pending' <=> c \in pending) /\ (c \in acked' <=> c \in acked)
    BY <1>1, <1>3
  <2> QED BY <1>1, <1>2, <2>1, <2>2, Frame
<1>4. CASE c = d
  <2>1. (HoldsAck(c)' <=> HoldsAck(c)) /\ (HoldsLast(c)' <=> HoldsLast(c))
    BY <1>1 DEF HoldsAck, HoldsLast
  <2>2. \A v \in Workers :
           /\ CarriesAck(v, c)' <=> CarriesAck(v, c) \/ (v = w /\ cmd \in Acks)
           /\ CarriesLast(v, c)' <=> CarriesLast(v, c) \/ (v = w /\ cmd \notin Acks)
    BY <1>1, <1>2, <1>4 DEF CarriesAck, CarriesLast, Carries
  <2>3. EntryInv(c)'
    BY <1>1, <1>2, <1>4 DEF CallInv, EntryInv
  <2>4. cmd \in Acks => kind[c] = "register" /\ c \notin acked
    BY <1>4, AckAnswers DEF Dispatch
  <2>5. AckInv(c)'
    BY <1>1, <1>2, <1>4, <2>1, <2>2, <2>4 DEF CallInv, AckInv
  <2>6. LastInv(c)'
    BY <1>1, <1>2, <1>4, <2>1, <2>2 DEF CallInv, LastInv
  <2>7. ReachInv(c)'
    BY <1>1, <1>2, <1>4, <2>1, <2>2 DEF CallInv, ReachInv
  <2> QED BY <2>3, <2>5, <2>6, <2>7 DEF CallInv
<1> QED BY <1>3, <1>4

\* The message is put into the channel.
LEMMA DeliverKeeps ==
  ASSUME IInv, NEW w \in Workers, Deliver(w), NEW c \in Calls
  PROVE  CallInv(c)'
<1> DEFINE d == worker[w].call
           m == worker[w].cmd
           s == respCh[d]
<1>1. /\ pc' = pc /\ kind' = kind /\ derailed' = derailed /\ pending' = pending /\ acked' = acked
      /\ worker[w].pc = "deliver"
      /\ worker' = [worker EXCEPT ![w] = Idle]
      /\ respCh' = [respCh EXCEPT ![d] = Append(s, m)]
  BY DEF Deliver
<1>2. CallInv(c) /\ worker \in [Workers -> Task] /\ d \in Calls /\ m \in Commands
      /\ respCh \in [Calls -> Seq(Commands)] /\ s \in Seq(Commands)
  BY <1>1 DEF IInv, Types, Task
<1>3. Idle.pc # "deliver"
  BY DEF Idle
<1>4. CASE c # d
  <2>1. /\ \A v \in Workers : Carries(v, c)' <=> Carries(v, c)
        /\ \A v \in Workers : Carries(v, c) => worker'[v].cmd = worker[v].cmd
    BY <1>1, <1>2, <1>3, <1>4 DEF Carries
  <2>2. respCh'[c] = respCh[c]
    BY <1>1, <1>2, <1>4
  <2> QED BY <1>1, <1>2, <2>1, <2>2, Frame
<1>5. CASE c = d
  <2>1. /\ respCh'[c] = Append(s, m) /\ Len(s) \in Nat /\ Len(Append(s, m)) = Len(s) + 1
        /\ Append(s, m)[Len(s) + 1] = m
        /\ \A i \in 1..Len(s) : Append(s, m)[i] = s[i]
    BY <1>1, <1>2, <1>5
  <2>2. \A v \in Workers :
           /\ CarriesAck(v, c)' <=> CarriesAck(v, c) /\ v # w
           /\ CarriesLast(v, c)' <=> CarriesLast(v, c) /\ v # w
    BY <1>1, <1>2, <1>3, <1>5 DEF CarriesAck, CarriesLast, Carries
  <2>3. \A i \in 1..(Len(s) + 1) : i \in 1..Len(s) \/ i = Len(s) + 1
    BY <2>1
  <2>4. HoldsAck(c)' <=> HoldsAck(c) \/ m \in Acks
    BY <1>5, <2>1, <2>3 DEF HoldsAck
  <2>5. HoldsLast(c)' <=> HoldsLast(c) \/ m \notin Acks
    BY <1>5, <2>1, <2>3 DEF HoldsLast
  <2>6. Carries(w, c) /\ (m \in Acks => CarriesAck(w, c)) /\ (m \notin Acks => CarriesLast(w, c))
    BY <1>1, <1>5 DEF Carries, CarriesAck, CarriesLast
  <2>7. EntryInv(c)'
    BY <1>1, <1>2, <2>6 DEF CallInv, EntryInv
  <2>8. AckInv(c)'
    <3>1. \A i, j \in 1..Len(respCh'[c]) :
             respCh'[c][i] \in Acks /\ respCh'[c][j] \in Acks => i = j
      <4>1. m \in Acks => \A i \in 1..Len(s) : s[i] \notin Acks
        BY <1>2, <1>5, <2>6 DEF CallInv, AckInv, HoldsAck
      <4> QED BY <1>2, <1>5, <2>1, <2>3, <4>1 DEF CallInv, AckInv
    <3>2. \A v \in Workers : CarriesAck(v, c)' => ~HoldsAck(c)'
      BY <1>2, <2>2, <2>4, <2>6 DEF CallInv, AckInv
    <3>3. c \notin acked => m \notin Acks
      BY <1>2, <2>6 DEF CallInv, AckInv
    <3> QED BY <1>1, <1>2, <2>2, <2>4, <3>1, <3>2, <3>3 DEF CallInv, AckInv
  <2>9. LastInv(c)'
    <3>1. \A i, j \in 1..Len(respCh'[c]) :
             respCh'[c][i] \notin Acks /\ respCh'[c][j] \notin Acks => i = j
      <4>1. m \notin Acks => \A i \in 1..Len(s) : s[i] \in Acks
        BY <1>2, <1>5, <2>6 DEF CallInv, LastInv, HoldsLast
      <4> QED BY <1>2, <1>5, <2>1, <2>3, <4>1 DEF CallInv, LastInv
    <3>2. \A v \in Workers : CarriesLast(v, c)' => ~HoldsLast(c)'
      BY <1>2, <2>2, <2>5, <2>6 DEF CallInv, LastInv
    <3>3. c \in pending => m \in Acks
      BY <1>2, <2>6 DEF CallInv, LastInv
    <3> QED BY <1>1, <1>2, <2>2, <2>5, <3>1, <3>2, <3>3 DEF CallInv, LastInv
  <2>10. ReachInv(c)'
    <3>1. \A v \in Workers : CarriesLast(v, c) => CarriesLast(v, c)' \/ HoldsLast(c)'
      BY <2>2, <2>5 DEF CarriesLast
    <3> QED BY <1>1, <1>2, <2>5, <3>1 DEF CallInv, ReachInv
  <2> QED BY <2>7, <2>8, <2>9, <2>10 DEF CallInv
<1> QED BY <1>4, <1>5

-----------------------------------------------------------------------------
(* The invariant.                                                          *)

\* The invariant holds when the client is made.
LEMMA InitInv == Init => IInv
<1> SUFFICES ASSUME Init PROVE IInv
  OBVIOUS
<1>1. Idle \in Task /\ Idle.pc = "idle"
  BY DEF Idle, Task, Commands
<1>2. Types
  BY <1>1, PendingAssumption DEF Init, Types
<1>3. ASSUME NEW c \in Calls PROVE CallInv(c)
  <2>1. \A w \in Workers : ~Carries(w, c)
    BY <1>1 DEF Init, Carries
  <2>2. ~HoldsAck(c) /\ ~HoldsLast(c) /\ respCh[c] = <<>> /\ Len(respCh[c]) = 0
    BY DEF Init, HoldsAck, HoldsLast
  <2>3. \A w \in Workers : ~CarriesAck(w, c) /\ ~CarriesLast(w, c)
    BY <2>1 DEF CarriesAck, CarriesLast
  <2>4. pc[c] = "idle" /\ c \notin pending /\ c \notin acked
    BY DEF Init
  <2> QED BY <2>1, <2>2, <2>3, <2>4 DEF CallInv, EntryInv, AckInv, LastInv, ReachInv
<1> QED BY <1>2, <1>3 DEF IInv

\* Every step of a caller, a timer, the parent or a worker keeps the invariant.
LEMMA InvStep == IInv /\ [Next]_vars => IInv'
<1> SUFFICES ASSUME IInv, [Next]_vars PROVE IInv'
  OBVIOUS
<1>1. Types'
  BY TypesStep DEF IInv
<1>2. ASSUME NEW c \in Calls PROVE CallInv(c)'
  <2>1. ASSUME NEW d \in Calls, CallStep(d) PROVE CallInv(c)'
    BY <1>2, <2>1, OwnCall, OtherCall
  <2>2. ASSUME NEW w \in Workers, NEW d \in Calls, NEW cmd \in Commands, Dispatch(w, d, cmd)
        PROVE CallInv(c)'
    BY <1>2, <2>2, DispatchKeeps
  <2>3. ASSUME NEW w \in Workers, NEW d \in Calls, NEW cmd \in Commands,
               DispatchMiss(w, d, cmd)
        PROVE CallInv(c)'
    <3> DEFINE task == [pc |-> "fallback", call |-> d, cmd |-> cmd]
    <3>1. /\ worker[w].pc # "deliver" /\ task.pc # "deliver"
          /\ worker' = worker \/ worker' = [worker EXCEPT ![w] = task]
          /\ pc' = pc /\ kind' = kind /\ respCh' = respCh /\ pending' = pending
          /\ derailed' = derailed
          /\ d \notin pending
          /\ acked' = (IF cmd \in Acks THEN acked \cup {d} ELSE acked)
      BY <2>3 DEF DispatchMiss, Takes
    <3>2. CASE c # d \/ cmd \notin Acks
      <4>1. c \in acked' <=> c \in acked
        BY <3>1, <3>2
      <4> QED BY <1>2, <2>3, <3>1, <4>1, NoCarrier
    <3>3. CASE c = d /\ cmd \in Acks
      <4>1. kind[c] = "register"
        BY <2>3, <3>3, AckAnswers DEF DispatchMiss
      <4>2. worker' = worker
        BY <2>3, <3>3 DEF DispatchMiss, Acks
      <4>3. (HoldsAck(c)' <=> HoldsAck(c)) /\ (HoldsLast(c)' <=> HoldsLast(c))
        BY <3>1 DEF HoldsAck, HoldsLast
      <4>4. \A v \in Workers : /\ Carries(v, c)' <=> Carries(v, c)
                               /\ CarriesAck(v, c)' <=> CarriesAck(v, c)
                               /\ CarriesLast(v, c)' <=> CarriesLast(v, c)
        BY <4>2 DEF Carries, CarriesAck, CarriesLast
      <4>5. CallInv(c)
        BY <1>2 DEF IInv
      <4>6. EntryInv(c)' /\ ReachInv(c)'
        BY <3>1, <4>3, <4>4, <4>5 DEF CallInv, EntryInv, ReachInv
      <4>7. AckInv(c)'
        BY <3>1, <3>3, <4>1, <4>3, <4>4, <4>5 DEF CallInv, AckInv
      <4>8. LastInv(c)'
        BY <3>1, <4>3, <4>4, <4>5 DEF CallInv, LastInv
      <4> QED BY <4>6, <4>7, <4>8 DEF CallInv
    <3> QED BY <3>2, <3>3
  <2>4. ASSUME NEW w \in Workers, DispatchNoId(w) PROVE CallInv(c)'
    <3> DEFINE task == [pc |-> "fallback", call |-> NoCall, cmd |-> "Fallback"]
    <3>1. /\ worker[w].pc # "deliver" /\ task.pc # "deliver"
          /\ worker' = [worker EXCEPT ![w] = task]
          /\ pc' = pc /\ kind' = kind /\ respCh' = respCh /\ pending' = pending
          /\ derailed' = derailed /\ acked' = acked
      BY <2>4 DEF DispatchNoId, Takes, Acks
    <3> QED BY <1>2, <2>4, <3>1, NoCarrier
  <2>5. ASSUME NEW w \in Workers, Deliver(w) PROVE CallInv(c)'
    BY <1>2, <2>5, DeliverKeeps
  <2>6. ASSUME NEW w \in Workers, DeliverShared(w) PROVE CallInv(c)'
    <3>1. Idle.pc # "deliver"
      BY DEF Idle
    <3>2. /\ worker[w].pc # "deliver" /\ worker' = [worker EXCEPT ![w] = Idle]
          /\ pc' = pc /\ kind' = kind /\ respCh' = respCh /\ pending' = pending
          /\ derailed' = derailed /\ acked' = acked
      BY <2>6 DEF DeliverShared
    <3> QED BY <1>2, <2>6, <3>1, <3>2, NoCarrier
  <2>7. CASE ReadShared \/ UNCHANGED vars
    <3>1. /\ worker' = worker /\ pc' = pc /\ kind' = kind /\ respCh' = respCh
          /\ pending' = pending /\ derailed' = derailed /\ acked' = acked
      BY <2>7 DEF ReadShared, vars
    <3>2. /\ \A v \in Workers : Carries(v, c)' <=> Carries(v, c)
          /\ \A v \in Workers : worker'[v].cmd = worker[v].cmd
      BY <3>1 DEF Carries
    <3> QED BY <1>2, <3>1, <3>2, Frame DEF IInv
  <2> QED BY <2>1, <2>2, <2>3, <2>4, <2>5, <2>6, <2>7 DEF Next
<1> QED BY <1>1, <1>2 DEF IInv

\* The invariant holds in every reachable state.
LEMMA InvAlways == Spec => []IInv
  BY InitInv, InvStep, PTL DEF Spec

-----------------------------------------------------------------------------
(* What follows.                                                           *)

\* Two messages of different sorts at most; one if the call gets no ack.
LEMMA ChannelBound ==
  ASSUME IInv, NEW c \in Calls
  PROVE  Len(respCh[c]) <= Capacity(c)
<1>1. AckInv(c) /\ LastInv(c) /\ respCh[c] \in Seq(Commands) /\ Len(respCh[c]) \in Nat
  BY DEF IInv, CallInv, Types
<1>2. CASE kind[c] = "register"
  <2>1. ASSUME Len(respCh[c]) > 2 PROVE FALSE
    <3>1. 1 \in 1..Len(respCh[c]) /\ 2 \in 1..Len(respCh[c]) /\ 3 \in 1..Len(respCh[c])
      BY <1>1, <2>1
    <3> QED BY <1>1, <3>1 DEF AckInv, LastInv
  <2> QED BY <1>1, <1>2, <2>1 DEF Capacity
<1>3. CASE kind[c] # "register"
  <2>1. ~HoldsAck(c)
    BY <1>1, <1>3 DEF AckInv
  <2>2. ASSUME Len(respCh[c]) > 1 PROVE FALSE
    <3>1. 1 \in 1..Len(respCh[c]) /\ 2 \in 1..Len(respCh[c])
      BY <1>1, <2>2
    <3> QED BY <1>1, <2>1, <3>1 DEF LastInv, HoldsAck
  <2> QED BY <1>1, <1>3, <2>2 DEF Capacity
<1> QED BY <1>2, <1>3

\* While a worker carries a message for a call there is room for it.
LEMMA RoomForCarried ==
  ASSUME IInv, NEW w \in Workers, worker[w].pc = "deliver"
  PROVE  Len(respCh[worker[w].call]) < Capacity(worker[w].call)
<1> DEFINE c == worker[w].call
<1>1. c \in Calls
  BY DEF IInv, Types
<1>2. AckInv(c) /\ LastInv(c) /\ respCh[c] \in Seq(Commands) /\ Len(respCh[c]) \in Nat
  BY <1>1 DEF IInv, CallInv, Types
<1>3. CarriesAck(w, c) \/ CarriesLast(w, c)
  BY DEF CarriesAck, CarriesLast, Carries
<1>4. ASSUME Len(respCh[c]) > 1 PROVE FALSE
  <2>1. 1 \in 1..Len(respCh[c]) /\ 2 \in 1..Len(respCh[c])
    BY <1>2, <1>4
  <2>2. ~HoldsAck(c) \/ ~HoldsLast(c)
    BY <1>2, <1>3 DEF AckInv, LastInv
  <2> QED BY <1>2, <2>1, <2>2 DEF AckInv, LastInv, HoldsAck, HoldsLast
<1>5. CASE kind[c] = "register"
  BY <1>2, <1>4, <1>5 DEF Capacity
<1>6. CASE kind[c] # "register"
  <2>1. ~HoldsAck(c) /\ ~HoldsLast(c)
    BY <1>2, <1>3, <1>6 DEF AckInv, LastInv
  <2>2. ASSUME Len(respCh[c]) > 0 PROVE FALSE
    <3>1. 1 \in 1..Len(respCh[c])
      BY <1>2, <2>2
    <3> QED BY <2>1, <3>1 DEF HoldsAck, HoldsLast
  <2> QED BY <1>2, <1>6, <2>2 DEF Capacity
<1> QED BY <1>5, <1>6

\* Type correctness: in particular no channel of a call, nor the shared one, ever
\* holds more than make() gave it room for.
THEOREM TypeCorrect == Spec => []TypeOK
<1>1. IInv => TypeOK
  BY ChannelBound DEF IInv, Types, TypeOK
<1> QED BY <1>1, InvAlways, PTL

\* No worker of the socket server ever blocks on the channel of a call, whatever
\* is answered late or twice: the capacities of the channels are enough.
THEOREM WorkersAreFree == Spec => []WorkersNeverBlock
<1>1. IInv => WorkersNeverBlock
  BY RoomForCarried DEF WorkersNeverBlock
<1> QED BY <1>1, InvAlways, PTL

\* A call that has returned has no entry in the pending maps.
THEOREM NoEntryLeaks == Spec => []NoPendingLeak
<1>1. IInv => NoPendingLeak
  BY DEF IInv, CallInv, EntryInv, NoPendingLeak
<1> QED BY <1>1, InvAlways, PTL

\* A waiting call has its entry or a message coming, unless a registration met a
\* command it does not know.
THEOREM WaitersAreReachable == Spec => []WaitingIsReachable
<1>1. ASSUME IInv, NEW c \in Calls, pc[c] = "wait", c \notin pending, c \notin derailed
      PROVE  respCh[c] # <<>> \/ \E w \in Workers : worker[w].pc = "deliver" /\ worker[w].call = c
  <2>1. HoldsLast(c) \/ \E w \in Workers : CarriesLast(w, c)
    BY <1>1 DEF IInv, CallInv, ReachInv
  <2>2. HoldsLast(c) => respCh[c] # <<>>
    BY DEF HoldsLast
  <2> QED BY <2>1, <2>2 DEF CarriesLast, Carries
<1>2. IInv => WaitingIsReachable
  BY <1>1 DEF WaitingIsReachable
<1> QED BY <1>2, InvAlways, PTL
=============================================================================

------------------------- MODULE ProcessCache_proofs -------------------------
(***************************************************************************)
(* Proofs about the cache of external function processes, for all          *)
(* functions, objects, arguments and values of the option, and any number  *)
(* of calls, crashes, aborts and time-outs.                                *)
(*                                                                         *)
(* KeptRight follows from KeptInv, which says when a communicator may be   *)
(* open.  AnswersKeptApart follows from ConvInv as well, which describes   *)
(* the two pipes at each point of a call; it needs the calls to have at    *)
(* most one external object each (OneObject), for which the name of a      *)
(* cached process tells what the process has constructed.                  *)
(***************************************************************************)
EXTENDS ProcessCache, SequenceTheorems, FiniteSetTheorems, TLAPS

(***************************************************************************)
(* Sequences without repetitions, like the list of the living processes.   *)
(***************************************************************************)
LEMMA InjectiveElements ==
  ASSUME NEW S, NEW s \in Seq(S)
  PROVE  /\ IsInjective(s) <=>
              \A i, j \in 1 .. Len(s) : s[i] = s[j] => i = j
         /\ ToSet(s) = {s[i] : i \in 1 .. Len(s)}
BY DEF IsInjective, ToSet

(* The list without its i-th element.                                      *)
LEMMA CutProperties ==
  ASSUME NEW S, NEW s \in Seq(S), NEW i \in 1 .. Len(s)
  PROVE  LET r == SubSeq(s, 1, i - 1) \o SubSeq(s, i + 1, Len(s))
         IN  /\ r \in Seq(S)
             /\ Len(r) = Len(s) - 1
             /\ \A j \in 1 .. Len(s) - 1 : r[j] = IF j < i THEN s[j] ELSE s[j + 1]
<1> DEFINE a == SubSeq(s, 1, i - 1)
           b == SubSeq(s, i + 1, Len(s))
<1>1. /\ a \in Seq(S)
      /\ Len(a) = i - 1
      /\ \A j \in 1 .. i - 1 : a[j] = s[j]
  <2>1. \A j \in 1 .. i - 1 : s[j] \in S
    BY ElementOfSeq
  <2>2. i - 1 \in Int /\ 1 \in Int
    OBVIOUS
  <2> QED
    BY <2>1, <2>2, SubSeqProperties
<1>2. /\ b \in Seq(S)
      /\ Len(b) = Len(s) - i
      /\ \A j \in 1 .. Len(s) - i : b[j] = s[i + j]
  <2>1. \A j \in i + 1 .. Len(s) : s[j] \in S
    BY ElementOfSeq
  <2>2. i + 1 \in Int /\ Len(s) \in Int
    OBVIOUS
  <2> QED
    BY <2>1, <2>2, SubSeqProperties
<1> HIDE DEF a, b
<1>3. /\ a \o b \in Seq(S)
      /\ Len(a \o b) = Len(a) + Len(b)
      /\ \A j \in 1 .. Len(a) + Len(b) :
           (a \o b)[j] = IF j <= Len(a) THEN a[j] ELSE b[j - Len(a)]
  BY <1>1, <1>2, ConcatProperties
<1>4. \A j \in 1 .. Len(s) - 1 : (a \o b)[j] = IF j < i THEN s[j] ELSE s[j + 1]
  <2> TAKE j \in 1 .. Len(s) - 1
  <2>1. CASE j < i
    <3>1. j \in 1 .. Len(a) + Len(b) /\ j <= Len(a) /\ j \in 1 .. i - 1
      BY <2>1, <1>1, <1>2
    <3> QED
      BY <3>1, <2>1, <1>1, <1>3
  <2>2. CASE ~(j < i)
    <3>1. j \in 1 .. Len(a) + Len(b) /\ ~(j <= Len(a)) /\ j - Len(a) = j - i + 1
      BY <2>2, <1>1, <1>2
    <3>2. j - i + 1 \in 1 .. Len(s) - i
      BY <2>2
    <3>3. b[j - i + 1] = s[i + (j - i + 1)] /\ i + (j - i + 1) = j + 1
      BY <3>2, <1>2
    <3> QED
      BY <3>1, <3>3, <2>2, <1>3
  <2> QED
    BY <2>1, <2>2
<1>5. Len(a \o b) = Len(s) - 1
  BY <1>1, <1>2, <1>3
<1> QED
  BY <1>3, <1>4, <1>5 DEF a, b

(* The first occurrence is the only one, so all of it is gone.             *)
LEMMA WithoutProperties ==
  ASSUME NEW S, NEW s \in Seq(S), IsInjective(s), NEW k
  PROVE  /\ Without(s, k) \in Seq(S)
         /\ IsInjective(Without(s, k))
         /\ ToSet(Without(s, k)) = ToSet(s) \ {k}
         /\ Len(Without(s, k)) <= Len(s)
<1>1. CASE ~\E i \in 1 .. Len(s) : s[i] = k
  <2>1. Without(s, k) = s
    BY <1>1 DEF Without, RemoveFirst
  <2> QED
    BY <1>1, <2>1 DEF ToSet
<1>2. CASE \E i \in 1 .. Len(s) : s[i] = k
  <2>1. PICK i \in 1 .. Len(s) : s[i] = k
    BY <1>2
  <2>2. {j \in 1 .. Len(s) : s[j] = k} = {i}
    BY <2>1 DEF IsInjective
  <2>3. SelectInSeq(s, LAMBDA v : v = k) = i
    BY <2>2 DEF SelectInSeq, Min
  <2> DEFINE r == Without(s, k)
  <2>4. r = SubSeq(s, 1, i - 1) \o SubSeq(s, i + 1, Len(s))
    BY <1>2, <2>3 DEF Without, RemoveFirst, RemoveAt
  <2> HIDE DEF r
  <2>5. /\ r \in Seq(S)
        /\ Len(r) = Len(s) - 1
        /\ \A j \in 1 .. Len(s) - 1 : r[j] = IF j < i THEN s[j] ELSE s[j + 1]
    BY <2>4, CutProperties
  <2>6. \A j, l \in 1 .. Len(s) : s[j] = s[l] => j = l
    BY InjectiveElements
  <2>7. IsInjective(r)
    <3>1. \A j, l \in 1 .. Len(r) : r[j] = r[l] => j = l
      BY <2>5, <2>6
    <3> QED
      BY <3>1, <2>5, InjectiveElements
  <2>8. ToSet(r) = ToSet(s) \ {k}
    <3>1. \A v \in ToSet(r) : v \in ToSet(s) \ {k}
      <4> TAKE v \in ToSet(r)
      <4>1. PICK j \in 1 .. Len(r) : r[j] = v
        BY <2>5, InjectiveElements
      <4>2. PICK l \in 1 .. Len(s) : l # i /\ s[l] = v
        <5>1. CASE j < i
          BY <5>1, <4>1, <2>5
        <5>2. CASE ~(j < i)
          BY <5>2, <4>1, <2>5
        <5> QED
          BY <5>1, <5>2
      <4> QED
        BY <4>2, <2>1, <2>6, InjectiveElements
    <3>2. \A v \in ToSet(s) \ {k} : v \in ToSet(r)
      <4> TAKE v \in ToSet(s) \ {k}
      <4>1. PICK l \in 1 .. Len(s) : s[l] = v
        BY InjectiveElements
      <4>2. l # i
        BY <4>1, <2>1
      <4>3. PICK j \in 1 .. Len(r) : r[j] = v
        <5>1. CASE l < i
          <6>1. l \in 1 .. Len(s) - 1 /\ r[l] = s[l]
            BY <5>1, <2>5
          <6> QED
            BY <6>1, <4>1, <2>5
        <5>2. CASE l > i
          <6>1. l - 1 \in 1 .. Len(s) - 1 /\ ~(l - 1 < i) /\ (l - 1) + 1 = l
            BY <5>2
          <6>2. r[l - 1] = s[l]
            BY <6>1, <2>5
          <6> QED
            BY <6>1, <6>2, <4>1, <2>5
        <5> QED
          BY <5>1, <5>2, <4>2
      <4> QED
        BY <4>3, <2>5, InjectiveElements
    <3> QED
      BY <3>1, <3>2
  <2> QED
    BY <2>5, <2>7, <2>8 DEF r
<1> QED
  BY <1>1, <1>2

(* A new element at the end of a list without repetitions.                  *)
LEMMA AppendInjectiveList ==
  ASSUME NEW S, NEW s \in Seq(S), IsInjective(s), NEW e \in S, e \notin ToSet(s)
  PROVE  /\ Append(s, e) \in Seq(S)
         /\ IsInjective(Append(s, e))
         /\ ToSet(Append(s, e)) = ToSet(s) \cup {e}
         /\ Len(Append(s, e)) = Len(s) + 1
         /\ Last(Append(s, e)) = e
<1> DEFINE r == Append(s, e)
<1>1. /\ r \in Seq(S)
      /\ Len(r) = Len(s) + 1
      /\ \A i \in 1 .. Len(s) : r[i] = s[i]
      /\ r[Len(s) + 1] = e
  BY AppendProperties
<1> HIDE DEF r
<1>2. /\ \A i, j \in 1 .. Len(s) : s[i] = s[j] => i = j
      /\ \A i \in 1 .. Len(s) : s[i] # e
  BY InjectiveElements
<1>3. \A i, j \in 1 .. Len(r) : r[i] = r[j] => i = j
  BY <1>1, <1>2
<1>4. ToSet(r) = {r[i] : i \in 1 .. Len(r)} /\ ToSet(s) = {s[i] : i \in 1 .. Len(s)}
  BY <1>1, InjectiveElements
<1>5. ToSet(r) = ToSet(s) \cup {e}
  <2>1. \A v \in ToSet(r) : v \in ToSet(s) \cup {e}
    BY <1>1, <1>4
  <2>2. \A v \in ToSet(s) : v \in ToSet(r)
    <3> TAKE v \in ToSet(s)
    <3>1. PICK i \in 1 .. Len(s) : s[i] = v
      BY <1>4
    <3>2. i \in 1 .. Len(r) /\ r[i] = v
      BY <3>1, <1>1
    <3> QED
      BY <3>2, <1>4
  <2>3. e \in ToSet(r)
    <3>1. Len(r) \in 1 .. Len(r) /\ r[Len(r)] = e
      BY <1>1
    <3> QED
      BY <3>1, <1>4
  <2> QED
    BY <2>1, <2>2, <2>3
<1>6. Last(r) = e
  BY <1>1 DEF Last
<1> QED
  BY <1>1, <1>3, <1>5, <1>6, InjectiveElements DEF r

(* A list without repetitions without its first element.                    *)
LEMMA TailInjectiveList ==
  ASSUME NEW S, NEW s \in Seq(S), IsInjective(s), s # << >>
  PROVE  /\ Head(s) \in S
         /\ Tail(s) \in Seq(S)
         /\ IsInjective(Tail(s))
         /\ ToSet(Tail(s)) = ToSet(s) \ {Head(s)}
         /\ Len(Tail(s)) = Len(s) - 1
<1> DEFINE r == Tail(s)
           h == Head(s)
<1>1. /\ h \in S
      /\ r \in Seq(S)
      /\ Len(r) = Len(s) - 1
      /\ \A i \in 1 .. Len(r) : r[i] = s[i + 1]
  BY HeadTailProperties
<1>2. h = s[1] /\ Len(s) \in Nat /\ Len(s) >= 1
  BY EmptySeq
<1> HIDE DEF r, h
<1>3. \A i, j \in 1 .. Len(s) : s[i] = s[j] => i = j
  BY InjectiveElements
<1>4. \A i, j \in 1 .. Len(r) : r[i] = r[j] => i = j
  <2> TAKE i, j \in 1 .. Len(r)
  <2>1. i + 1 \in 1 .. Len(s) /\ j + 1 \in 1 .. Len(s)
    BY <1>1, <1>2
  <2> QED
    BY <2>1, <1>1, <1>3
<1>5. ToSet(r) = {r[i] : i \in 1 .. Len(r)} /\ ToSet(s) = {s[i] : i \in 1 .. Len(s)}
  BY <1>1, InjectiveElements
<1>6. ToSet(r) = ToSet(s) \ {h}
  <2>1. \A v \in ToSet(r) : v \in ToSet(s) \ {h}
    <3> TAKE v \in ToSet(r)
    <3>1. PICK i \in 1 .. Len(r) : r[i] = v
      BY <1>5
    <3>2. i + 1 \in 1 .. Len(s) /\ s[i + 1] = v /\ i + 1 # 1 /\ 1 \in 1 .. Len(s)
      BY <3>1, <1>1, <1>2
    <3> QED
      BY <3>2, <1>2, <1>3, <1>5
  <2>2. \A v \in ToSet(s) \ {h} : v \in ToSet(r)
    <3> TAKE v \in ToSet(s) \ {h}
    <3>1. PICK i \in 1 .. Len(s) : s[i] = v
      BY <1>5
    <3>2. i # 1
      BY <3>1, <1>2
    <3>3. i - 1 \in 1 .. Len(r) /\ (i - 1) + 1 = i
      BY <3>2, <1>1, <1>2
    <3>4. r[i - 1] = v
      BY <3>1, <3>3, <1>1
    <3> QED
      BY <3>3, <3>4, <1>5
  <2> QED
    BY <2>1, <2>2
<1> QED
  BY <1>1, <1>4, <1>6, InjectiveElements DEF r, h

--------------------------------------------------------------------------------
(***************************************************************************)
(* The cache.                                                              *)
(***************************************************************************)
(* Where the evaluating thread has a communicator of its own, and where it  *)
(* goes through the cache for a new entry.                                  *)
Holding == {"cancel", "mark", "eval", "evaluated", "teardown", "wait"} \cup Waiting
Filling == {"ready", "spawn", "start", "setup", "cancel", "mark"}

CallRight ==
  /\ pc # "idle" => call # Nothing /\ outcome = "none" /\ compiled[call.fn] = "compiled"
  /\ outcome # "none" => call # Nothing
  /\ first => Cached /\ pc \in Filling
  /\ pc \in {"lookup", "ready", "mark"} => Cached
  /\ pc \in {"teardown", "exit", "wait"} => ~Cached

HereRight ==
  /\ pc \in Holding => here.open
  /\ pc = "spawn" => ~here.open
  /\ Cached /\ pc \notin {"idle", "lookup"} => lives[slot] # "failed"
  /\ Cached /\ pc = "eval" => living # << >> /\ Last(living) = slot
  /\ ErrorCloses

SlotsRight ==
  \A k \in Slots :
    /\ com[k].open => compiled[k[1]] = "compiled"
    /\ lives[k] = "failed" => ~com[k].open
    /\ ~Cached => lives[k] = "none" /\ (com[k].open => pc # "idle" /\ k = slot)

(* A communicator is open only for a function that was compiled and for an  *)
(* entry that has not failed, with the cache turned off only for the call   *)
(* under way, and for that call from the start of its process to its end.   *)
KeptInv == TypeOK /\ LivingCorrect /\ CallRight /\ HereRight /\ SlotsRight

(* The name of a call is one of its objects, or NoName.                     *)
LEMMA SlotOfCall ==
  ASSUME NEW c \in Calls
  PROVE  Slot(c) \in Slots /\ Slot(c)[1] = c.fn
<1>1. c \in Call
  BY CallsAssumption
<1>2. c.fn \in Functions /\ c.objs \in SUBSET Objects
  BY <1>1 DEF Call
<1>3. NameOf(c) \in Objects \cup {NoName}
  <2>1. CASE Cardinality(c.objs) = 1
    <3>1. c.objs # {}
      BY <2>1, FS_EmptySet
    <3> QED
      BY <1>2, <2>1, <3>1 DEF NameOf
  <2>2. CASE Cardinality(c.objs) # 1
    BY <2>2 DEF NameOf
  <2> QED
    BY <2>1, <2>2
<1> QED
  BY <1>2, <1>3 DEF Slot, Slots

(* The present call has a slot, of its own function.                        *)
LEMMA SlotRight ==
  ASSUME call \in Calls
  PROVE  slot \in Slots /\ slot[1] = call.fn
BY SlotOfCall DEF slot

(* The slot depends on the call alone.                                      *)
LEMMA SlotStays ==
  ASSUME call' = call
  PROVE  slot' = slot
BY DEF slot, Slot, NameOf

(* What the callers and the processes do with a communicator keeps its type.*)
LEMMA CommunicatorTypes ==
  ASSUME NEW c \in P!Communicator
  PROVE  /\ P!StartTimer(c) \in P!Communicator /\ P!StartTimer(c).open = c.open
         /\ P!CancelTimer(c) \in P!Communicator /\ P!CancelTimer(c).open = c.open
         /\ \A m \in P!Message :
              P!Written(c, m) \in P!Communicator /\ P!Written(c, m).open = c.open
         /\ c.out # << >> =>
              P!Consumed(c) \in P!Communicator /\ P!Consumed(c).open = c.open
<1>1. P!StartTimer(c) \in P!Communicator /\ P!StartTimer(c).open = c.open
  BY TimedAssumption DEF P!Communicator, P!StartTimer
<1>2. P!CancelTimer(c) \in P!Communicator /\ P!CancelTimer(c).open = c.open
  BY DEF P!Communicator, P!CancelTimer
<1>3. ASSUME NEW m \in P!Message
      PROVE  P!Written(c, m) \in P!Communicator /\ P!Written(c, m).open = c.open
  <2>1. Append(c.inp, m) \in Seq(P!Message)
    BY AppendProperties DEF P!Communicator
  <2> QED
    BY <2>1 DEF P!Communicator, P!Written
<1>4. ASSUME c.out # << >>
      PROVE  P!Consumed(c) \in P!Communicator /\ P!Consumed(c).open = c.open
  <2>1. Tail(c.out) \in Seq(P!Message)
    BY <1>4, HeadTailProperties DEF P!Communicator
  <2> QED
    BY <2>1 DEF P!Communicator, P!Consumed
<1> QED
  BY <1>1, <1>2, <1>3, <1>4

(* No communicator, and one whose process has just been started.            *)
LEMMA NewCommunicators ==
  /\ P!Closed \in P!Communicator /\ ~P!Closed.open
  /\ P!Fresh \in P!Communicator /\ P!Fresh.open
  /\ P!StartTimer(P!Fresh) \in P!Communicator /\ P!StartTimer(P!Fresh).open
<1>1. << >> \in Seq(P!Message)
  BY EmptySeq
<1>2. P!Closed \in P!Communicator /\ ~P!Closed.open
  BY <1>1 DEF P!Communicator, P!Closed, P!Program
<1>3. P!Fresh \in P!Communicator /\ P!Fresh.open
  BY <1>2 DEF P!Fresh, P!Communicator, P!Program, P!Running
<1> QED
  BY <1>2, <1>3, CommunicatorTypes

(* The messages of the compiler and the words of the process.               *)
LEMMA MessageTypes ==
  /\ \A w \in P!Words : P!Word(w) \in P!Message
  /\ \A c \in Calls :
       /\ [word |-> "OBJECTS", objs |-> c.objs, arg |-> Nothing] \in P!Message
       /\ [word |-> "EVAL", objs |-> {}, arg |-> c.arg] \in P!Message
BY CallsAssumption DEF P!Word, P!Message, P!Words, Call

(* A step of a process or of a timer changes one communicator and leaves it *)
(* open, or closed, as it is.                                               *)
ChangesOnly(k) ==
  /\ com' \in [Slots -> P!Communicator]
  /\ com'[k].open = com[k].open
  /\ \A j \in Slots \ {k} : com'[j] = com[j]

(* A timer changes its own communicator only, and does not close it.        *)
LEMMA TimerEffect ==
  ASSUME com \in [Slots -> P!Communicator], NEW k \in Slots, P!TimerStep(k)
  PROVE  ChangesOnly(k)
<1>1. CASE P!TimerFires(k)
  BY <1>1 DEF P!TimerFires, P!Communicator, ChangesOnly
<1>2. CASE P!TimerDestroys(k)
  <2> DEFINE p == IF com[k].prog \in P!Running THEN "crashed" ELSE com[k].prog
  <2>1. p \in P!Program
    BY DEF P!Communicator, P!Program
  <2>2. com' = [com EXCEPT ![k].firing = FALSE, ![k].cut = TRUE, ![k].prog = p]
    BY <1>2 DEF P!TimerDestroys
  <2> HIDE DEF p
  <2> DEFINE new == [com[k] EXCEPT !.firing = FALSE, !.cut = TRUE, !.prog = p]
  <2>3. new \in P!Communicator /\ new.open = com[k].open
    BY <2>1 DEF P!Communicator
  <2>4. com' = [com EXCEPT ![k] = new]
    BY <2>2
  <2> HIDE DEF new
  <2> QED
    BY <2>3, <2>4 DEF ChangesOnly
<1> QED
  BY <1>1, <1>2 DEF P!TimerStep

(* A process changes its own communicator only, and does not close it.      *)
LEMMA ProcessEffect ==
  ASSUME com \in [Slots -> P!Communicator], NEW k \in Slots, P!ProcessStep(k)
  PROVE  ChangesOnly(k)
<1> DEFINE c == com[k]
<1>1. /\ c \in P!Communicator
      /\ c.inp # << >> => Tail(c.inp) \in Seq(P!Message) /\ Head(c.inp) \in P!Message
      /\ \A m \in P!Message : Append(c.out, m) \in Seq(P!Message)
  BY HeadTailProperties, AppendProperties DEF P!Communicator
<1>2. /\ \A w \in P!Words : P!Word(w) \in P!Message
      /\ [word |-> "DONE", objs |-> c.built, arg |-> c.arg] \in P!Message
  BY <1>1, MessageTypes DEF P!Message, P!Words, P!Communicator
<1>3. ASSUME NEW m \in P!Message, NEW p \in P!Program, P!Prints(k, m, p)
      PROVE  ChangesOnly(k)
  BY <1>1, <1>3 DEF P!Prints, P!Communicator, ChangesOnly
<1>4. CASE \/ P!ProcessStart(k) \/ P!ProcessReady(k) \/ P!ProcessDone(k)
           \/ P!ProcessCalcAborts(k) \/ P!ProcessDestructAborts(k) \/ P!ProcessEnd(k)
  BY <1>2, <1>3, <1>4
     DEF P!ProcessStart, P!ProcessReady, P!ProcessDone, P!ProcessCalcAborts,
         P!ProcessDestructAborts, P!ProcessEnd, P!Program, P!Running, P!Words
<1>5. CASE P!ProcessConstruct(k)
  BY <1>1, <1>5 DEF P!ProcessConstruct, P!Command, P!Communicator, P!Message,
                    ChangesOnly, P!Program, P!Running
<1>6. CASE P!ProcessConstructAborts(k)
  BY <1>1, <1>2, <1>6 DEF P!ProcessConstructAborts, P!Command, P!Communicator,
                          ChangesOnly, P!Program, P!Running, P!Words
<1>7. CASE P!ProcessCalc(k)
  BY <1>1, <1>2, <1>7 DEF P!ProcessCalc, P!Command, P!Communicator, P!Message,
                          ChangesOnly, P!Program, P!Running, P!Words
<1>8. CASE P!ProcessExit(k)
  BY <1>1, <1>8 DEF P!ProcessExit, P!Command, P!Communicator, ChangesOnly,
                    P!Program, P!Running
<1>9. CASE P!ProcessCrash(k)
  BY <1>9 DEF P!ProcessCrash, P!Communicator, ChangesOnly, P!Program
<1> QED
  BY <1>4, <1>5, <1>6, <1>7, <1>8, <1>9 DEF P!ProcessStep

(* Before the first call nothing is kept.                                   *)
LEMMA KeptInit == Init => KeptInv
<1> SUFFICES ASSUME Init PROVE KeptInv
  OBVIOUS
<1> USE DEF Init
<1>1. TypeOK
  BY NewCommunicators, EmptySeq DEF TypeOK, PCs
<1>2. LivingCorrect
  <2>1. Len(living) = 0 /\ ToSet(living) = {} /\ IsInjective(living) /\ max_proc \in Nat
    BY LimitsAssumption DEF ToSet, IsInjective
  <2> QED
    BY <2>1 DEF LivingCorrect
<1>3. CallRight /\ HereRight /\ SlotsRight
  BY NewCommunicators
     DEF CallRight, HereRight, SlotsRight, ErrorCloses, Holding, Filling, Waiting
<1> QED
  BY <1>1, <1>2, <1>3 DEF KeptInv

(* A step that opens and closes nothing leaves the cache in order.          *)
SameOpen ==
  /\ com' \in [Slots -> P!Communicator]
  /\ \A k \in Slots : com'[k].open = com[k].open
  /\ UNCHANGED <<cache, call>>

LEMMA SteadyKept ==
  ASSUME KeptInv, SameOpen, Cached \/ pc' # "idle" \/ pc = "idle"
  PROVE  LivingCorrect' /\ SlotsRight'
<1>1. slot' = slot /\ ToSet(living') = ToSet(living) /\ Cached' = Cached
  BY SlotStays DEF SameOpen, cache, Cached
<1>2. \A k \in ToSet(living) : k \in Slots
  BY InjectiveElements, ElementOfSeq DEF KeptInv, TypeOK
<1>3. LivingCorrect'
  BY <1>1, <1>2 DEF LivingCorrect, KeptInv, SameOpen, cache, IsInjective
<1>4. SlotsRight'
  BY <1>1 DEF SlotsRight, KeptInv, SameOpen, cache
<1> QED
  BY <1>3, <1>4

(* A step of the conversation: the communicator of the call changes, and    *)
(* the thread goes on to p.                                                 *)
LEMMA TalkKept ==
  ASSUME KeptInv, call # Nothing, ChangesOnly(slot), NEW p, Continue(p),
         p \in PCs \ {"idle", "spawn", "lookup", "ready"},
         pc # "idle", pc # "lookup",
         here.open,
         first => p \in Filling,
         p = "mark" => Cached,
         p \in {"teardown", "exit", "wait"} => ~Cached,
         p = "eval" => ~Cached,
         values' \in P!Message \cup {Nothing}
  PROVE  KeptInv'
<1>1. call \in Calls /\ slot \in Slots /\ slot' = slot
  BY SlotRight, SlotStays DEF KeptInv, TypeOK, Continue
<1>2. SameOpen
  BY <1>1 DEF SameOpen, ChangesOnly, Continue, cache
<1>3. LivingCorrect' /\ SlotsRight'
  BY <1>2, SteadyKept DEF Continue
<1>4. TypeOK'
  BY <1>2 DEF KeptInv, TypeOK, Continue, SameOpen, cache
<1>5. CallRight'
  BY DEF KeptInv, CallRight, Continue, Cached, cache
<1>6. here'.open
  BY <1>1 DEF here, ChangesOnly
<1>7. HereRight'
  BY <1>1, <1>6 DEF KeptInv, HereRight, Continue, Cached, cache, ErrorCloses
<1> QED
  BY <1>3, <1>4, <1>5, <1>7 DEF KeptInv

(* A call under way has a slot and a communicator in it.                    *)
LEMMA HereTyped ==
  ASSUME KeptInv, pc # "idle"
  PROVE  /\ call \in Calls /\ call # Nothing
         /\ slot \in Slots /\ slot[1] = call.fn
         /\ here \in P!Communicator
BY SlotRight, NothingAssumption, CallsAssumption DEF KeptInv, TypeOK, here

(* The communicator of the call is replaced by one as open as it was.       *)
LEMMA HereChanges ==
  ASSUME KeptInv, pc # "idle", NEW d \in P!Communicator, d.open = here.open,
         com' = [com EXCEPT ![slot] = d]
  PROVE  ChangesOnly(slot)
BY HereTyped DEF KeptInv, TypeOK, here, ChangesOnly

(* Every step of the conversation keeps the cache as it is.                 *)
LEMMA ConversationKept ==
  ASSUME KeptInv,
         \/ AcceptStart \/ AcceptReady \/ SetupDone \/ Eval \/ AcceptCalc \/ AcceptDone
         \/ AcceptLast \/ Exit \/ AcceptEnd \/ (EvalDone /\ ~Cached)
  PROVE  KeptInv'
<1>1. pc \in Holding
  BY DEF AcceptStart, AcceptReady, SetupDone, Eval, AcceptCalc, AcceptDone, AcceptLast,
         Exit, AcceptEnd, EvalDone, Hears, Writes, Holding, Waiting
<1>2. /\ call \in Calls /\ call # Nothing /\ slot \in Slots
      /\ here \in P!Communicator /\ here.open /\ pc # "idle" /\ pc # "lookup"
      /\ com[slot] = here
      /\ values \in P!Message \cup {Nothing}
  BY <1>1, HereTyped DEF KeptInv, HereRight, TypeOK, Holding, Waiting, here
<1>3. /\ first => Cached /\ pc \in Filling
      /\ pc \in {"teardown", "exit", "wait"} => ~Cached
  BY DEF KeptInv, CallRight
<1>4. ASSUME NEW w, P!Available(here, w)
      PROVE  /\ P!Consumed(here) \in P!Communicator /\ P!Consumed(here).open = here.open
             /\ Head(here.out) \in P!Message
  BY <1>2, <1>4, CommunicatorTypes, HeadTailProperties DEF P!Available, P!Communicator
<1>5. ASSUME NEW m \in P!Message
      PROVE  LET d == P!Written(P!StartTimer(here), m)
             IN d \in P!Communicator /\ d.open = here.open
  BY <1>2, CommunicatorTypes
<1>6. CASE AcceptStart
  <2> DEFINE m == [word |-> "OBJECTS", objs |-> call.objs, arg |-> Nothing]
             d == P!Written(P!Consumed(here), m)
  <2>1. /\ pc = "start" /\ P!Available(here, Expected["start"])
        /\ com' = [com EXCEPT ![slot] = d] /\ Continue("setup") /\ values' = values
    BY <1>2, <1>6 DEF AcceptStart, Hears
  <2>2. m \in P!Message
    BY <1>2, MessageTypes
  <2>3. d \in P!Communicator /\ d.open = here.open
    BY <1>4, <2>1, <2>2, CommunicatorTypes
  <2> HIDE DEF d
  <2>4. ChangesOnly(slot)
    BY <1>2, <2>1, <2>3, HereChanges
  <2> QED
    BY <1>2, <1>3, <2>1, <2>4, TalkKept DEF PCs, Waiting, Filling
<1>7. ASSUME NEW p, Hears(pc), com' = [com EXCEPT ![slot] = P!Consumed(@)],
             Continue(p), values' \in P!Message \cup {Nothing},
             p \in {"cancel", "done", "last", "evaluated", "wait"},
             first => p = "cancel", p = "wait" => ~Cached
      PROVE  KeptInv'
  <2>1. P!Available(here, Expected[pc]) /\ com' = [com EXCEPT ![slot] = P!Consumed(here)]
    BY <1>2, <1>7 DEF Hears
  <2>2. ChangesOnly(slot)
    BY <1>2, <1>4, <2>1, HereChanges
  <2> QED
    BY <1>2, <1>7, <2>2, TalkKept DEF PCs, Waiting, Filling
<1>8. CASE AcceptReady
  BY <1>2, <1>7, <1>8 DEF AcceptReady, Hears
<1>9. CASE AcceptCalc
  BY <1>2, <1>3, <1>7, <1>9 DEF AcceptCalc, Hears, Filling
<1>10. CASE AcceptDone
  <2>1. pc = "done" /\ Hears(pc) /\ values' = Head(here.out)
    BY <1>10 DEF AcceptDone, Hears
  <2>2. values' \in P!Message
    BY <1>4, <2>1 DEF Hears
  <2> QED
    BY <1>2, <1>3, <1>7, <1>10, <2>1, <2>2 DEF AcceptDone, Filling
<1>11. CASE AcceptLast
  BY <1>2, <1>3, <1>7, <1>11 DEF AcceptLast, Hears, Filling
<1>12. CASE AcceptEnd
  BY <1>2, <1>3, <1>7, <1>12 DEF AcceptEnd, Hears, Filling
<1>13. ASSUME com' = [com EXCEPT ![slot] = P!CancelTimer(@)]
       PROVE  ChangesOnly(slot)
  BY <1>2, <1>13, CommunicatorTypes, HereChanges
<1>14. CASE SetupDone
  <2>1. /\ pc = "cancel" /\ ChangesOnly(slot) /\ values' = values
        /\ Continue(IF Cached THEN "mark" ELSE "eval")
    BY <1>13, <1>14 DEF SetupDone
  <2>2. CASE Cached
    BY <1>2, <1>3, <2>1, <2>2, TalkKept DEF PCs, Waiting, Filling
  <2>3. CASE ~Cached
    BY <1>2, <1>3, <2>1, <2>3, TalkKept DEF PCs, Waiting, Filling
  <2> QED
    BY <2>2, <2>3
<1>15. CASE EvalDone /\ ~Cached
  <2>1. /\ pc = "evaluated" /\ ChangesOnly(slot) /\ values' = values
        /\ Continue("teardown")
    BY <1>13, <1>15 DEF EvalDone
  <2> QED
    BY <1>2, <1>3, <1>15, <2>1, TalkKept DEF PCs, Waiting, Filling
<1>16. ASSUME NEW p, NEW m \in P!Message, NEW q, Writes(p, m, q), ~first,
              q \in {"calc", "exit"}, q = "exit" => ~Cached
       PROVE  KeptInv'
  <2>1. com' = [com EXCEPT ![slot] = P!Written(P!StartTimer(here), m)] /\ Continue(q)
    BY <1>2, <1>16 DEF Writes
  <2>2. ChangesOnly(slot)
    BY <1>2, <1>5, <2>1, HereChanges
  <2> QED
    BY <1>2, <1>16, <2>1, <2>2, TalkKept DEF PCs, Waiting, Filling, Writes
<1>17. CASE Eval
  <2>1. ~first
    BY <1>3, <1>17 DEF Eval, Writes, Filling
  <2>2. [word |-> "EVAL", objs |-> {}, arg |-> call.arg] \in P!Message
    BY <1>2, MessageTypes
  <2> QED
    BY <1>16, <1>17, <2>1, <2>2 DEF Eval
<1>18. CASE Exit
  <2>1. ~first /\ ~Cached
    BY <1>3, <1>18 DEF Exit, Writes, Filling
  <2> QED
    BY <1>16, <1>18, <2>1, MessageTypes DEF Exit, P!Words
<1> QED
  BY <1>6, <1>8, <1>9, <1>10, <1>11, <1>12, <1>14, <1>15, <1>17, <1>18

(* A call that ends where it is, without a change of the cache.             *)
LEMMA ReturnKept ==
  ASSUME KeptInv, Cached, pc # "idle", SameOpen, NEW out \in {"returned", "error"},
         Return(out), values' = values, out = "error" => ~here.open
  PROVE  KeptInv'
<1>1. LivingCorrect' /\ SlotsRight'
  BY SteadyKept
<1>2. call # Nothing /\ slot' = slot /\ slot \in Slots /\ here'.open = here.open
  BY HereTyped, SlotStays DEF SameOpen, here
<1>3. TypeOK'
  BY <1>2 DEF KeptInv, TypeOK, Return, SameOpen, cache, PCs
<1>4. CallRight' /\ HereRight'
  BY <1>2 DEF CallRight, HereRight, ErrorCloses, Return, SameOpen, Holding, Waiting, here
<1> QED
  BY <1>1, <1>3, <1>4 DEF KeptInv

(* In a cached process the call ends with its values, or with an abort, and *)
(* the process stays.                                                       *)
LEMMA CachedEndsKept ==
  ASSUME KeptInv, Cached, EvalDone \/ (HearsAbort /\ ~first)
  PROVE  KeptInv'
<1>1. /\ pc # "idle" /\ pc \in Holding
      /\ Return("returned") /\ UNCHANGED cache /\ values' = values
  BY DEF EvalDone, HearsAbort, Aborted, Holding, Waiting
<1>2. here \in P!Communicator /\ slot \in Slots /\ com[slot] = here
  BY <1>1, HereTyped DEF here
<1>3. ChangesOnly(slot)
  <2>1. CASE EvalDone
    BY <1>1, <1>2, <2>1, CommunicatorTypes, HereChanges DEF EvalDone
  <2>2. CASE HearsAbort /\ ~first
    <3>1. P!Consumed(here) \in P!Communicator /\ P!Consumed(here).open = here.open
      BY <1>2, <2>2, CommunicatorTypes DEF HearsAbort, P!Available
    <3>2. com' = [com EXCEPT ![slot] = P!Consumed(here)]
      BY <1>2, <2>2 DEF HearsAbort, Aborted
    <3> QED
      BY <1>1, <3>1, <3>2, HereChanges
  <2> QED
    BY <2>1, <2>2
<1>4. SameOpen
  BY <1>1, <1>2, <1>3 DEF SameOpen, ChangesOnly, Return
<1> QED
  BY <1>1, <1>4, ReturnKept

(* The entry of a call is looked up, and its process found ready or not.    *)
LEMMA LookupKept ==
  ASSUME KeptInv, Lookup \/ LookupFailed \/ Ready
  PROVE  KeptInv'
<1>1. /\ pc \in {"lookup", "ready"} /\ Cached /\ call \in Calls /\ call # Nothing
      /\ slot \in Slots /\ here = com[slot]
  BY HereTyped DEF KeptInv, CallRight, Lookup, LookupFailed, Ready, here
<1>2. UNCHANGED <<com, call, cache, values>>
  BY DEF Lookup, LookupFailed, Ready, Return
<1>3. SameOpen /\ slot' = slot /\ here' = here /\ Cached'
  BY <1>1, <1>2, SlotStays DEF SameOpen, KeptInv, TypeOK, here, Cached, cache
<1>4. LivingCorrect' /\ SlotsRight'
  BY <1>1, <1>3, SteadyKept
<1>5. CASE Lookup
  <2>1. TypeOK'
    BY <1>2, <1>5 DEF KeptInv, TypeOK, Lookup, cache, PCs
  <2>2. CallRight'
    BY <1>2, <1>3, <1>5 DEF KeptInv, CallRight, Lookup, Filling, cache
  <2>3. HereRight'
    BY <1>2, <1>3, <1>5 DEF KeptInv, HereRight, ErrorCloses, Lookup, cache, Holding, Waiting
  <2> QED
    BY <1>4, <2>1, <2>2, <2>3 DEF KeptInv
<1>6. CASE LookupFailed
  <2>1. ~here.open
    BY <1>1, <1>6 DEF KeptInv, SlotsRight, LookupFailed
  <2> QED
    BY <1>1, <1>2, <1>3, <1>6, <2>1, ReturnKept DEF LookupFailed
<1>7. CASE Ready
  <2>1. TypeOK'
    BY <1>2, <1>7 DEF KeptInv, TypeOK, Ready, cache, PCs
  <2>2. CallRight'
    BY <1>2, <1>3, <1>7 DEF KeptInv, CallRight, Ready, Filling, cache
  <2>3. /\ pc' = "mark" \/ pc' = "spawn"
        /\ here.open <=> pc' = "mark"
        /\ pc = "ready"
    BY <1>7 DEF Ready
  <2>4. HereRight'
    BY <1>1, <1>2, <1>3, <2>3 DEF KeptInv, HereRight, ErrorCloses, cache, Holding, Waiting
  <2> QED
    BY <1>4, <2>1, <2>2, <2>4 DEF KeptInv
<1> QED
  BY <1>5, <1>6, <1>7

(* A new call, of a function that compiles or does not.                     *)
LEMMA RequestKept ==
  ASSUME KeptInv, NEW c \in Calls, Request(c) \/ RequestFails(c)
  PROVE  KeptInv'
<1>1. /\ pc = "idle" /\ UNCHANGED <<com, lives, living, max_proc>> /\ call' = c
      /\ c \in Call /\ c # Nothing /\ c.fn \in Functions
  BY CallsAssumption, NothingAssumption DEF Request, RequestFails, Begin, Call
<1>2. slot' = Slot(c) /\ slot' \in Slots /\ slot'[1] = c.fn
  BY <1>1, SlotOfCall DEF slot, Slot, NameOf
<1>3. LivingCorrect' /\ Cached' = Cached
  BY <1>1 DEF KeptInv, LivingCorrect, Cached, ToSet, IsInjective
<1>4. ~first
  BY <1>1 DEF KeptInv, CallRight, Filling
<1>5. \A k \in Slots : k[1] \in Functions
  BY DEF Slots
<1>6. compiled \in [Functions -> {"none", "compiled", "failed"}]
  BY DEF KeptInv, TypeOK
<1>7. CASE Request(c)
  <2>1. TypeOK'
    BY <1>1, <1>6, <1>7 DEF KeptInv, TypeOK, Request, Begin, PCs
  <2>2. CallRight'
    BY <1>1, <1>3, <1>6, <1>7 DEF CallRight, Request, Begin
  <2>3. ~Cached => ~com'[slot'].open
    BY <1>1, <1>2 DEF KeptInv, SlotsRight
  <2>4. HereRight'
    BY <1>1, <1>3, <1>7, <2>3 DEF HereRight, Request, Begin, ErrorCloses, Holding, Waiting, here
  <2>5. SlotsRight'
    BY <1>1, <1>3, <1>5, <1>6, <1>7 DEF KeptInv, SlotsRight, Request
  <2> QED
    BY <1>3, <2>1, <2>2, <2>4, <2>5 DEF KeptInv
<1>8. CASE RequestFails(c)
  <2>1. TypeOK'
    BY <1>1, <1>6, <1>8 DEF KeptInv, TypeOK, RequestFails, PCs
  <2>2. CallRight'
    BY <1>1, <1>4, <1>8 DEF CallRight, RequestFails
  <2>3. ~com'[slot'].open
    BY <1>1, <1>2, <1>8 DEF KeptInv, SlotsRight, RequestFails
  <2>4. HereRight'
    BY <1>1, <1>8, <2>3 DEF HereRight, RequestFails, ErrorCloses, Holding, Waiting
  <2>5. SlotsRight'
    <3> SUFFICES ASSUME NEW k \in Slots
                 PROVE  /\ com[k].open => compiled'[k[1]] = "compiled"
                        /\ lives[k] = "failed" => ~com[k].open
                        /\ ~Cached => lives[k] = "none" /\ ~com[k].open
      BY <1>1, <1>3 DEF SlotsRight
    <3> QED
      BY <1>1, <1>5, <1>6, <1>8 DEF KeptInv, SlotsRight, RequestFails
  <2> QED
    BY <1>3, <2>1, <2>2, <2>4, <2>5 DEF KeptInv
<1> QED
  BY <1>7, <1>8

(* A process is started for an entry that has none and has not failed.      *)
LEMMA SpawnKept ==
  ASSUME KeptInv, Spawn
  PROVE  KeptInv'
<1>1. /\ pc = "spawn" /\ pc' = "start" /\ UNCHANGED <<call, first, values, outcome>>
      /\ UNCHANGED <<compiled, lives, living, max_proc>>
      /\ com' = [com EXCEPT ![slot] = P!StartTimer(P!Fresh)]
  BY DEF Spawn, cache
<1>2. /\ call \in Calls /\ call # Nothing /\ slot \in Slots /\ slot[1] = call.fn
      /\ slot' = slot /\ Cached' = Cached
  BY <1>1, HereTyped, SlotStays DEF Cached
<1> DEFINE d == P!StartTimer(P!Fresh)
<1>3. d \in P!Communicator /\ d.open
  BY NewCommunicators
<1> HIDE DEF d
<1>4. /\ com' \in [Slots -> P!Communicator] /\ com'[slot].open
      /\ \A k \in Slots \ {slot} : com'[k] = com[k]
  BY <1>1, <1>2, <1>3 DEF KeptInv, TypeOK, d
<1>5. TypeOK'
  BY <1>1, <1>4 DEF KeptInv, TypeOK, PCs, Waiting
<1>6. LivingCorrect'
  <2>1. \A k \in ToSet(living) : k \in Slots
    BY InjectiveElements, ElementOfSeq DEF KeptInv, TypeOK
  <2> QED
    BY <1>1, <1>4, <2>1 DEF KeptInv, LivingCorrect, ToSet, IsInjective
<1>7. CallRight'
  BY <1>1, <1>2 DEF KeptInv, CallRight, Filling
<1>8. HereRight'
  BY <1>1, <1>2, <1>4 DEF KeptInv, HereRight, ErrorCloses, here
<1>9. SlotsRight'
  <2>1. compiled[slot[1]] = "compiled" /\ lives[slot] # "failed"
    BY <1>1, <1>2 DEF KeptInv, CallRight, HereRight, SlotsRight
  <2> QED
    BY <1>1, <1>2, <1>4, <2>1 DEF KeptInv, SlotsRight
<1> QED
  BY <1>5, <1>6, <1>7, <1>8, <1>9 DEF KeptInv

(* Destroying the processes of K closes their communicators and no other.   *)
LEMMA DestroyedRight ==
  ASSUME KeptInv, NEW K, com' = Destroyed(com, K)
  PROVE  /\ com' \in [Slots -> P!Communicator]
         /\ \A k \in Slots : IF k \in K THEN ~com'[k].open ELSE com'[k] = com[k]
         /\ \A k \in Slots : com'[k].open => com[k].open
BY NewCommunicators DEF KeptInv, TypeOK, Destroyed

(* An exception closes the communicator of the call, takes its entry off    *)
(* the list, and marks a new entry as failed.                               *)
LEMMA ThrowKept ==
  ASSUME KeptInv, pc # "idle", pc # "lookup", Throw
  PROVE  KeptInv'
<1>1. /\ call \in Calls /\ call # Nothing /\ slot \in Slots /\ here = com[slot]
      /\ slot' = slot /\ Cached' = Cached
  BY HereTyped, SlotStays DEF Throw, Return, here, Cached
<1>2. /\ pc' = "idle" /\ outcome' = "error" /\ first' = FALSE /\ values' = Nothing
      /\ UNCHANGED <<compiled, max_proc, call>>
  BY DEF Throw, Return
<1>3. /\ com' \in [Slots -> P!Communicator] /\ ~com'[slot].open
      /\ \A k \in Slots : com'[k].open => com[k].open
      /\ \A k \in Slots \ {slot} : com'[k] = com[k]
  BY <1>1, DestroyedRight DEF Throw
<1>4. /\ lives' \in [Slots -> {"none", "live", "failed"}]
      /\ \A k \in Slots : k # slot => lives'[k] = lives[k]
      /\ ~Cached => lives' = lives
  BY <1>1 DEF KeptInv, TypeOK, Throw, CallRight
<1>5. /\ living' \in Seq(Slots) /\ IsInjective(living')
      /\ Len(living') <= Len(living)
      /\ \A k \in ToSet(living') : k \in ToSet(living) /\ k # slot /\ k \in Slots
  <2>1. living \in Seq(Slots) /\ IsInjective(living)
    BY DEF KeptInv, TypeOK, LivingCorrect
  <2>2. \A k \in ToSet(living) : k \in Slots
    BY <2>1, InjectiveElements, ElementOfSeq
  <2>3. CASE Cached /\ here.open
    BY <2>1, <2>2, <2>3, WithoutProperties DEF Throw
  <2>4. CASE ~here.open
    <3>1. slot \notin ToSet(living)
      BY <1>1, <2>4 DEF KeptInv, LivingCorrect
    <3>2. living' = living
      BY <2>4 DEF Throw
    <3> QED
      BY <2>1, <2>2, <3>1, <3>2, LenProperties
  <2>5. CASE ~Cached
    <3>1. Len(living) = 0
      <4>1. max_proc = 0
        BY <2>5, LimitsAssumption DEF Cached, KeptInv, TypeOK
      <4> QED
        BY <2>1, <4>1, LenProperties DEF KeptInv, LivingCorrect
    <3>2. living' = living /\ 1 .. Len(living) = {}
      BY <2>5, <3>1 DEF Throw
    <3>3. ToSet(living) = {}
      BY <2>1, <3>2, InjectiveElements
    <3> QED
      BY <2>1, <3>1, <3>2, <3>3
  <2> QED
    BY <2>3, <2>4, <2>5
<1>6. TypeOK'
  BY <1>1, <1>2, <1>3, <1>4, <1>5 DEF KeptInv, TypeOK, PCs
<1>7. LivingCorrect'
  <2>1. Len(living') <= max_proc'
    <3>1. Len(living') \in Nat /\ Len(living) \in Nat /\ max_proc \in Nat
      BY <1>5, LenProperties, LimitsAssumption DEF KeptInv, TypeOK
    <3> QED
      BY <1>2, <1>5, <3>1 DEF KeptInv, LivingCorrect
  <2>2. ASSUME NEW k \in ToSet(living')
        PROVE  com'[k].open /\ lives'[k] = "live"
    <3>1. k \in ToSet(living) /\ k \in Slots \ {slot}
      BY <1>5
    <3>2. com[k].open /\ lives[k] = "live"
      BY <3>1 DEF KeptInv, LivingCorrect
    <3> QED
      BY <1>3, <1>4, <3>1, <3>2
  <2> QED
    BY <1>5, <2>1, <2>2 DEF LivingCorrect
<1>8. CallRight'
  BY <1>1, <1>2 DEF CallRight
<1>9. HereRight'
  BY <1>1, <1>2, <1>3 DEF HereRight, ErrorCloses, Holding, Waiting
<1>10. SlotsRight'
  <2> SUFFICES ASSUME NEW k \in Slots
               PROVE  /\ com'[k].open => compiled[k[1]] = "compiled"
                      /\ lives'[k] = "failed" => ~com'[k].open
                      /\ ~Cached => lives'[k] = "none" /\ ~com'[k].open
    BY <1>1, <1>2 DEF SlotsRight
  <2>1. /\ com[k].open => compiled[k[1]] = "compiled"
        /\ lives[k] = "failed" => ~com[k].open
        /\ ~Cached => lives[k] = "none" /\ (com[k].open => k = slot)
    BY DEF KeptInv, SlotsRight
  <2>2. com'[k].open => com[k].open /\ k # slot
    BY <1>3
  <2> QED
    BY <1>4, <2>1, <2>2
<1> QED
  BY <1>6, <1>7, <1>8, <1>9, <1>10 DEF KeptInv

(* All the ways in which a call ends with an exception.                     *)
LEMMA FailuresKept ==
  ASSUME KeptInv, SpawnFails \/ CommunicationFails \/ (HearsAbort /\ (first \/ ~Cached))
  PROVE  KeptInv'
<1>1. /\ Throw
      /\ pc \in Waiting \cup {"spawn", "start", "eval", "teardown"}
  BY DEF SpawnFails, CommunicationFails, HearsAbort, Hears
<1> QED
  BY <1>1, ThrowKept DEF Waiting

(* The end of an uncached call.                                             *)
LEMMA WaitForKept ==
  ASSUME KeptInv, WaitFor
  PROVE  KeptInv'
<1>1. /\ pc = "wait" /\ ~Cached
      /\ call \in Calls /\ call # Nothing /\ slot \in Slots
      /\ slot' = slot /\ Cached' = Cached
  BY HereTyped, SlotStays DEF KeptInv, CallRight, WaitFor, Return, Cached, cache
<1>2. /\ pc' = "idle" /\ outcome' \in {"returned", "error"} /\ first' = FALSE
      /\ UNCHANGED <<compiled, lives, living, max_proc, call, values>>
  BY DEF WaitFor, Return, cache
<1>3. /\ com' \in [Slots -> P!Communicator] /\ ~com'[slot].open
      /\ \A k \in Slots : com'[k].open => com[k].open
  BY <1>1, DestroyedRight DEF WaitFor
<1>4. living = << >> /\ max_proc = 0
  <2>1. max_proc = 0
    BY <1>1, LimitsAssumption DEF Cached, KeptInv, TypeOK
  <2> QED
    BY <2>1, LenProperties, EmptySeq DEF KeptInv, LivingCorrect, TypeOK
<1>5. TypeOK'
  BY <1>2, <1>3 DEF KeptInv, TypeOK, PCs
<1>6. LivingCorrect'
  BY <1>2, <1>4 DEF LivingCorrect, ToSet, IsInjective
<1>7. CallRight' /\ HereRight'
  BY <1>1, <1>2, <1>3 DEF CallRight, HereRight, ErrorCloses, Holding, Waiting
<1>8. SlotsRight'
  <2> SUFFICES ASSUME NEW k \in Slots
               PROVE  lives[k] = "none" /\ ~com'[k].open
    BY <1>1, <1>2 DEF SlotsRight
  <2>1. lives[k] = "none" /\ (com[k].open => k = slot)
    BY <1>1 DEF KeptInv, SlotsRight
  <2> QED
    BY <1>3, <2>1
<1> QED
  BY <1>5, <1>6, <1>7, <1>8 DEF KeptInv

(* The end of a step of the compiler empties the list.                      *)
LEMMA EmptiedKept ==
  ASSUME KeptInv, DestroyProcesses \/ TearDown
  PROVE  KeptInv'
<1>1. /\ pc = "idle" /\ living' = << >>
      /\ UNCHANGED <<pc, call, first, values, outcome, max_proc>>
  BY DEF DestroyProcesses, TearDown
<1>2. slot' = slot /\ Cached' = Cached
  BY <1>1, SlotStays DEF Cached
<1>3. /\ com' \in [Slots -> P!Communicator]
      /\ \A k \in Slots : com'[k].open => com[k].open
      /\ TearDown => \A k \in Slots : ~com'[k].open
  BY DestroyedRight DEF DestroyProcesses, TearDown
<1>4. TypeOK'
  BY <1>1, <1>3, EmptySeq DEF KeptInv, TypeOK, DestroyProcesses, TearDown
<1>5. LivingCorrect'
  <2>1. Len(living') = 0 /\ ToSet(living') = {} /\ IsInjective(living') /\ max_proc \in Nat
    BY <1>1, LimitsAssumption DEF ToSet, IsInjective, KeptInv, TypeOK
  <2> QED
    BY <1>1, <2>1 DEF LivingCorrect
<1>6. CallRight'
  BY <1>1, <1>2 DEF KeptInv, CallRight, Filling
<1>7. HereRight'
  <2>1. outcome = "error" => call \in Calls
    BY DEF KeptInv, CallRight, TypeOK
  <2>2. outcome = "error" => ~com'[slot].open
    BY <1>1, <1>3, <2>1, SlotRight DEF KeptInv, HereRight, ErrorCloses
  <2> QED
    BY <1>1, <1>2, <2>2 DEF HereRight, ErrorCloses, Holding, Waiting
<1>8. SlotsRight'
  <2> SUFFICES ASSUME NEW k \in Slots
               PROVE  /\ com'[k].open => compiled'[k[1]] = "compiled"
                      /\ lives'[k] = "failed" => ~com'[k].open
                      /\ ~Cached => lives'[k] = "none" /\ ~com'[k].open
    BY <1>1, <1>2 DEF SlotsRight
  <2>1. CASE DestroyProcesses
    BY <1>1, <1>3, <2>1 DEF KeptInv, SlotsRight, DestroyProcesses
  <2>2. CASE TearDown
    BY <1>3, <2>2 DEF TearDown
  <2> QED
    BY <2>1, <2>2
<1> QED
  BY <1>4, <1>5, <1>6, <1>7, <1>8 DEF KeptInv

(* Processes and timers run beside the cache and leave it as it is.         *)
LEMMA BesideKept ==
  ASSUME KeptInv, Timers \/ Processes
  PROVE  KeptInv'
<1>1. PICK k \in Slots : P!TimerStep(k) \/ P!ProcessStep(k)
  BY DEF Timers, Processes
<1>2. UNCHANGED unmoved
  BY DEF Timers, Processes
<1>3. ChangesOnly(k)
  BY <1>1, TimerEffect, ProcessEffect DEF KeptInv, TypeOK
<1>4. SameOpen
  BY <1>2, <1>3 DEF SameOpen, ChangesOnly, unmoved, cache
<1>5. slot' = slot /\ Cached' = Cached
  BY <1>2, SlotStays DEF unmoved, Cached
<1>6. LivingCorrect' /\ SlotsRight'
  BY <1>2, <1>4, SteadyKept DEF unmoved
<1>7. TypeOK'
  BY <1>2, <1>4 DEF KeptInv, TypeOK, SameOpen, unmoved
<1>8. CallRight'
  BY <1>2, <1>5 DEF KeptInv, CallRight, unmoved
<1>9. call # Nothing => slot \in Slots /\ com'[slot].open = com[slot].open
  BY <1>4, SlotRight DEF KeptInv, TypeOK, SameOpen
<1>10. HereRight'
  BY <1>2, <1>5, <1>9
     DEF KeptInv, CallRight, HereRight, ErrorCloses, unmoved, here, Holding, Waiting
<1> QED
  BY <1>6, <1>7, <1>8, <1>10 DEF KeptInv

(* The entry of the call is the last one of the list, and the one destroyed *)
(* to make room for it is another one.                                      *)
LEMMA MarkKept ==
  ASSUME KeptInv, Mark
  PROVE  KeptInv'
<1> DEFINE rest == Without(living, slot)
           used == Append(rest, slot)
           full == Len(used) > max_proc
<1>1. /\ pc = "mark" /\ Marked(used, full)
      /\ Cached /\ max_proc \in Nat \ {0}
      /\ call \in Calls /\ call # Nothing /\ slot \in Slots
      /\ here.open /\ here = com[slot]
  BY HereTyped, LimitsAssumption
     DEF Mark, Marked, KeptInv, TypeOK, CallRight, HereRight, Cached, Holding, here
<1>2. /\ rest \in Seq(Slots) /\ IsInjective(rest) /\ Len(rest) <= Len(living)
      /\ ToSet(rest) = ToSet(living) \ {slot}
  BY WithoutProperties DEF KeptInv, TypeOK, LivingCorrect
<1>3. /\ used \in Seq(Slots) /\ IsInjective(used) /\ Len(used) = Len(rest) + 1
      /\ ToSet(used) = ToSet(living) \cup {slot}
      /\ Last(used) = slot
  BY <1>1, <1>2, AppendInjectiveList
<1>4. Len(used) \in Nat \ {0} /\ Len(used) <= max_proc + 1
  BY <1>1, <1>2, <1>3, LenProperties DEF KeptInv, TypeOK, LivingCorrect
<1>5. \A k \in ToSet(living) : k \in Slots /\ com[k].open /\ lives[k] = "live"
  BY InjectiveElements, ElementOfSeq DEF KeptInv, TypeOK, LivingCorrect
<1> HIDE DEF rest, used
<1>6. /\ pc' = IF first THEN "ready" ELSE "eval"
      /\ first' = FALSE
      /\ lives' = [lives EXCEPT ![slot] = "live"]
      /\ living' = IF full THEN Tail(used) ELSE used
      /\ com' = IF full THEN Destroyed(com, {Head(used)}) ELSE com
      /\ UNCHANGED <<compiled, call, values, outcome, max_proc>>
  BY <1>1 DEF Marked
<1>7. slot' = slot /\ Cached'
  BY <1>1, <1>6, SlotStays DEF Cached
<1>8. /\ lives' \in [Slots -> {"none", "live", "failed"}]
      /\ lives'[slot] = "live"
      /\ \A k \in Slots \ {slot} : lives'[k] = lives[k]
  BY <1>1, <1>6 DEF KeptInv, TypeOK
<1>9. /\ com' \in [Slots -> P!Communicator]
      /\ com'[slot] = com[slot]
      /\ \A k \in Slots : com'[k].open => com[k].open
      /\ \A k \in ToSet(living') : k \in ToSet(living) \cup {slot} /\ com'[k] = com[k]
      /\ living' \in Seq(Slots) /\ IsInjective(living') /\ living' # << >>
      /\ Len(living') <= max_proc /\ Last(living') = slot
  <2>1. CASE ~full
    <3>1. living' = used /\ com' = com /\ used # << >>
      BY <1>4, <1>6, <2>1, EmptySeq
    <3>2. Len(used) <= max_proc
      BY <1>1, <1>4, <2>1
    <3> QED
      BY <1>3, <3>1, <3>2 DEF KeptInv, TypeOK
  <2>2. CASE full
    <3>1. used # << >> /\ Len(used) >= 2
      BY <1>1, <1>4, <2>2, EmptySeq
    <3>2. /\ Head(used) \in Slots
          /\ Tail(used) \in Seq(Slots) /\ IsInjective(Tail(used))
          /\ ToSet(Tail(used)) = ToSet(used) \ {Head(used)}
          /\ Len(Tail(used)) = Len(used) - 1
      BY <1>3, <3>1, TailInjectiveList
    <3>3. Last(Tail(used)) = slot
      <4>1. Tail(used)[Len(used) - 1] = used[Len(used)]
        BY <1>3, <1>4, <3>1, <3>2, HeadTailProperties
      <4> QED
        BY <1>3, <3>2, <4>1 DEF Last
    <3>4. Head(used) # slot
      <4>1. used[1] # used[Len(used)]
        BY <1>3, <1>4, <3>1, InjectiveElements
      <4> QED
        BY <1>3, <4>1 DEF Last
    <3>5. living' = Tail(used) /\ com' = Destroyed(com, {Head(used)})
      BY <1>6, <2>2
    <3>6. /\ com' \in [Slots -> P!Communicator]
          /\ \A k \in Slots : k # Head(used) => com'[k] = com[k]
          /\ \A k \in Slots : com'[k].open => com[k].open
      BY <3>5, DestroyedRight
    <3>7. Len(Tail(used)) <= max_proc /\ Tail(used) # << >>
      <4>1. max_proc \in Nat
        BY <1>1
      <4>2. Len(Tail(used)) <= max_proc /\ Len(Tail(used)) >= 1
        BY <1>4, <3>1, <3>2, <4>1
      <4>3. Len(<< >>) = 0
        OBVIOUS
      <4> QED
        BY <4>2, <4>3
    <3>8. \A k \in ToSet(living') : k \in ToSet(living) \cup {slot} /\ com'[k] = com[k]
      BY <1>1, <1>3, <1>5, <3>2, <3>5, <3>6
    <3> QED
      BY <1>1, <3>2, <3>3, <3>4, <3>5, <3>6, <3>7, <3>8
  <2> QED
    BY <2>1, <2>2
<1>10. TypeOK'
  <2>1. pc' \in PCs /\ first' \in BOOLEAN
    BY <1>6 DEF PCs
  <2> QED
    BY <1>1, <1>6, <1>8, <1>9, <2>1 DEF KeptInv, TypeOK
<1>11. LivingCorrect'
  <2>1. ASSUME NEW k \in ToSet(living')
        PROVE  com'[k].open /\ lives'[k] = "live"
    BY <1>1, <1>5, <1>8, <1>9, <2>1
  <2> QED
    BY <1>6, <1>9, <2>1 DEF LivingCorrect
<1>12. CallRight'
  BY <1>1, <1>6, <1>7 DEF KeptInv, CallRight
<1>13. HereRight'
  BY <1>1, <1>6, <1>7, <1>8, <1>9 DEF HereRight, ErrorCloses, here
<1>14. SlotsRight'
  <2> SUFFICES ASSUME NEW k \in Slots
               PROVE  /\ com'[k].open => compiled[k[1]] = "compiled"
                      /\ lives'[k] = "failed" => ~com'[k].open
    BY <1>6, <1>7 DEF SlotsRight
  <2>1. /\ com[k].open => compiled[k[1]] = "compiled"
        /\ lives[k] = "failed" => ~com[k].open
    BY DEF KeptInv, SlotsRight
  <2> QED
    BY <1>1, <1>8, <1>9, <2>1
<1> QED
  BY <1>10, <1>11, <1>12, <1>13, <1>14 DEF KeptInv

(***************************************************************************)
(* The invariant of the cache: the processes that are kept are those that   *)
(* may be (KeptRight), however calls, time-outs, crashes and aborts follow  *)
(* one another, and whatever the option allows.                             *)
(***************************************************************************)
THEOREM CacheInvariant == Spec => []KeptInv
<1>1. Init => KeptInv
  BY KeptInit
<1>2. KeptInv /\ [Next]_vars => KeptInv'
  <2> SUFFICES ASSUME KeptInv, [Next]_vars PROVE KeptInv'
    OBVIOUS
  <2>1. CASE \E c \in Calls : Request(c) \/ RequestFails(c)
    BY <2>1, RequestKept
  <2>2. CASE Evaluator
    <3>1. CASE \/ Lookup \/ LookupFailed \/ Ready
      BY <3>1, LookupKept
    <3>2. CASE Spawn
      BY <3>2, SpawnKept
    <3>3. CASE Mark
      BY <3>3, MarkKept
    <3>4. CASE \/ AcceptStart \/ AcceptReady \/ SetupDone \/ Eval \/ AcceptCalc
               \/ AcceptDone \/ AcceptLast \/ Exit \/ AcceptEnd
      BY <3>4, ConversationKept
    <3>5. CASE EvalDone
      BY <3>5, ConversationKept, CachedEndsKept
    <3>6. CASE WaitFor
      BY <3>6, WaitForKept
    <3>7. CASE SpawnFails \/ CommunicationFails
      BY <3>7, FailuresKept
    <3>8. CASE HearsAbort
      BY <3>8, FailuresKept, CachedEndsKept
    <3> QED
      BY <2>2, <3>1, <3>2, <3>3, <3>4, <3>5, <3>6, <3>7, <3>8 DEF Evaluator
  <2>3. CASE DestroyProcesses \/ TearDown
    BY <2>3, EmptiedKept
  <2>4. CASE Timers \/ Processes
    BY <2>4, BesideKept
  <2>5. CASE UNCHANGED vars
    <3>1. slot' = slot /\ Cached' = Cached
      BY <2>5, SlotStays DEF vars, Cached
    <3> QED
      BY <2>5, <3>1 DEF vars, KeptInv, TypeOK, LivingCorrect, CallRight, HereRight,
           SlotsRight, ErrorCloses, here, ToSet, IsInjective
  <2> QED
    BY <2>1, <2>2, <2>3, <2>4, <2>5 DEF Next
<1> QED
  BY <1>1, <1>2, PTL DEF Spec

(* As many processes as the option allows, each once and found by a later   *)
(* call; none for a failed call; the call's own never destroyed to make     *)
(* room; none kept with the cache turned off.                               *)
THEOREM KeepsWhatItMay == Spec => []KeptRight
<1>1. KeptInv => KeptRight
  <2> SUFFICES ASSUME KeptInv PROVE KeptRight
    OBVIOUS
  <2>1. NeverEvictsOwn
    BY DEF KeptInv, HereRight, NeverEvictsOwn, Holding
  <2>2. NothingKept
    BY DEF KeptInv, SlotsRight, NothingKept
  <2> QED
    BY <2>1, <2>2 DEF KeptInv, HereRight, KeptRight
<1> QED
  BY <1>1, CacheInvariant, PTL

--------------------------------------------------------------------------------
(***************************************************************************)
(* The conversation.  What is in the pipes and where the process is, for    *)
(* each place the evaluating thread may be at; a process that crashed or was*)
(* destroyed by its timer leaves the pipes as they were.                    *)
(***************************************************************************)
(* Calls for which the name of a slot is the object of the call, if any.    *)
OneObject == \A c \in Calls : IsFiniteSet(c.objs) /\ Cardinality(c.objs) <= 1

Own(k) == IF k[2] = NoName THEN {} ELSE {k[2]}

Sent(o)        == [word |-> "OBJECTS", objs |-> o, arg |-> Nothing]
Asked(a)       == [word |-> "EVAL", objs |-> {}, arg |-> a]
Answered(o, a) == [word |-> "DONE", objs |-> o, arg |-> a]

At(c, p, i, o) == c.prog \in {p, "crashed"} /\ c.inp = i /\ c.out = o

Idle(c, o) == At(c, "idle", << >>, << >>) /\ c.built = o

(* READY is in the pipe, or about to be.                                    *)
Finishing(c) ==
  \/ At(c, "ready", << >>, << >>)
  \/ At(c, "idle", << >>, <<P!Word("READY")>>)

Quiet(c, o) == Idle(c, o) \/ Finishing(c)

StartTalk(c) ==
  \/ At(c, "boot", << >>, << >>)
  \/ At(c, "setup", << >>, <<P!Word("START")>>)

SetupTalk(c, o) ==
  \/ At(c, "setup", <<Sent(o)>>, << >>)
  \/ c.built = o /\ Finishing(c)
  \/ At(c, "ready", << >>, <<P!Word("ABORT")>>)
  \/ At(c, "idle", << >>, <<P!Word("ABORT"), P!Word("READY")>>)

(* The function has begun, after s was printed.                             *)
Answers(c, o, a, s) ==
  \/ c.built = o /\ c.arg = a /\ At(c, "calc", << >>, s)
  \/ c.built = o /\ At(c, "ready", << >>, Append(s, Answered(o, a)))
  \/ c.built = o /\ At(c, "idle", << >>, Append(Append(s, Answered(o, a)), P!Word("READY")))
  \/ At(c, "ready", << >>, Append(s, P!Word("ABORT")))
  \/ At(c, "idle", << >>, Append(Append(s, P!Word("ABORT")), P!Word("READY")))

(* A process that an abort left with READY to print answers nothing: READY  *)
(* comes first, and the call fails on it.                                   *)
Late(c) == c.out # << >> /\ Head(c.out) = P!Word("READY")

CalcTalk(c, o, a) ==
  \/ Late(c)
  \/ At(c, "ready", <<Asked(a)>>, << >>)
  \/ c.built = o /\ At(c, "idle", <<Asked(a)>>, << >>)
  \/ Answers(c, o, a, <<P!Word("CALC")>>)

Talk(p, c, o, a) ==
  /\ p = "start" => StartTalk(c)
  /\ p = "setup" => SetupTalk(c, o)
  /\ p \in {"cancel", "evaluated"} => Idle(c, o)
  /\ p = "calc" => CalcTalk(c, o, a)
  /\ p = "done" => Answers(c, o, a, << >>)
  /\ p = "last" => c.built = o /\ Finishing(c)

BeforeEval == {"lookup", "ready", "mark", "eval"}

Quietness ==
  \A k \in Slots : com[k].open /\ (k # slot \/ pc \in BeforeEval \cup {"idle"})
                      => Quiet(com[k], Own(k))

(* The values are read in the step to "last", and not before.               *)
ValuesFor(p, v, c) ==
  /\ p \in {"last", "evaluated", "teardown", "exit", "wait"} =>
       v # Nothing /\ v.arg = c.arg /\ v.objs = c.objs
  /\ p \in BeforeEval \cup {"spawn", "start", "setup", "cancel", "calc", "done"} =>
       v = Nothing

ValuesRight == ValuesFor(pc, values, call) /\ RightAnswer

ConvInv ==
  /\ pc # "idle" => Talk(pc, here, call.objs, call.arg)
  /\ Quietness
  /\ ValuesRight

(***************************************************************************)
(* What a step of a process or of a timer does to its communicator.         *)
(***************************************************************************)
Commanded(c, w) == c.inp # << >> /\ Head(c.inp).word = w

(* The program goes from p to q and prints m; s is what it prints after.    *)
Steps(c, d, p, q) ==
  /\ c.prog = p /\ d.prog = q
  /\ d.built = c.built /\ d.arg = c.arg

Moves(c, d) ==
  \/ /\ Steps(c, d, "boot", "setup")
     /\ d.inp = c.inp /\ d.out = Append(c.out, P!Word("START"))
  \/ /\ c.prog = "setup" /\ d.prog = "ready" /\ Commanded(c, "OBJECTS")
     /\ d.built = Head(c.inp).objs /\ d.inp = Tail(c.inp) /\ d.out = c.out
  \/ /\ Steps(c, d, "setup", "ready") /\ Commanded(c, "OBJECTS")
     /\ d.inp = Tail(c.inp) /\ d.out = Append(c.out, P!Word("ABORT"))
  \/ /\ Steps(c, d, "ready", "idle")
     /\ d.inp = c.inp /\ d.out = Append(c.out, P!Word("READY"))
  \/ /\ c.prog = "idle" /\ d.prog = "calc" /\ Commanded(c, "EVAL")
     /\ d.arg = Head(c.inp).arg /\ d.built = c.built
     /\ d.inp = Tail(c.inp) /\ d.out = Append(c.out, P!Word("CALC"))
  \/ /\ Steps(c, d, "calc", "ready")
     /\ d.inp = c.inp /\ d.out = Append(c.out, Answered(c.built, c.arg))
  \/ /\ Steps(c, d, "calc", "ready")
     /\ d.inp = c.inp /\ d.out = Append(c.out, P!Word("ABORT"))
  \/ /\ Steps(c, d, "idle", "ending") /\ Commanded(c, "EXIT")
     /\ d.inp = Tail(c.inp) /\ d.out = c.out
  \/ /\ c.prog \in {"ending", "last"}
     /\ d.inp = c.inp /\ \E m : d.out = Append(c.out, m)
  \/ Steps(c, d, c.prog, "crashed") /\ d.inp = c.inp /\ d.out = c.out
  \/ Steps(c, d, c.prog, c.prog) /\ d.inp = c.inp /\ d.out = c.out

(* A timer's run leaves the pipes alone.                                    *)
LEMMA TimerMoves ==
  ASSUME com \in [Slots -> P!Communicator], NEW k \in Slots, P!TimerStep(k)
  PROVE  Moves(com[k], com'[k])
<1>1. CASE P!TimerFires(k)
  BY <1>1 DEF P!TimerFires, P!Communicator, Moves, Steps
<1>2. CASE P!TimerDestroys(k)
  <2> DEFINE p == IF com[k].prog \in P!Running THEN "crashed" ELSE com[k].prog
  <2>1. com' = [com EXCEPT ![k].firing = FALSE, ![k].cut = TRUE, ![k].prog = p]
    BY <1>2 DEF P!TimerDestroys
  <2>2. p = "crashed" \/ p = com[k].prog
    OBVIOUS
  <2> HIDE DEF p
  <2>3. /\ com'[k].prog = p /\ com'[k].built = com[k].built /\ com'[k].arg = com[k].arg
        /\ com'[k].inp = com[k].inp /\ com'[k].out = com[k].out
    BY <2>1 DEF P!Communicator
  <2> QED
    BY <2>2, <2>3 DEF Moves, Steps
<1> QED
  BY <1>1, <1>2 DEF P!TimerStep

(* The steps of the program, one by one.                                    *)
LEMMA ProcessMoves ==
  ASSUME com \in [Slots -> P!Communicator], NEW k \in Slots, P!ProcessStep(k)
  PROVE  Moves(com[k], com'[k])
<1>1. ASSUME NEW m, NEW p, P!Prints(k, m, p)
      PROVE  /\ com'[k].prog = p /\ com'[k].out = Append(com[k].out, m)
             /\ com'[k].inp = com[k].inp
             /\ com'[k].built = com[k].built /\ com'[k].arg = com[k].arg
  BY <1>1 DEF P!Prints, P!Communicator
<1>2. CASE P!ProcessStart(k)
  BY <1>1, <1>2 DEF P!ProcessStart, Moves, Steps
<1>3. CASE P!ProcessReady(k)
  BY <1>1, <1>3 DEF P!ProcessReady, Moves, Steps
<1>4. CASE P!ProcessDone(k)
  BY <1>1, <1>4 DEF P!ProcessDone, Moves, Steps, Answered
<1>5. CASE P!ProcessCalcAborts(k)
  BY <1>1, <1>5 DEF P!ProcessCalcAborts, Moves, Steps
<1>6. CASE P!ProcessDestructAborts(k) \/ P!ProcessEnd(k)
  BY <1>1, <1>6 DEF P!ProcessDestructAborts, P!ProcessEnd, Moves
<1>7. CASE P!ProcessConstruct(k)
  <2>1. /\ com'[k].built = Head(com[k].inp).objs /\ com'[k].inp = Tail(com[k].inp)
        /\ com'[k].prog = "ready" /\ com'[k].out = com[k].out
    BY <1>7 DEF P!ProcessConstruct, P!Communicator
  <2> QED
    BY <1>7, <2>1 DEF P!ProcessConstruct, P!Command, Commanded, Moves
<1>8. CASE P!ProcessConstructAborts(k)
  <2>1. /\ com'[k].built = com[k].built /\ com'[k].arg = com[k].arg
        /\ com'[k].inp = Tail(com[k].inp)
        /\ com'[k].prog = "ready" /\ com'[k].out = Append(com[k].out, P!Word("ABORT"))
    BY <1>8 DEF P!ProcessConstructAborts, P!Communicator
  <2> QED
    BY <1>8, <2>1 DEF P!ProcessConstructAborts, P!Command, Commanded, Moves, Steps
<1>9. CASE P!ProcessCalc(k)
  <2>1. /\ com'[k].built = com[k].built /\ com'[k].arg = Head(com[k].inp).arg
        /\ com'[k].inp = Tail(com[k].inp)
        /\ com'[k].prog = "calc" /\ com'[k].out = Append(com[k].out, P!Word("CALC"))
    BY <1>9 DEF P!ProcessCalc, P!Communicator
  <2> QED
    BY <1>9, <2>1 DEF P!ProcessCalc, P!Command, Commanded, Moves
<1>10. CASE P!ProcessExit(k)
  BY <1>10 DEF P!ProcessExit, P!Command, P!Communicator, Commanded, Moves, Steps
<1>11. CASE P!ProcessCrash(k)
  BY <1>11 DEF P!ProcessCrash, P!Communicator, Moves, Steps
<1> QED
  BY <1>2, <1>3, <1>4, <1>5, <1>6, <1>7, <1>8, <1>9, <1>10, <1>11 DEF P!ProcessStep

(***************************************************************************)
(* Each part of the conversation stays what it is while the process runs.   *)
(***************************************************************************)
LEMMA Tuples ==
  ASSUME NEW m, NEW n
  PROVE  /\ <<m>> # << >> /\ Head(<<m>>) = m /\ Tail(<<m>>) = << >>
         /\ <<m, n>> # << >> /\ Head(<<m, n>>) = m /\ Tail(<<m, n>>) = <<n>>
         /\ Append(<< >>, m) = <<m>>
         /\ Append(<<m>>, n) = <<m, n>>
         /\ Append(<<m>>, n) # << >> /\ Head(Append(<<m>>, n)) = m
         /\ Tail(Append(<<m>>, n)) = <<n>>
<1>1. /\ <<m>> # << >> /\ Head(<<m>>) = m /\ Tail(<<m>>) = << >>
      /\ <<m, n>> # << >> /\ Head(<<m, n>>) = m /\ Tail(<<m, n>>) = <<n>>
      /\ Append(<< >>, m) = <<m>>
  OBVIOUS
<1>2. Append(<<m>>, n) = <<m, n>>
  <2> DEFINE S == {m, n}
             t == <<m, n>>
  <2>1. <<m>> \in Seq(S) /\ Len(<<m>>) = 1 /\ <<m>>[1] = m /\ n \in S
    OBVIOUS
  <2>2. t \in Seq(S) /\ Len(t) = 2 /\ t[1] = m /\ t[2] = n
    OBVIOUS
  <2>3. /\ Append(<<m>>, n) \in Seq(S) /\ Len(Append(<<m>>, n)) = 2
        /\ Append(<<m>>, n)[1] = m /\ Append(<<m>>, n)[2] = n
    BY <2>1, AppendProperties
  <2> HIDE DEF S, t
  <2>4. \A i \in 1 .. Len(t) : Append(<<m>>, n)[i] = t[i]
    BY <2>2, <2>3
  <2>5. Append(<<m>>, n) = t
    BY <2>2, <2>3, <2>4, SeqEqual
  <2> QED
    BY <2>5 DEF t
<1> QED
  BY <1>1, <1>2

(* What an alphabet of nine words keeps apart.                              *)
LEMMA WordsApart ==
  ASSUME NEW w, NEW v, P!Word(w) = P!Word(v)
  PROVE  w = v
BY DEF P!Word

(* A process that waits for a command, or is gone, does nothing.            *)
LEMMA SilentMoves ==
  ASSUME NEW c, NEW d, Moves(c, d), c.prog = "crashed" \/ c.inp = << >>,
         c.prog \in {"crashed", "idle"}
  PROVE  /\ d.prog \in {c.prog, "crashed"} /\ d.built = c.built /\ d.arg = c.arg
         /\ d.inp = c.inp /\ d.out = c.out
BY DEF Moves, Steps, Commanded

(* A process that waits for a command waits.                                *)
LEMMA IdleStays ==
  ASSUME NEW c, NEW d, NEW o, Moves(c, d), Idle(c, o)
  PROVE  Idle(d, o)
BY SilentMoves DEF Idle, At

(* READY is printed once.                                                   *)
LEMMA FinishingStays ==
  ASSUME NEW c, NEW d, Moves(c, d), Finishing(c)
  PROVE  Finishing(d) /\ d.built = c.built
<1>1. CASE c.prog = "ready"
  BY <1>1, Tuples DEF Finishing, At, Moves, Steps, Commanded
<1>2. CASE c.prog \in {"crashed", "idle"}
  BY <1>2, SilentMoves DEF Finishing, At
<1> QED
  BY <1>1, <1>2 DEF Finishing, At

(* The process prints START and waits for the objects.                      *)
LEMMA StartTalkStays ==
  ASSUME NEW c, NEW d, Moves(c, d), StartTalk(c)
  PROVE  StartTalk(d)
BY Tuples DEF StartTalk, At, Moves, Steps, Commanded

(* The objects are constructed, or their construction aborts; then READY.   *)
LEMMA SetupTalkStays ==
  ASSUME NEW c, NEW d, NEW o, Moves(c, d), SetupTalk(c, o)
  PROVE  SetupTalk(d, o)
<1>1. CASE At(c, "setup", <<Sent(o)>>, << >>)
  BY <1>1, Tuples DEF At, SetupTalk, Finishing, Moves, Steps, Commanded, Sent
<1>2. CASE c.built = o /\ Finishing(c)
  BY <1>2, FinishingStays DEF SetupTalk
<1>3. CASE At(c, "ready", << >>, <<P!Word("ABORT")>>)
  BY <1>3, Tuples DEF At, SetupTalk, Moves, Steps, Commanded
<1>4. CASE At(c, "idle", << >>, <<P!Word("ABORT"), P!Word("READY")>>)
  BY <1>4, SilentMoves DEF At, SetupTalk
<1> QED
  BY <1>1, <1>2, <1>3, <1>4 DEF SetupTalk

(* The function returns, aborts or crashes; then READY.                     *)
LEMMA AnswersStay ==
  ASSUME NEW c, NEW d, NEW o, NEW a, NEW s, Moves(c, d), Answers(c, o, a, s)
  PROVE  Answers(d, o, a, s)
<1>1. CASE c.prog = "calc"
  BY <1>1 DEF Answers, At, Moves, Steps, Commanded
<1>2. CASE c.prog = "ready"
  BY <1>2 DEF Answers, At, Moves, Steps, Commanded
<1>3. CASE c.prog \in {"crashed", "idle"}
  BY <1>3, SilentMoves DEF Answers, At
<1> QED
  BY <1>1, <1>2, <1>3 DEF Answers, At

(* What comes first in the pipe stays first.                                *)
LEMMA LateStays ==
  ASSUME NEW c \in P!Communicator, NEW d, Moves(c, d), Late(c)
  PROVE  Late(d)
<1>1. c.out \in Seq(P!Message) /\ c.out # << >>
  BY DEF P!Communicator, Late
<1>2. \A m : Append(c.out, m) # << >> /\ Head(Append(c.out, m)) = Head(c.out)
  BY <1>1
<1>3. d.out = c.out \/ \E m : d.out = Append(c.out, m)
  BY DEF Moves
<1> QED
  BY <1>2, <1>3 DEF Late

(* The process begins the function, or prints READY of an aborted call.     *)
LEMMA CalcTalkStays ==
  ASSUME NEW c \in P!Communicator, NEW d, NEW o, NEW a, Moves(c, d), CalcTalk(c, o, a)
  PROVE  CalcTalk(d, o, a)
<1>1. CASE Late(c)
  BY <1>1, LateStays DEF CalcTalk
<1>2. CASE At(c, "ready", <<Asked(a)>>, << >>)
  <2>1. \/ At(d, "ready", <<Asked(a)>>, << >>)
        \/ d.out = Append(<< >>, P!Word("READY"))
    BY <1>2 DEF At, Moves, Steps, Commanded
  <2>2. d.out = Append(<< >>, P!Word("READY")) => Late(d)
    BY Tuples DEF Late
  <2> QED
    BY <2>1, <2>2 DEF CalcTalk
<1>3. CASE c.built = o /\ At(c, "idle", <<Asked(a)>>, << >>)
  BY <1>3, Tuples DEF At, CalcTalk, Answers, Moves, Steps, Commanded, Asked
<1>4. CASE Answers(c, o, a, <<P!Word("CALC")>>)
  BY <1>4, AnswersStay DEF CalcTalk
<1> QED
  BY <1>1, <1>2, <1>3, <1>4 DEF CalcTalk

--------------------------------------------------------------------------------
(***************************************************************************)
(* The steps of the conversation.                                           *)
(***************************************************************************)
LEMMA OwnObject ==
  ASSUME OneObject, NEW c \in Calls
  PROVE  Own(Slot(c)) = c.objs
<1>1. c \in Call /\ IsFiniteSet(c.objs) /\ Cardinality(c.objs) <= 1
  BY CallsAssumption DEF OneObject
<1>2. c.objs \in SUBSET Objects /\ Slot(c)[2] = NameOf(c)
  BY <1>1 DEF Call, Slot
<1>3. CASE Cardinality(c.objs) = 1
  <2>1. PICK o : c.objs = {o}
    BY <1>1, <1>3, FS_Singleton
  <2>2. NameOf(c) = o /\ o # NoName
    BY <1>2, <1>3, <2>1, NamesAssumption DEF NameOf
  <2> QED
    BY <1>2, <2>1, <2>2 DEF Own
<1>4. CASE Cardinality(c.objs) # 1
  <2>1. c.objs = {}
    BY <1>1, <1>4, FS_CardinalityType, FS_EmptySet
  <2> QED
    BY <1>2, <1>4, <2>1 DEF Own, NameOf
<1> QED
  BY <1>3, <1>4

(* Before the first call there is nothing in any pipe.                      *)
LEMMA ConvInit == Init => ConvInv
BY NewCommunicators DEF Init, ConvInv, Quietness, ValuesRight, ValuesFor, RightAnswer, BeforeEval

(* The call goes on to p, with d as its communicator.                       *)
LEMMA TalkGoesOn ==
  ASSUME KeptInv, ConvInv, pc # "idle",
         NEW d, com' = [com EXCEPT ![slot] = d],
         NEW p, pc' = p, p # "idle", UNCHANGED <<call, outcome>>,
         Talk(p, d, call.objs, call.arg),
         p \in BeforeEval => Quiet(d, Own(slot)),
         ValuesFor(p, values', call)
  PROVE  ConvInv'
<1>1. /\ call \in Calls /\ slot \in Slots /\ slot' = slot
      /\ outcome = "none"
  BY HereTyped, SlotStays DEF KeptInv, CallRight
<1>2. /\ here' = d
      /\ com'[slot] = d
      /\ \A k \in Slots \ {slot} : com'[k] = com[k]
  BY <1>1 DEF KeptInv, TypeOK, here
<1>3. Talk(pc', here', call'.objs, call'.arg)
  BY <1>2
<1>4. Quietness'
  BY <1>1, <1>2 DEF ConvInv, Quietness
<1>5. ValuesRight'
  BY <1>1 DEF ValuesRight, RightAnswer
<1> QED
  BY <1>3, <1>4, <1>5 DEF ConvInv

(* The call ends; what it leaves is quiet.                                  *)
LEMMA TalkEnds ==
  ASSUME KeptInv, ConvInv, pc # "idle", NEW out, Return(out),
         \A k \in Slots \ {slot} : com'[k].open => com'[k] = com[k],
         com'[slot].open => Quiet(com'[slot], Own(slot)),
         out = "returned" =>
           IF values' = Nothing THEN Cached' ELSE values'.arg = call.arg /\ values'.objs = call.objs
  PROVE  ConvInv'
<1>1. slot \in Slots /\ slot' = slot /\ pc' = "idle" /\ call' = call /\ outcome' = out
  BY HereTyped, SlotStays DEF Return
<1>2. Quietness'
  <2> SUFFICES ASSUME NEW k \in Slots, com'[k].open
               PROVE  Quiet(com'[k], Own(k))
    BY <1>1 DEF Quietness
  <2>1. CASE k = slot
    BY <2>1
  <2>2. CASE k # slot
    BY <2>2 DEF ConvInv, Quietness
  <2> QED
    BY <2>1, <2>2
<1>3. ValuesRight'
  BY <1>1 DEF ValuesRight, ValuesFor, RightAnswer, BeforeEval
<1> QED
  BY <1>1, <1>2, <1>3 DEF ConvInv

(* Whatever processes and timers do, the conversation stays one of those.   *)
LEMMA BesideConv ==
  ASSUME KeptInv, ConvInv, Timers \/ Processes
  PROVE  ConvInv'
<1>1. PICK k \in Slots : P!TimerStep(k) \/ P!ProcessStep(k)
  BY DEF Timers, Processes
<1>2. UNCHANGED <<pc, call, values, outcome, max_proc>> /\ slot' = slot /\ Cached' = Cached
  BY SlotStays DEF Timers, Processes, unmoved, Cached
<1>3. /\ ChangesOnly(k) /\ Moves(com[k], com'[k]) /\ com[k] \in P!Communicator
  BY <1>1, TimerEffect, ProcessEffect, TimerMoves, ProcessMoves DEF KeptInv, TypeOK
<1>4. pc # "idle" => Talk(pc, here', call.objs, call.arg)
  <2> SUFFICES ASSUME pc # "idle" PROVE Talk(pc, here', call.objs, call.arg)
    OBVIOUS
  <2>1. slot \in Slots /\ here = com[slot] /\ here' = com'[slot]
    BY <1>2, HereTyped DEF here
  <2>2. Talk(pc, here, call.objs, call.arg)
    BY DEF ConvInv
  <2>3. CASE slot # k
    BY <1>3, <2>1, <2>2, <2>3 DEF ChangesOnly
  <2>4. CASE slot = k
    BY <1>3, <2>1, <2>2, <2>4, IdleStays, FinishingStays, StartTalkStays, SetupTalkStays,
       AnswersStay, CalcTalkStays DEF Talk
  <2> QED
    BY <2>3, <2>4
<1>5. Quietness'
  <2> SUFFICES ASSUME NEW j \in Slots, com'[j].open,
                      j # slot \/ pc \in BeforeEval \cup {"idle"}
               PROVE  Quiet(com'[j], Own(j))
    BY <1>2 DEF Quietness
  <2>1. Quiet(com[j], Own(j))
    BY <1>3 DEF ConvInv, Quietness, ChangesOnly
  <2>2. CASE j # k
    BY <1>3, <2>1, <2>2 DEF ChangesOnly
  <2>3. CASE j = k
    BY <1>3, <2>1, <2>3, IdleStays, FinishingStays DEF Quiet
  <2> QED
    BY <2>2, <2>3
<1>6. ValuesRight'
  BY <1>2 DEF ConvInv, ValuesRight, RightAnswer
<1> QED
  BY <1>2, <1>4, <1>5, <1>6 DEF ConvInv

(* A new call finds every process quiet.                                    *)
LEMMA RequestConv ==
  ASSUME KeptInv, ConvInv, NEW c \in Calls, Request(c) \/ RequestFails(c)
  PROVE  ConvInv'
<1>1. /\ pc = "idle" /\ com' = com /\ call' = c /\ values' = Nothing
      /\ max_proc' = max_proc
      /\ \/ pc' \in {"lookup", "spawn"} /\ outcome' = "none"
         \/ pc' = "idle" /\ outcome' = "error"
  BY DEF Request, RequestFails, Begin
<1>2. \A k \in Slots : com'[k].open => Quiet(com'[k], Own(k))
  BY <1>1 DEF ConvInv, Quietness
<1>3. Quietness'
  BY <1>2 DEF Quietness
<1>4. ValuesRight'
  BY <1>1 DEF ValuesRight, ValuesFor, RightAnswer, BeforeEval
<1> QED
  BY <1>1, <1>3, <1>4 DEF ConvInv, Talk

(* Looking up the entry says nothing to its process.                        *)
LEMMA LookupConv ==
  ASSUME KeptInv, ConvInv, Lookup \/ LookupFailed \/ Ready
  PROVE  ConvInv'
<1>1. /\ pc \in {"lookup", "ready"} /\ UNCHANGED <<com, call, values, max_proc>>
      /\ \/ pc' \in {"ready", "mark", "spawn"} /\ outcome' = outcome
         \/ pc' = "idle" /\ outcome' = "error"
  BY DEF Lookup, LookupFailed, Ready, Return, cache
<1>2. slot' = slot
  BY <1>1, SlotStays
<1>3. Quietness'
  BY <1>1, <1>2 DEF ConvInv, Quietness, BeforeEval
<1>4. ValuesRight'
  <2>1. values = Nothing /\ outcome = "none"
    BY <1>1 DEF KeptInv, CallRight, ConvInv, ValuesRight, ValuesFor, BeforeEval
  <2> QED
    BY <1>1, <2>1 DEF ValuesRight, ValuesFor, RightAnswer, BeforeEval
<1> QED
  BY <1>1, <1>3, <1>4 DEF ConvInv, Talk

(* A process that has just been started has said nothing.                   *)
LEMMA SpawnConv ==
  ASSUME KeptInv, ConvInv, Spawn
  PROVE  ConvInv'
<1> DEFINE d == P!StartTimer(P!Fresh)
<1>1. d.prog = "boot" /\ d.inp = << >> /\ d.out = << >>
  BY DEF P!StartTimer, P!Fresh, P!Closed
<1>2. Talk("start", d, call.objs, call.arg)
  BY <1>1 DEF Talk, StartTalk, At
<1>3. ValuesFor("start", values', call)
  BY DEF Spawn, ConvInv, ValuesRight, ValuesFor, BeforeEval
<1>4. /\ pc = "spawn" /\ pc' = "start" /\ UNCHANGED <<call, outcome>>
      /\ com' = [com EXCEPT ![slot] = d]
  BY DEF Spawn
<1> HIDE DEF d
<1> QED
  BY <1>2, <1>3, <1>4, TalkGoesOn DEF BeforeEval

(* Making room closes a communicator and says nothing to the others.        *)
LEMMA MarkConv ==
  ASSUME KeptInv, ConvInv, Mark
  PROVE  ConvInv'
<1>1. PICK used, full : Marked(used, full)
  BY DEF Mark
<1>2. /\ pc = "mark" /\ pc' \in {"ready", "eval"} /\ UNCHANGED <<call, values, outcome, max_proc>>
      /\ slot' = slot
  BY <1>1, SlotStays DEF Marked
<1>3. \A k \in Slots : com'[k].open => com'[k] = com[k]
  BY <1>1, DestroyedRight DEF Marked
<1>4. Quietness'
  BY <1>2, <1>3 DEF ConvInv, Quietness, BeforeEval
<1>5. ValuesRight'
  BY <1>2 DEF KeptInv, CallRight, ConvInv, ValuesRight, ValuesFor, RightAnswer, BeforeEval
<1> QED
  BY <1>2, <1>4, <1>5 DEF ConvInv, Talk

(* After an exception there is no conversation to go on with.               *)
LEMMA ThrowConv ==
  ASSUME KeptInv, ConvInv, pc # "idle", Throw
  PROVE  ConvInv'
<1>1. \A k \in Slots : IF k = slot THEN ~com'[k].open ELSE com'[k] = com[k]
  BY DestroyedRight DEF Throw
<1>2. Return("error") /\ slot \in Slots
  BY HereTyped DEF Throw
<1> QED
  BY <1>1, <1>2, TalkEnds

(* An uncached call returns the values it has read.                         *)
LEMMA WaitForConv ==
  ASSUME KeptInv, ConvInv, WaitFor
  PROVE  ConvInv'
<1>1. \A k \in Slots : IF k = slot THEN ~com'[k].open ELSE com'[k] = com[k]
  BY DestroyedRight DEF WaitFor
<1>2. /\ pc = "wait" /\ pc # "idle" /\ slot \in Slots /\ values' = values
      /\ values # Nothing /\ values.arg = call.arg /\ values.objs = call.objs
  BY HereTyped DEF WaitFor, ConvInv, ValuesRight, ValuesFor
<1> DEFINE out == IF here.prog = "exited" THEN "returned" ELSE "error"
<1>3. Return(out)
  BY DEF WaitFor
<1> HIDE DEF out
<1> QED
  BY <1>1, <1>2, <1>3, TalkEnds

(* Processes that are destroyed say no more.                                *)
LEMMA EmptiedConv ==
  ASSUME KeptInv, ConvInv, DestroyProcesses \/ TearDown
  PROVE  ConvInv'
<1>1. /\ pc = "idle" /\ UNCHANGED <<pc, call, values, outcome, max_proc>> /\ Cached' = Cached
  BY DEF DestroyProcesses, TearDown, Cached
<1>2. \A k \in Slots : com'[k].open => com'[k] = com[k]
  BY DestroyedRight DEF DestroyProcesses, TearDown
<1>3. Quietness'
  BY <1>1, <1>2 DEF ConvInv, Quietness
<1>4. ValuesRight'
  BY <1>1 DEF ConvInv, ValuesRight, RightAnswer
<1> QED
  BY <1>1, <1>3, <1>4 DEF ConvInv

(* The callers move no more than the pipes and the timer.                   *)
LEMMA CallersFields ==
  ASSUME NEW c \in P!Communicator
  PROVE  /\ \A d \in {P!StartTimer(c), P!CancelTimer(c)} :
              /\ d.prog = c.prog /\ d.built = c.built /\ d.arg = c.arg
              /\ d.inp = c.inp /\ d.out = c.out
         /\ \A m : LET d == P!Written(c, m)
                  IN /\ d.prog = c.prog /\ d.built = c.built /\ d.arg = c.arg
                     /\ d.inp = Append(c.inp, m) /\ d.out = c.out
         /\ LET d == P!Consumed(c)
            IN /\ d.prog = c.prog /\ d.built = c.built /\ d.arg = c.arg
               /\ d.inp = c.inp /\ d.out = Tail(c.out)
BY DEF P!StartTimer, P!CancelTimer, P!Written, P!Consumed, P!Communicator

(* The compiler hears START and sends the objects.                          *)
LEMMA SayStart ==
  ASSUME NEW c \in P!Communicator, StartTalk(c), P!Available(c, "START"), NEW o, NEW d,
         d.prog = c.prog, d.inp = Append(c.inp, Sent(o)), d.out = Tail(c.out)
  PROVE  SetupTalk(d, o)
BY Tuples DEF StartTalk, SetupTalk, At, P!Available

(* The compiler hears READY after the objects were constructed.             *)
LEMMA SayReady ==
  ASSUME NEW c \in P!Communicator, NEW o, SetupTalk(c, o), P!Available(c, "READY"),
         NEW d, d.prog = c.prog, d.inp = c.inp, d.out = Tail(c.out), d.built = c.built
  PROVE  Idle(d, o)
<1>1. c.out # << >> /\ Head(c.out).word = "READY" /\ P!Word("ABORT").word = "ABORT"
  BY DEF P!Available, P!Word
<1>2. ~At(c, "setup", <<Sent(o)>>, << >>) /\ ~At(c, "ready", << >>, << >>)
  BY <1>1 DEF At
<1>3. ~At(c, "ready", << >>, <<P!Word("ABORT")>>)
  BY <1>1, Tuples DEF At
<1>4. ~At(c, "idle", << >>, <<P!Word("ABORT"), P!Word("READY")>>)
  BY <1>1, Tuples DEF At
<1>5. c.built = o /\ At(c, "idle", << >>, <<P!Word("READY")>>)
  BY <1>2, <1>3, <1>4 DEF SetupTalk, Finishing
<1> QED
  BY <1>5, Tuples DEF Idle, At

(* The compiler hears READY after the values.                               *)
LEMMA SayLast ==
  ASSUME NEW c \in P!Communicator, NEW o, c.built = o, Finishing(c), c.out # << >>,
         NEW d, d.prog = c.prog, d.inp = c.inp, d.out = Tail(c.out), d.built = c.built
  PROVE  Idle(d, o)
BY Tuples DEF Finishing, Idle, At

(* EVAL is sent to a process that is quiet.                                 *)
LEMMA SayEval ==
  ASSUME NEW c \in P!Communicator, NEW o, NEW a, Quiet(c, o), P!CanWrite(c),
         NEW d, d.prog = c.prog, d.inp = Append(c.inp, Asked(a)), d.out = c.out,
         d.built = c.built
  PROVE  CalcTalk(d, o, a)
<1>1. c.prog # "crashed"
  BY DEF P!CanWrite, P!IsRunning, P!Running
<1>2. CASE Idle(c, o)
  BY <1>2, Tuples DEF Idle, At, CalcTalk
<1>3. CASE At(c, "ready", << >>, << >>)
  BY <1>3, Tuples DEF At, CalcTalk
<1>4. CASE At(c, "idle", << >>, <<P!Word("READY")>>)
  BY <1>4, Tuples DEF At, CalcTalk, Late
<1> QED
  BY <1>2, <1>3, <1>4 DEF Quiet, Finishing

(* After CALC comes DONE, with the values, or ABORT; READY follows.         *)
LEMMA AnswersHead ==
  ASSUME NEW c, NEW o, NEW a, Answers(c, o, a, << >>), c.out # << >>
  PROVE  \/ /\ Head(c.out) = Answered(o, a) /\ c.built = o
            /\ \/ At(c, "ready", << >>, <<Answered(o, a)>>)
               \/ At(c, "idle", << >>, <<Answered(o, a), P!Word("READY")>>)
         \/ /\ Head(c.out) = P!Word("ABORT")
            /\ \/ At(c, "ready", << >>, <<P!Word("ABORT")>>)
               \/ At(c, "idle", << >>, <<P!Word("ABORT"), P!Word("READY")>>)
BY Tuples DEF Answers, At

(* The compiler hears CALC: no READY of an aborted call came before it.     *)
LEMMA SayCalc ==
  ASSUME NEW c \in P!Communicator, NEW o, NEW a, CalcTalk(c, o, a), P!Available(c, "CALC"),
         NEW d, d.prog = c.prog, d.inp = c.inp, d.out = Tail(c.out), d.built = c.built,
         d.arg = c.arg
  PROVE  Answers(d, o, a, << >>)
<1> DEFINE s == <<P!Word("CALC")>>
<1>1. ~Late(c) /\ c.out # << >>
  BY DEF Late, P!Available, P!Word
<1>2. Answers(c, o, a, s)
  BY <1>1 DEF CalcTalk, At
<1>3. /\ Tail(s) = << >>
      /\ \A m : Tail(Append(s, m)) = Append(<< >>, m)
      /\ \A m, n : Tail(Append(Append(s, m), n)) = Append(Append(<< >>, m), n)
  <2>1. ASSUME NEW m
        PROVE  Tail(Append(s, m)) = Append(<< >>, m)
    <3>1. Append(<< >>, m) = <<m>>
      BY Tuples
    <3>2. Tail(Append(<<P!Word("CALC")>>, m)) = <<m>>
      BY Tuples
    <3> QED
      BY <3>1, <3>2
  <2>2. ASSUME NEW m, NEW n
        PROVE  Tail(Append(Append(s, m), n)) = Append(Append(<< >>, m), n)
    <3> DEFINE S == {P!Word("CALC"), m}
    <3>1. s \in Seq(S) /\ m \in S
      OBVIOUS
    <3>2. Append(s, m) \in Seq(S) /\ Append(s, m) # << >>
      BY <3>1, AppendProperties
    <3> HIDE DEF S
    <3> QED
      BY <2>1, <3>2, HeadTailAppend
  <2> QED
    BY <2>1, <2>2, Tuples
<1> HIDE DEF s
<1> QED
  BY <1>2, <1>3 DEF Answers, At

(* An abort is heard with nothing but READY to come.                        *)
LEMMA SayAbort ==
  ASSUME NEW c \in P!Communicator, NEW o, NEW a, NEW p \in Waiting \ {"exit"},
         Talk(p, c, o, a), P!Available(c, "ABORT"),
         NEW d, d.prog = c.prog, d.inp = c.inp, d.out = Tail(c.out)
  PROVE  Finishing(d) /\ p \in {"setup", "done"}
<1>1. c.out # << >> /\ Head(c.out).word = "ABORT" /\ \A w : P!Word(w).word = w
  BY DEF P!Available, P!Word
<1>2. CASE p = "start"
  BY <1>1, <1>2, Tuples DEF Talk, StartTalk, At
<1>3. CASE p = "setup"
  <2>1. \/ At(c, "ready", << >>, <<P!Word("ABORT")>>)
        \/ At(c, "idle", << >>, <<P!Word("ABORT"), P!Word("READY")>>)
    <3>1. Head(<<P!Word("READY")>>) # Head(c.out)
      BY <1>1, Tuples
    <3>2. ~At(c, "setup", <<Sent(o)>>, << >>) /\ ~Finishing(c)
      BY <1>1, <3>1 DEF At, Finishing
    <3> QED
      BY <1>3, <3>2 DEF Talk, SetupTalk
  <2>2. CASE At(c, "ready", << >>, <<P!Word("ABORT")>>)
    BY <1>3, <2>2, Tuples DEF Finishing, At
  <2>3. CASE At(c, "idle", << >>, <<P!Word("ABORT"), P!Word("READY")>>)
    BY <1>3, <2>3, Tuples DEF Finishing, At
  <2> QED
    BY <2>1, <2>2, <2>3
<1>4. CASE p = "calc"
  <2>1. Answers(c, o, a, <<P!Word("CALC")>>)
    BY <1>1, <1>4 DEF Talk, CalcTalk, Late, At
  <2>2. Head(c.out) = P!Word("CALC")
    <3>1. ASSUME NEW m, NEW n
          PROVE  Head(Append(Append(<<P!Word("CALC")>>, m), n)) = P!Word("CALC")
      <4> DEFINE S == {P!Word("CALC"), m}
      <4>1. <<P!Word("CALC")>> \in Seq(S) /\ m \in S
        OBVIOUS
      <4>2. Append(<<P!Word("CALC")>>, m) \in Seq(S) /\ Append(<<P!Word("CALC")>>, m) # << >>
        BY <4>1, AppendProperties
      <4> HIDE DEF S
      <4> QED
        BY <4>2, HeadTailAppend, Tuples
    <3> QED
      BY <2>1, <3>1, Tuples DEF Answers, At
  <2> QED
    BY <1>1, <2>2
<1>5. CASE p = "done"
  <2>1. Answers(c, o, a, << >>)
    BY <1>5 DEF Talk
  <2>2. Answered(o, a).word = "DONE"
    BY DEF Answered
  <2>3. \/ At(c, "ready", << >>, <<P!Word("ABORT")>>)
        \/ At(c, "idle", << >>, <<P!Word("ABORT"), P!Word("READY")>>)
    BY <1>1, <2>1, <2>2, AnswersHead
  <2>4. CASE At(c, "ready", << >>, <<P!Word("ABORT")>>)
    BY <1>5, <2>4, Tuples DEF Finishing, At
  <2>5. CASE At(c, "idle", << >>, <<P!Word("ABORT"), P!Word("READY")>>)
    BY <1>5, <2>5, Tuples DEF Finishing, At
  <2> QED
    BY <2>3, <2>4, <2>5
<1>6. CASE p = "last"
  BY <1>1, <1>6, Tuples DEF Talk, Finishing, At
<1> QED
  BY <1>2, <1>3, <1>4, <1>5, <1>6 DEF Waiting

(* Every step of the conversation of a call leads to the next part of it.   *)
LEMMA ConversationConv ==
  ASSUME OneObject, KeptInv, ConvInv,
         \/ AcceptStart \/ AcceptReady \/ SetupDone \/ Eval \/ AcceptCalc \/ AcceptDone
         \/ AcceptLast \/ Exit \/ AcceptEnd \/ (EvalDone /\ ~Cached)
  PROVE  ConvInv'
<1> DEFINE o == call.objs
           a == call.arg
<1>1. pc \in Holding /\ pc # "idle"
  BY DEF AcceptStart, AcceptReady, SetupDone, Eval, AcceptCalc, AcceptDone, AcceptLast,
         Exit, AcceptEnd, EvalDone, Hears, Writes, Holding, Waiting
<1>2. /\ call \in Calls /\ slot \in Slots /\ here \in P!Communicator /\ here.open
      /\ com[slot] = here
  BY <1>1, HereTyped DEF KeptInv, HereRight, here
<1>3. Talk(pc, here, o, a) /\ ValuesFor(pc, values, call) /\ Own(slot) = o
  BY <1>1, <1>2, OwnObject DEF ConvInv, ValuesRight, slot
<1> HIDE DEF o, a
<1>4. ASSUME NEW d, NEW p, com' = [com EXCEPT ![slot] = d], Continue(p), p # "idle",
             Talk(p, d, o, a), p \in BeforeEval => Quiet(d, o), ValuesFor(p, values', call)
      PROVE  ConvInv'
  BY <1>1, <1>3, <1>4, TalkGoesOn DEF Continue, o, a
<1>5. LET d == P!Consumed(here)
      IN /\ d.prog = here.prog /\ d.built = here.built /\ d.arg = here.arg
         /\ d.inp = here.inp /\ d.out = Tail(here.out)
  BY <1>2, CallersFields
<1>6. LET d == P!CancelTimer(here)
      IN /\ d.prog = here.prog /\ d.built = here.built
         /\ d.inp = here.inp /\ d.out = here.out
  BY <1>2, CallersFields
<1>7. CASE AcceptStart
  <2> DEFINE d == P!Written(P!Consumed(here), Sent(o))
  <2>1. /\ pc = "start" /\ P!Available(here, "START") /\ values' = values
        /\ com' = [com EXCEPT ![slot] = d] /\ Continue("setup")
    BY <1>2, <1>7 DEF AcceptStart, Hears, Expected, Waiting, Sent, o
  <2>2. P!Consumed(here) \in P!Communicator
    BY <1>2, <2>1, CommunicatorTypes DEF P!Available
  <2>3. d.prog = here.prog /\ d.inp = Append(here.inp, Sent(o)) /\ d.out = Tail(here.out)
    BY <1>5, <2>2, CallersFields
  <2> HIDE DEF d
  <2>4. SetupTalk(d, o)
    BY <1>2, <1>3, <2>1, <2>3, SayStart DEF Talk
  <2>5. ValuesFor("setup", values', call)
    BY <1>3, <2>1 DEF ValuesFor
  <2> QED
    BY <1>4, <2>1, <2>4, <2>5 DEF Talk, BeforeEval
<1>8. CASE AcceptReady
  <2> DEFINE d == P!Consumed(here)
  <2>1. /\ pc = "setup" /\ P!Available(here, "READY") /\ values' = values
        /\ com' = [com EXCEPT ![slot] = d] /\ Continue("cancel")
    BY <1>2, <1>8 DEF AcceptReady, Hears, Expected, Waiting
  <2>2. Idle(d, o)
    BY <1>2, <1>3, <1>5, <2>1, SayReady DEF Talk
  <2>3. ValuesFor("cancel", values', call)
    BY <1>3, <2>1 DEF ValuesFor
  <2> HIDE DEF d
  <2> QED
    BY <1>4, <2>1, <2>2, <2>3 DEF Talk, BeforeEval
<1>9. CASE SetupDone
  <2> DEFINE d == P!CancelTimer(here)
             p == IF Cached THEN "mark" ELSE "eval"
  <2>1. /\ pc = "cancel" /\ values' = values
        /\ com' = [com EXCEPT ![slot] = d] /\ Continue(p) /\ p \in {"mark", "eval"}
    BY <1>2, <1>9 DEF SetupDone
  <2>2. Idle(d, o)
    BY <1>3, <1>6, <2>1 DEF Talk, Idle, At
  <2>3. ValuesFor(p, values', call)
    BY <1>3, <2>1 DEF ValuesFor, BeforeEval
  <2> HIDE DEF d, p
  <2> QED
    BY <1>4, <2>1, <2>2, <2>3 DEF Talk, Quiet
<1>10. CASE Eval
  <2> DEFINE d == P!Written(P!StartTimer(here), Asked(a))
  <2>1. /\ pc = "eval" /\ P!CanWrite(here) /\ values' = values
        /\ com' = [com EXCEPT ![slot] = d] /\ Continue("calc")
    BY <1>2, <1>10 DEF Eval, Writes, Asked, a
  <2>2. P!StartTimer(here) \in P!Communicator
    BY <1>2, CommunicatorTypes
  <2>3. /\ d.prog = here.prog /\ d.inp = Append(here.inp, Asked(a)) /\ d.out = here.out
        /\ d.built = here.built
    BY <1>2, <2>2, CallersFields
  <2>4. Quiet(here, o)
    BY <1>2, <1>3, <2>1 DEF ConvInv, Quietness, BeforeEval
  <2> HIDE DEF d
  <2>5. CalcTalk(d, o, a)
    BY <1>2, <2>1, <2>3, <2>4, SayEval
  <2>6. ValuesFor("calc", values', call)
    BY <1>3, <2>1 DEF ValuesFor, BeforeEval
  <2> QED
    BY <1>4, <2>1, <2>5, <2>6 DEF Talk, BeforeEval
<1>11. CASE AcceptCalc
  <2> DEFINE d == P!Consumed(here)
  <2>1. /\ pc = "calc" /\ P!Available(here, "CALC") /\ values' = values
        /\ com' = [com EXCEPT ![slot] = d] /\ Continue("done")
    BY <1>2, <1>11 DEF AcceptCalc, Hears, Expected, Waiting
  <2>2. Answers(d, o, a, << >>)
    BY <1>2, <1>3, <1>5, <2>1, SayCalc DEF Talk
  <2>3. ValuesFor("done", values', call)
    BY <1>3, <2>1 DEF ValuesFor
  <2> HIDE DEF d
  <2> QED
    BY <1>4, <2>1, <2>2, <2>3 DEF Talk, BeforeEval
<1>12. CASE AcceptDone
  <2> DEFINE d == P!Consumed(here)
  <2>1. /\ pc = "done" /\ P!Available(here, "DONE") /\ values' = Head(here.out)
        /\ com' = [com EXCEPT ![slot] = d] /\ Continue("last")
    BY <1>2, <1>12 DEF AcceptDone, Hears, Expected, Waiting
  <2>2. /\ Head(here.out) = Answered(o, a) /\ here.built = o
        /\ \/ At(here, "ready", << >>, <<Answered(o, a)>>)
           \/ At(here, "idle", << >>, <<Answered(o, a), P!Word("READY")>>)
    <3>1. here.out # << >> /\ Head(here.out).word = "DONE" /\ P!Word("ABORT").word = "ABORT"
      BY <2>1 DEF P!Available, P!Word
    <3>2. Answers(here, o, a, << >>)
      BY <1>3, <2>1 DEF Talk
    <3> QED
      BY <3>1, <3>2, AnswersHead
  <2>3. d.built = o /\ Finishing(d)
    <3>1. /\ Tail(<<Answered(o, a)>>) = << >>
          /\ Tail(<<Answered(o, a), P!Word("READY")>>) = <<P!Word("READY")>>
      BY Tuples
    <3> QED
      BY <1>5, <2>2, <3>1 DEF Finishing, At
  <2>4. ValuesFor("last", values', call)
    <3>1. Answered(o, a) # Nothing
      <4>1. Answered(o, a) \in P!Message
        BY <1>2, CallsAssumption DEF Answered, P!Message, P!Words, Call, o, a
      <4> QED
        BY <4>1, MessageAssumption
    <3> QED
      BY <2>1, <2>2, <3>1 DEF ValuesFor, Answered, BeforeEval, o, a
  <2> HIDE DEF d
  <2> QED
    BY <1>4, <2>1, <2>3, <2>4 DEF Talk, BeforeEval
<1>13. CASE AcceptLast
  <2> DEFINE d == P!Consumed(here)
  <2>1. /\ pc = "last" /\ P!Available(here, "READY") /\ values' = values
        /\ com' = [com EXCEPT ![slot] = d] /\ Continue("evaluated")
    BY <1>2, <1>13 DEF AcceptLast, Hears, Expected, Waiting
  <2>2. Idle(d, o)
    BY <1>2, <1>3, <1>5, <2>1, SayLast DEF Talk, P!Available
  <2>3. ValuesFor("evaluated", values', call)
    BY <1>3, <2>1 DEF ValuesFor, BeforeEval
  <2> HIDE DEF d
  <2> QED
    BY <1>4, <2>1, <2>2, <2>3 DEF Talk, BeforeEval
<1>14. CASE EvalDone /\ ~Cached
  <2> DEFINE d == P!CancelTimer(here)
  <2>1. /\ pc = "evaluated" /\ values' = values
        /\ com' = [com EXCEPT ![slot] = d] /\ Continue("teardown")
    BY <1>2, <1>14 DEF EvalDone
  <2>2. ValuesFor("teardown", values', call)
    BY <1>3, <2>1 DEF ValuesFor, BeforeEval
  <2> HIDE DEF d
  <2> QED
    BY <1>4, <2>1, <2>2 DEF Talk, BeforeEval
<1>15. CASE Exit
  <2> DEFINE d == P!Written(P!StartTimer(here), P!Word("EXIT"))
  <2>1. /\ pc = "teardown" /\ values' = values
        /\ com' = [com EXCEPT ![slot] = d] /\ Continue("exit")
    BY <1>2, <1>15 DEF Exit, Writes
  <2>2. ValuesFor("exit", values', call)
    BY <1>3, <2>1 DEF ValuesFor, BeforeEval
  <2> HIDE DEF d
  <2> QED
    BY <1>4, <2>1, <2>2 DEF Talk, BeforeEval
<1>16. CASE AcceptEnd
  <2> DEFINE d == P!Consumed(here)
  <2>1. /\ pc = "exit" /\ values' = values
        /\ com' = [com EXCEPT ![slot] = d] /\ Continue("wait")
    BY <1>2, <1>16 DEF AcceptEnd, Hears
  <2>2. ValuesFor("wait", values', call)
    BY <1>3, <2>1 DEF ValuesFor, BeforeEval
  <2> HIDE DEF d
  <2> QED
    BY <1>4, <2>1, <2>2 DEF Talk, BeforeEval
<1> QED
  BY <1>7, <1>8, <1>9, <1>10, <1>11, <1>12, <1>13, <1>14, <1>15, <1>16

(* What a call leaves in a cached process, at its end or by an abort, is    *)
(* quiet.                                                                   *)
LEMMA CachedEndsConv ==
  ASSUME OneObject, KeptInv, ConvInv, Cached, EvalDone \/ (HearsAbort /\ ~first)
  PROVE  ConvInv'
<1>1. pc # "idle" /\ Return("returned") /\ values' = values /\ Cached'
  BY DEF EvalDone, HearsAbort, Aborted, Waiting, cache, Cached
<1>2. /\ call \in Calls /\ slot \in Slots /\ here \in P!Communicator
      /\ com[slot] = here /\ com \in [Slots -> P!Communicator]
  BY <1>1, HereTyped DEF here, KeptInv, TypeOK
<1>3. /\ Talk(pc, here, call.objs, call.arg) /\ ValuesFor(pc, values, call)
      /\ Own(slot) = call.objs
  BY <1>1, <1>2, OwnObject DEF ConvInv, ValuesRight, slot
<1>4. CASE EvalDone
  <2> DEFINE d == P!CancelTimer(here)
  <2>1. pc = "evaluated" /\ com' = [com EXCEPT ![slot] = d]
    BY <1>2, <1>4 DEF EvalDone
  <2>2. Quiet(d, Own(slot))
    <3>1. Idle(here, Own(slot))
      BY <1>3, <2>1 DEF Talk
    <3> QED
      BY <1>2, <3>1, CallersFields DEF Quiet, Idle, At
  <2> HIDE DEF d
  <2>3. com'[slot] = d /\ \A k \in Slots \ {slot} : com'[k] = com[k]
    BY <1>2, <2>1
  <2>4. values # Nothing /\ values.arg = call.arg /\ values.objs = call.objs
    BY <1>3, <2>1 DEF ValuesFor
  <2> QED
    BY <1>1, <2>2, <2>3, <2>4, TalkEnds
<1>5. CASE HearsAbort /\ ~first
  <2> DEFINE d == P!Consumed(here)
  <2>1. pc \in Waiting /\ P!Available(here, "ABORT") /\ com' = [com EXCEPT ![slot] = d]
    BY <1>2, <1>5 DEF HearsAbort, Aborted
  <2>2. pc # "exit"
    BY DEF KeptInv, CallRight
  <2>3. d.prog = here.prog /\ d.inp = here.inp /\ d.out = Tail(here.out)
    BY <1>2, CallersFields
  <2> HIDE DEF d
  <2>4. Finishing(d) /\ pc \in {"setup", "done"}
    BY <1>2, <1>3, <2>1, <2>2, <2>3, SayAbort
  <2>5. com'[slot] = d /\ \A k \in Slots \ {slot} : com'[k] = com[k]
    BY <1>2, <2>1
  <2>6. values = Nothing
    BY <1>3, <2>4 DEF ValuesFor
  <2> QED
    BY <1>1, <2>4, <2>5, <2>6, TalkEnds DEF Quiet
<1> QED
  BY <1>4, <1>5

(* The inductive invariant of the conversation: with calls of at most one   *)
(* external object each, the pipes hold what belongs to the present point   *)
(* of the present call, and READY at most for any other process.            *)
THEOREM ConversationInvariant == OneObject /\ Spec => [](KeptInv /\ ConvInv)
<1> SUFFICES ASSUME OneObject PROVE Spec => [](KeptInv /\ ConvInv)
  OBVIOUS
<1>1. Init => ConvInv
  BY ConvInit
<1>2. KeptInv /\ ConvInv /\ [Next]_vars => ConvInv'
  <2> SUFFICES ASSUME KeptInv, ConvInv, [Next]_vars PROVE ConvInv'
    OBVIOUS
  <2>1. CASE \E c \in Calls : Request(c) \/ RequestFails(c)
    BY <2>1, RequestConv
  <2>2. CASE Evaluator
    <3>1. CASE \/ Lookup \/ LookupFailed \/ Ready
      BY <3>1, LookupConv
    <3>2. CASE Spawn
      BY <3>2, SpawnConv
    <3>3. CASE Mark
      BY <3>3, MarkConv
    <3>4. CASE \/ AcceptStart \/ AcceptReady \/ SetupDone \/ Eval \/ AcceptCalc
               \/ AcceptDone \/ AcceptLast \/ Exit \/ AcceptEnd
      BY <3>4, ConversationConv
    <3>5. CASE EvalDone
      BY <3>5, ConversationConv, CachedEndsConv
    <3>6. CASE WaitFor
      BY <3>6, WaitForConv
    <3>7. CASE SpawnFails \/ CommunicationFails \/ (HearsAbort /\ (first \/ ~Cached))
      <4>1. Throw /\ pc # "idle"
        BY <3>7 DEF SpawnFails, CommunicationFails, HearsAbort, Hears, Waiting
      <4> QED
        BY <4>1, ThrowConv
    <3>8. CASE HearsAbort /\ Cached /\ ~first
      BY <3>8, CachedEndsConv
    <3> QED
      BY <2>2, <3>1, <3>2, <3>3, <3>4, <3>5, <3>6, <3>7, <3>8 DEF Evaluator
  <2>3. CASE DestroyProcesses \/ TearDown
    BY <2>3, EmptiedConv
  <2>4. CASE Timers \/ Processes
    BY <2>4, BesideConv
  <2>5. CASE UNCHANGED vars
    <3>1. slot' = slot /\ Cached' = Cached
      BY <2>5, SlotStays DEF vars, Cached
    <3> QED
      BY <2>5, <3>1 DEF vars, ConvInv, Quietness, ValuesRight, RightAnswer, here
  <2> QED
    BY <2>1, <2>2, <2>3, <2>4, <2>5 DEF Next
<1>3. Spec => []KeptInv
  BY CacheInvariant
<1> QED
  BY <1>1, <1>2, <1>3, PTL DEF Spec

(* With calls of at most one external object each, the values a call returns*)
(* are those of its own function, objects and arguments, and a process that *)
(* is kept holds nothing that a later call could take for its answer.       *)
THEOREM AnswersStayApart == OneObject /\ Spec => []AnswersKeptApart
<1>1. KeptInv /\ ConvInv => AnswersKeptApart
  <2> SUFFICES ASSUME KeptInv, ConvInv PROVE AnswersKeptApart
    OBVIOUS
  <2>1. RightAnswer
    BY DEF ConvInv, ValuesRight
  <2>2. ASSUME NEW k \in Slots, Quiet(com[k], Own(k))
        PROVE  /\ com[k].inp = << >>
               /\ com[k].prog \in {"ready", "idle", "crashed"}
               /\ com[k].out \in {<< >>, <<P!Word("READY")>>}
               /\ com[k].prog = "ready" => com[k].out = << >>
    BY <2>2 DEF Quiet, Idle, Finishing, At
  <2>3. QuietBetweenCalls
    BY <2>2 DEF QuietBetweenCalls, ConvInv, Quietness
  <2> QED
    BY <2>1, <2>3 DEF AnswersKeptApart
<1> QED
  BY <1>1, ConversationInvariant, PTL
=============================================================================

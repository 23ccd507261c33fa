---------------------------- MODULE ExternalProcess ----------------------------
(***************************************************************************)
(* A process that evaluates one external Modelica function for the         *)
(* compiler, and the communicator through which the compiler talks to it:  *)
(* ceval_external_template.c on one side, ProcessCommunicator.java on the  *)
(* other, and the two pipes between them.                                  *)
(*                                                                         *)
(* A message is a checkpoint word with the data that follows it.  The      *)
(* values of the external objects and of the arguments are abstract:       *)
(* "objs" names the objects whose constructor inputs were sent, "arg" the  *)
(* arguments, and a DONE carries both, since the value computed depends on *)
(* both.  LOG messages are skipped by every read and left out.             *)
(***************************************************************************)
EXTENDS Naturals, Sequences, FiniteSets

CONSTANTS
  Slots,      \* the keys a communicator can be held under
  Objects,    \* external objects
  Args,       \* argument values of the functions
  Timed,      \* does the option give a time limit (timeout >= 0)?
  Nothing     \* no value

VARIABLE com  \* for each slot its communicator with the process behind it

Words == {"START", "OBJECTS", "READY", "EVAL", "CALC", "DONE", "ABORT", "EXIT", "END"}

Message == [word : Words,
            objs : SUBSET Objects,
            arg  : Args \cup {Nothing}]

Word(w) == [word |-> w, objs |-> {}, arg |-> Nothing]

(* Points of the program: main() up to START, the constructor, the print of *)
(* READY, the wait for the next command, the function, the destructor, the  *)
(* print of END; and the ways it is over.                                   *)
Running   == {"boot", "setup", "ready", "idle", "calc", "ending", "last"}
Program   == Running \cup {"exited", "crashed", "none"}

Communicator ==
  [open   : BOOLEAN,
   task   : BOOLEAN,    \* a timer task is scheduled
   firing : BOOLEAN,    \* its run() has begun and has not destroyed the process
   cut    : BOOLEAN,    \* process.destroy() has closed the streams
   prog   : Program,
   built  : SUBSET Objects,             \* objects it constructed
   arg    : Args \cup {Nothing},        \* arguments it computes with
   inp    : Seq(Message),               \* pipe to the process
   out    : Seq(Message)]               \* pipe from the process

(* com == null: never made, or destroyed.  A timer run that outlives the    *)
(* communicator finds no process and has no effect.                         *)
Closed ==
  [open |-> FALSE, task |-> FALSE, firing |-> FALSE, cut |-> FALSE, prog |-> "none",
   built |-> {}, arg |-> Nothing, inp |-> << >>, out |-> << >>]

Fresh == [Closed EXCEPT !.open = TRUE, !.prog = "boot"]

IsRunning(c) == c.prog \in Running

(***************************************************************************)
(* What the callers do with a communicator.                                *)
(***************************************************************************)
\* Mutant of StartTimer: the conversation runs without a time limit.
StartsNoTimer(c) == c

StartTimer(c) == [c EXCEPT !.task = Timed]
CancelTimer(c) == [c EXCEPT !.task = FALSE]

CanWrite(c) == IsRunning(c) /\ ~c.cut
Written(c, m) == [c EXCEPT !.inp = Append(@, m)]

Available(c, w) == c.out # << >> /\ Head(c.out).word = w
Consumed(c) == [c EXCEPT !.out = Tail(@)]

(* accept(w) throws an IOException: another word, the end of the stream, or *)
(* a stream that the timer's run has closed.                                *)
CannotAccept(c, w) ==
  \/ c.cut
  \/ c.out = << >> /\ ~IsRunning(c)
  \/ c.out # << >> /\ Head(c.out).word \notin {w, "ABORT"}

(***************************************************************************)
(* The external process.  Nothing makes it progress: the function it runs  *)
(* may loop for ever.                                                      *)
(***************************************************************************)
Prints(k, m, p) ==
  com' = [com EXCEPT ![k].out = Append(@, m), ![k].prog = p]

Command(k, w) == com[k].inp # << >> /\ Head(com[k].inp).word = w

ProcessStart(k) ==
  /\ com[k].prog = "boot"
  /\ Prints(k, Word("START"), "setup")

(* The objects are read and their constructor called.                       *)
ProcessConstruct(k) ==
  /\ com[k].prog = "setup"
  /\ Command(k, "OBJECTS")
  /\ com' = [com EXCEPT ![k].built = Head(com[k].inp).objs,
                        ![k].inp = Tail(@),
                        ![k].prog = "ready"]

(* ModelicaError in the constructor: the process says so, and goes on.      *)
ProcessConstructAborts(k) ==
  /\ com[k].prog = "setup"
  /\ Command(k, "OBJECTS")
  /\ com' = [com EXCEPT ![k].out = Append(@, Word("ABORT")),
                        ![k].inp = Tail(@),
                        ![k].prog = "ready"]

ProcessReady(k) ==
  /\ com[k].prog = "ready"
  /\ Prints(k, Word("READY"), "idle")

ProcessCalc(k) ==
  /\ com[k].prog = "idle"
  /\ Command(k, "EVAL")
  /\ com' = [com EXCEPT ![k].arg = Head(com[k].inp).arg,
                        ![k].inp = Tail(@),
                        ![k].out = Append(@, Word("CALC")),
                        ![k].prog = "calc"]

ProcessDone(k) ==
  /\ com[k].prog = "calc"
  /\ Prints(k, [word |-> "DONE", objs |-> com[k].built, arg |-> com[k].arg], "ready")

(* ModelicaError in the function.                                           *)
ProcessCalcAborts(k) ==
  /\ com[k].prog = "calc"
  /\ Prints(k, Word("ABORT"), "ready")

ProcessExit(k) ==
  /\ com[k].prog = "idle"
  /\ Command(k, "EXIT")
  /\ com' = [com EXCEPT ![k].inp = Tail(@), ![k].prog = "ending"]

ProcessDestructAborts(k) ==
  /\ com[k].prog = "ending"
  /\ Prints(k, Word("ABORT"), "last")

ProcessEnd(k) ==
  /\ com[k].prog \in {"ending", "last"}
  /\ Prints(k, Word("END"), "exited")

(* A crash in the library's code: constructor, function or destructor.      *)
ProcessCrash(k) ==
  /\ \/ com[k].prog = "setup" /\ Command(k, "OBJECTS")
     \/ com[k].prog \in {"calc", "ending"}
  /\ com' = [com EXCEPT ![k].prog = "crashed"]

ProcessStep(k) ==
  \/ ProcessStart(k)
  \/ ProcessConstruct(k)
  \/ ProcessConstructAborts(k)
  \/ ProcessReady(k)
  \/ ProcessCalc(k)
  \/ ProcessDone(k)
  \/ ProcessCalcAborts(k)
  \/ ProcessExit(k)
  \/ ProcessDestructAborts(k)
  \/ ProcessEnd(k)
  \/ ProcessCrash(k)

(***************************************************************************)
(* The timer thread.  run() marks the time-out and then destroys the       *)
(* process; cancelling the task between the two does not stop it.          *)
(***************************************************************************)
TimerFires(k) ==
  /\ com[k].task
  /\ com' = [com EXCEPT ![k].task = FALSE, ![k].firing = TRUE]

TimerDestroys(k) ==
  /\ com[k].firing
  /\ com' = [com EXCEPT ![k].firing = FALSE,
                        ![k].cut = TRUE,
                        ![k].prog = IF @ \in Running THEN "crashed" ELSE @]

TimerStep(k) == TimerFires(k) \/ TimerDestroys(k)
================================================================================

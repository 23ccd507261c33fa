----------------------------- MODULE ProcessCache ------------------------------
(***************************************************************************)
(* The compiler's cache of external function processes,                    *)
(* ExternalProcessCacheImpl.java, called by the constant evaluation        *)
(* (FExternalStmt.evaluateExternal).  One thread evaluates calls; the      *)
(* processes and the timers run beside it.                                 *)
(*                                                                         *)
(* A call is a function with the external objects among its arguments and  *)
(* the other arguments.  With max_proc > 0 the function is a                *)
(* MappedExternalFunction, which keeps a process for each name of its      *)
(* "lives"; otherwise a CompiledExternalFunction, whose process lives as   *)
(* long as one call.  The slot <<function, name>> stands for the           *)
(* LiveExternalFunction object, or for the local variable "com" of an      *)
(* uncached call.                                                          *)
(***************************************************************************)
EXTENDS Naturals, Sequences, FiniteSets, SequencesExt

CONSTANTS
  Functions,   \* names of external functions
  Objects,     \* names of external objects
  Args,        \* values of the other arguments
  Calls,       \* the calls that the model being compiled makes
  Limits,      \* values of the option external_constant_evaluation_max_proc
  Timed,       \* option external_constant_evaluation is a time limit
  NoName,      \* the name "" under which a process without its own object is kept
  Nothing

Call == [fn : Functions, objs : SUBSET Objects, arg : Args]

ASSUME CallsAssumption == Calls \subseteq Call
ASSUME LimitsAssumption == Limits \subseteq Nat
ASSUME NamesAssumption == NoName \notin Objects
ASSUME TimedAssumption == Timed \in BOOLEAN
ASSUME NothingAssumption == Nothing \notin Args /\ Nothing \notin Call

(* cachedExternalObject() is the only external object of the call, or null. *)
NameOf(c) == IF Cardinality(c.objs) = 1
             THEN CHOOSE o \in Objects : o \in c.objs
             ELSE NoName

Slot(c) == <<c.fn, NameOf(c)>>
Slots   == Functions \X (Objects \cup {NoName})

VARIABLES
  com,       \* the communicators, one per slot
  compiled,  \* cachedExternals: is the function compiled, failed or not tried yet?
  lives,     \* MappedExternalFunction.lives
  living,    \* livingCachedExternals, least recently used first
  pc,        \* where the evaluating thread is
  call,      \* the present call, or the last one
  first,     \* getActual is still starting the process of a new entry
  values,    \* what the present call has read from a process
  outcome,   \* how the last call ended
  max_proc   \* the option, the same for a whole compilation

P == INSTANCE ExternalProcess

ASSUME MessageAssumption == Nothing \notin P!Message

vars  == <<com, compiled, lives, living, pc, call, first, values, outcome, max_proc>>
cache == <<compiled, lives, living, max_proc>>

Cached == max_proc > 0
slot   == Slot(call)
here   == com[slot]

Waiting == {"start", "setup", "calc", "done", "last", "exit"}

Expected == [p \in Waiting |->
  CASE p = "start" -> "START"
    [] p = "setup" -> "READY"
    [] p = "calc"  -> "CALC"
    [] p = "done"  -> "DONE"
    [] p = "last"  -> "READY"
    [] p = "exit"  -> "END"]

Init ==
  /\ com = [k \in Slots |-> P!Closed]
  /\ compiled = [f \in Functions |-> "none"]
  /\ lives = [k \in Slots |-> "none"]
  /\ living = << >>
  /\ pc = "idle"
  /\ call = Nothing
  /\ first = FALSE
  /\ values = Nothing
  /\ outcome = "none"
  /\ max_proc \in Limits

--------------------------------------------------------------------------------
(***************************************************************************)
(* How a call ends.                                                        *)
(***************************************************************************)
Return(out) ==
  /\ pc' = "idle"
  /\ outcome' = out
  /\ first' = FALSE
  /\ UNCHANGED call

Without(s, k) == RemoveFirst(s, k)

(* destroyProcess() and com.destroy() on the slots of a set.                *)
Destroyed(cs, K) == [k \in Slots |-> IF k \in K THEN P!Closed ELSE cs[k]]

\* Mutant of Throw: the handlers drop the line that was read, if there is one,
\* and leave the process alone.
ThrowOnly ==
  /\ com' = IF here.out = << >> THEN com ELSE [com EXCEPT ![slot] = P!Consumed(@)]
  /\ values' = Nothing
  /\ Return("error")
  /\ UNCHANGED cache

(* An exception leaves the evaluation: the handlers of LiveExternalFunction *)
(* and of getActual, or the finally clause of an uncached call.             *)
Throw ==
  /\ com' = Destroyed(com, {slot})
  /\ living' = IF Cached /\ here.open THEN Without(living, slot) ELSE living
  /\ lives' = IF first THEN [lives EXCEPT ![slot] = "failed"] ELSE lives
  /\ values' = Nothing
  /\ Return("error")
  /\ UNCHANGED <<compiled, max_proc>>

(* ABORT in a live entry: caught by itself, the call returns 0.             *)
Aborted ==
  /\ com' = [com EXCEPT ![slot] = P!Consumed(@)]
  /\ Return("returned")
  /\ UNCHANGED <<values, cache>>

--------------------------------------------------------------------------------
(***************************************************************************)
(* getExternalFunction and evaluate.                                       *)
(***************************************************************************)
\* Mutant of Begin: the present call is not recorded.
BeginUnknown(c) ==
  /\ values' = Nothing
  /\ outcome' = "none"
  /\ first' = FALSE
  /\ UNCHANGED call

Begin(c) ==
  /\ call' = c
  /\ values' = Nothing
  /\ outcome' = "none"
  /\ first' = FALSE

Request(c) ==
  /\ pc = "idle"
  /\ Begin(c)
  /\ compiled[c.fn] # "failed"
  /\ compiled' = [compiled EXCEPT ![c.fn] = "compiled"]
  /\ pc' = IF Cached THEN "lookup" ELSE "spawn"
  /\ UNCHANGED <<com, lives, living, max_proc>>

(* The compilation of the function fails, or has failed before.             *)
RequestFails(c) ==
  /\ pc = "idle"
  /\ compiled[c.fn] # "compiled"
  /\ compiled' = [compiled EXCEPT ![c.fn] = "failed"]
  /\ call' = c
  /\ values' = Nothing
  /\ outcome' = "error"
  /\ UNCHANGED <<com, lives, living, max_proc, pc, first>>

(* getActual: an entry for the external object, new or from an earlier call.*)
Lookup ==
  /\ pc = "lookup"
  /\ lives[slot] # "failed"
  /\ first' = (lives[slot] = "none")
  /\ pc' = "ready"
  /\ UNCHANGED <<com, call, values, outcome, cache>>

LookupFailed ==
  /\ pc = "lookup"
  /\ lives[slot] = "failed"
  /\ Return("error")
  /\ UNCHANGED <<com, values, cache>>

Ready ==
  /\ pc = "ready"
  /\ pc' = IF here.open THEN "mark" ELSE "spawn"
  /\ UNCHANGED <<com, call, first, values, outcome, cache>>

Spawn ==
  /\ pc = "spawn"
  /\ com' = [com EXCEPT ![slot] = P!StartTimer(P!Fresh)]
  /\ pc' = "start"
  /\ UNCHANGED <<call, first, values, outcome, cache>>

(* The operating system cannot start the executable.                        *)
SpawnFails == pc = "spawn" /\ Throw

--------------------------------------------------------------------------------
(***************************************************************************)
(* The conversation with the process.                                      *)
(***************************************************************************)
Continue(p) ==
  /\ pc' = p
  /\ UNCHANGED <<call, first, outcome, cache>>

Hears(p) == pc = p /\ P!Available(here, Expected[p])

AcceptStart ==
  /\ Hears("start")
  /\ P!CanWrite(here)
  /\ com' = [com EXCEPT ![slot] =
               P!Written(P!Consumed(@), [word |-> "OBJECTS", objs |-> call.objs,
                                         arg |-> Nothing])]
  /\ Continue("setup")
  /\ UNCHANGED values

AcceptReady ==
  /\ Hears("setup")
  /\ com' = [com EXCEPT ![slot] = P!Consumed(@)]
  /\ Continue("cancel")
  /\ UNCHANGED values

SetupDone ==
  /\ pc = "cancel"
  /\ com' = [com EXCEPT ![slot] = P!CancelTimer(@)]
  /\ Continue(IF Cached THEN "mark" ELSE "eval")
  /\ UNCHANGED values

(* The rest of ready(): the list with the entry used last in it, and room   *)
(* made by the oldest one if the list is full.                              *)
Marked(used, full) ==
  /\ pc = "mark"
  /\ living' = IF full THEN Tail(used) ELSE used
  /\ com' = IF full THEN Destroyed(com, {Head(used)}) ELSE com
  /\ lives' = [lives EXCEPT ![slot] = "live"]
  /\ first' = FALSE
  /\ pc' = IF first THEN "ready" ELSE "eval"
  /\ UNCHANGED <<compiled, call, values, outcome, max_proc>>

\* Mutants of Mark: one process too many is kept; an entry that is in the list
\* keeps its place there.
MarkOneMore ==
  LET used == Append(Without(living, slot), slot) IN Marked(used, Len(used) > max_proc + 1)

MarkInPlace ==
  LET used == IF slot \in ToSet(living) THEN living ELSE Append(living, slot)
  IN  Marked(used, Len(used) > max_proc)

(* An entry becomes the most recently used one.                             *)
Mark ==
  LET used == Append(Without(living, slot), slot) IN Marked(used, Len(used) > max_proc)

Writes(p, m, next) ==
  /\ pc = p
  /\ P!CanWrite(here)
  /\ com' = [com EXCEPT ![slot] = P!Written(P!StartTimer(@), m)]
  /\ Continue(next)
  /\ UNCHANGED values

Eval == Writes("eval", [word |-> "EVAL", objs |-> {}, arg |-> call.arg], "calc")

AcceptCalc ==
  /\ Hears("calc")
  /\ com' = [com EXCEPT ![slot] = P!Consumed(@)]
  /\ Continue("done")
  /\ UNCHANGED values

AcceptDone ==
  /\ Hears("done")
  /\ values' = Head(here.out)
  /\ com' = [com EXCEPT ![slot] = P!Consumed(@)]
  /\ Continue("last")

AcceptLast ==
  /\ Hears("last")
  /\ com' = [com EXCEPT ![slot] = P!Consumed(@)]
  /\ Continue("evaluated")
  /\ UNCHANGED values

EvalDone ==
  /\ pc = "evaluated"
  /\ com' = [com EXCEPT ![slot] = P!CancelTimer(@)]
  /\ IF Cached THEN Return("returned") /\ UNCHANGED cache ELSE Continue("teardown")
  /\ UNCHANGED values

Exit == Writes("teardown", P!Word("EXIT"), "exit")

AcceptEnd ==
  /\ Hears("exit")
  /\ com' = [com EXCEPT ![slot] = P!Consumed(@)]
  /\ Continue("wait")
  /\ UNCHANGED values

(* end() waits for the process; a result other than 0 is an error.          *)
WaitFor ==
  /\ pc = "wait"
  /\ ~P!IsRunning(here)
  /\ com' = Destroyed(com, {slot})
  /\ Return(IF here.prog = "exited" THEN "returned" ELSE "error")
  /\ UNCHANGED <<values, cache>>

(* An IOException in a read or in a write.                                  *)
CommunicationFails ==
  /\ \/ pc \in Waiting /\ P!CannotAccept(here, Expected[pc])
     \/ Hears("start") /\ ~P!CanWrite(here)
     \/ pc \in {"eval", "teardown"} /\ ~P!CanWrite(here)
  /\ Throw

\* Mutant of HearsAbort: an uncached call also takes an abort for its end.
HearsAbortQuietly ==
  /\ pc \in Waiting
  /\ P!Available(here, "ABORT")
  /\ IF first THEN Throw ELSE Aborted

(* An AbortConstantEvaluationException in a read.                           *)
HearsAbort ==
  /\ pc \in Waiting
  /\ P!Available(here, "ABORT")
  /\ IF Cached /\ ~first THEN Aborted ELSE Throw

--------------------------------------------------------------------------------
(***************************************************************************)
(* Between calls: the end of a step of the compiler, and of the compiler.  *)
(***************************************************************************)
DestroyProcesses ==
  /\ pc = "idle"
  /\ com' = Destroyed(com, ToSet(living))
  /\ living' = << >>
  /\ UNCHANGED <<compiled, lives, pc, call, first, values, outcome, max_proc>>

(* tearDown drops every entry.  A process that is not in the list is        *)
(* forgotten alive, and is out of the model from then on.                   *)
TearDown ==
  /\ pc = "idle"
  /\ com' = Destroyed(com, Slots)
  /\ living' = << >>
  /\ lives' = [k \in Slots |-> "none"]
  /\ compiled' = [f \in Functions |-> "none"]
  /\ UNCHANGED <<pc, call, first, values, outcome, max_proc>>

Evaluator ==
  \/ Lookup \/ LookupFailed \/ Ready \/ Spawn \/ SpawnFails
  \/ AcceptStart \/ AcceptReady \/ SetupDone \/ Mark
  \/ Eval \/ AcceptCalc \/ AcceptDone \/ AcceptLast \/ EvalDone
  \/ Exit \/ AcceptEnd \/ WaitFor
  \/ CommunicationFails \/ HearsAbort

unmoved == <<compiled, lives, living, pc, call, first, values, outcome, max_proc>>

Timers    == \E k \in Slots : P!TimerStep(k) /\ UNCHANGED unmoved
Processes == \E k \in Slots : P!ProcessStep(k) /\ UNCHANGED unmoved

Next ==
  \/ \E c \in Calls : Request(c) \/ RequestFails(c)
  \/ Evaluator
  \/ DestroyProcesses
  \/ TearDown
  \/ Timers
  \/ Processes

Spec == Init /\ [][Next]_vars

(* The evaluating thread runs, and some timer thread does while one can; a  *)
(* process may hang.                                                        *)
FairSpec ==
  /\ Spec
  /\ WF_vars(Evaluator)
  /\ WF_vars(Timers)

--------------------------------------------------------------------------------
(***************************************************************************)
(* Properties.                                                             *)
(***************************************************************************)
PCs == {"idle", "lookup", "ready", "spawn", "cancel", "mark", "eval", "evaluated",
        "teardown", "wait"} \cup Waiting

(* Every variable has its type; a call is known whenever one is under way.  *)
TypeOK ==
  /\ com \in [Slots -> P!Communicator]
  /\ compiled \in [Functions -> {"none", "compiled", "failed"}]
  /\ lives \in [Slots -> {"none", "live", "failed"}]
  /\ living \in Seq(Slots)
  /\ pc \in PCs
  /\ call \in Calls \cup {Nothing}
  /\ pc # "idle" => call # Nothing
  /\ first \in BOOLEAN
  /\ values \in P!Message \cup {Nothing}
  /\ outcome \in {"none", "returned", "error"}
  /\ max_proc \in Limits

(* The values that a call returns were computed by its function for its own *)
(* arguments and with its own external objects, whatever was aborted, timed *)
(* out or crashed before on the process it was sent to.  A call that is     *)
(* aborted in a cached process returns without values; one in a process of  *)
(* its own never does.                                                      *)
RightAnswer ==
  outcome = "returned" =>
    IF values = Nothing
    THEN Cached
    ELSE values.arg = call.arg /\ values.objs = call.objs

(* A process kept between two calls holds no part of an answer that the     *)
(* next call could take for its own: at most the READY that an abort leaves.*)
QuietBetweenCalls ==
  \A k \in Slots : com[k].open /\ (pc = "idle" \/ k # slot) =>
    /\ com[k].inp = << >>
    /\ com[k].prog \in {"ready", "idle", "crashed"}
    /\ com[k].out \in {<< >>, <<P!Word("READY")>>}
    /\ com[k].prog = "ready" => com[k].out = << >>

(* The list of living processes has each one once, no more than the option  *)
(* allows, and every one of them has an open communicator and is the entry  *)
(* that a later call will find.                                             *)
LivingCorrect ==
  /\ Len(living) <= max_proc
  /\ IsInjective(living)
  /\ \A k \in ToSet(living) : com[k].open /\ lives[k] = "live"

(* Making room never destroys the process that the present call is about to *)
(* use, although the entry is marked twice on its first call.               *)
NeverEvictsOwn ==
  pc \in {"eval", "evaluated", "teardown", "wait"} \cup Waiting =>
    here.open /\ (Cached /\ pc = "eval" => Last(living) = slot)

(* A call that ends in an error leaves no process behind for its entry: the *)
(* next call starts from a new one.                                         *)
ErrorCloses == pc = "idle" /\ outcome = "error" => ~com[slot].open

(* With the cache turned off no process outlives its call.                  *)
NothingKept == ~Cached /\ pc = "idle" => \A k \in Slots : ~com[k].open

(* A call gets its own answer, and leaves nothing that another could take.  *)
AnswersKeptApart == RightAnswer /\ QuietBetweenCalls

(* The processes that are kept are those that may be: as many as the option *)
(* allows, each found by a later call, not the one of a failed call, and    *)
(* never destroyed to make room for itself.                                 *)
KeptRight == TypeOK /\ LivingCorrect /\ NeverEvictsOwn /\ ErrorCloses /\ NothingKept

(* With a time limit every call ends, although the process may hang at any  *)
(* point of the conversation.                                               *)
CallsEnd == pc # "idle" ~> pc = "idle"

(***************************************************************************)
(* What comments of the code say, and the code does not do.                *)
(***************************************************************************)
(* "Make sure process is ready for evaluation call."  When ready() is done  *)
(* the process, unless it died, waits for EVAL and has printed nothing else.*)
ReadyForEval ==
  Cached /\ pc = "eval" /\ P!CanWrite(here) => here.out = << >> /\ here.prog = "idle"

(* "Find a LiveExternalFunction based on the external object of this        *)
(* external function": a call is sent to a process that constructed the     *)
(* call's own external objects.                                             *)
OwnObjects ==
  Cached /\ pc = "eval" /\ here.built # {} => here.built = call.objs
================================================================================

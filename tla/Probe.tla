-------------------------------- MODULE Probe --------------------------------
(***************************************************************************)
(* src/src/probe.rs: one run of ffprobe over the preroll of a pull.  A     *)
(* thread of its own feeds the preroll to ffprobe while the puller gathers *)
(* both of its outputs and waits for its exit; all three meet in pipes of  *)
(* bounded capacity.                                                       *)
(*                                                                         *)
(* ffprobe is external: it may stop reading before the end of its input,   *)
(* print more than a pipe holds on either output in any order, fail and    *)
(* crash, but it does not hang; nothing in the code would end it.          *)
(***************************************************************************)
EXTENDS Integers

CONSTANTS Preroll,    \* the bytes to feed
          Pipe,       \* the capacity of a pipe
          MaxOutput   \* bound on what ffprobe prints to an output

ASSUME ProbeAssumption ==
  /\ {Preroll, MaxOutput} \subseteq Nat /\ Pipe \in Nat \ {0}

Outputs == {"stdout", "stderr"}

VARIABLES
  caller,     \* where run is
  writer,     \* the thread that feeds stdin
  child,      \* ffprobe
  fed, eaten, \* bytes written to its stdin, and read from it
  owed,       \* what it has still to print
  inpipe,     \* what it has printed and nobody has gathered
  result

probeVars == <<caller, writer, child, fed, eaten, owed, inpipe, result>>

ProbeInit ==
  /\ caller = "starting" /\ writer = "none" /\ child = "none"
  /\ fed = 0 /\ eaten = 0
  /\ owed = [p \in Outputs |-> 0] /\ inpipe = [p \in Outputs |-> 0]
  /\ result = "none"

-----------------------------------------------------------------------------
(* ffprobe. *)

Prints == child' = "printing" /\ owed' \in [Outputs -> 0..MaxOutput]

Eat ==
  /\ child = "reading" /\ eaten < fed
  /\ eaten' = eaten + 1
  /\ UNCHANGED <<caller, writer, child, fed, owed, inpipe, result>>

SeesEnd ==
  /\ child = "reading" /\ eaten = fed /\ writer = "done"
  /\ Prints
  /\ UNCHANGED <<caller, writer, fed, eaten, inpipe, result>>

\* It has seen enough.
StopsReading ==
  /\ child = "reading"
  /\ Prints
  /\ UNCHANGED <<caller, writer, fed, eaten, inpipe, result>>

PrintOn(p) ==
  /\ child = "printing" /\ owed[p] > 0 /\ inpipe[p] < Pipe
  /\ owed' = [owed EXCEPT ![p] = @ - 1]
  /\ inpipe' = [inpipe EXCEPT ![p] = @ + 1]
  /\ UNCHANGED <<caller, writer, child, fed, eaten, result>>

Exits ==
  /\ child = "printing" /\ \A p \in Outputs : owed[p] = 0
  /\ child' \in {"succeeded", "failed"}
  /\ UNCHANGED <<caller, writer, fed, eaten, owed, inpipe, result>>

Crashes ==
  /\ child \in {"reading", "printing"}
  /\ child' = "failed"
  /\ UNCHANGED <<caller, writer, fed, eaten, owed, inpipe, result>>

Gone == child \in {"succeeded", "failed"}

-----------------------------------------------------------------------------
(* The thread that feeds it. *)

WriteByte ==
  /\ writer = "writing" /\ ~Gone
  /\ fed < Preroll /\ fed - eaten < Pipe
  /\ fed' = fed + 1
  /\ UNCHANGED <<caller, writer, child, eaten, owed, inpipe, result>>

\* All has been written, or nobody reads any more; stdin is dropped.
WriterEnds ==
  /\ writer = "writing" /\ (fed = Preroll \/ Gone)
  /\ writer' = "done"
  /\ UNCHANGED <<caller, child, fed, eaten, owed, inpipe, result>>

-----------------------------------------------------------------------------
(* run. *)

\* spawn, with the thread for stdin; ffprobe may not be there.
Start ==
  /\ caller = "starting"
  /\ \/ caller' = "returned" /\ result' = "error" /\ UNCHANGED <<writer, child>>
     \/ caller' = "gathering" /\ writer' = "writing" /\ child' = "reading"
        /\ UNCHANGED result
  /\ UNCHANGED <<fed, eaten, owed, inpipe>>

\* A bug: stdin is written before any output is read.
ReadOutputAfterwards(p) ==
  /\ caller = "gathering" /\ writer = "done" /\ inpipe[p] > 0
  /\ inpipe' = [inpipe EXCEPT ![p] = @ - 1]
  /\ UNCHANGED <<caller, writer, child, fed, eaten, owed, result>>

\* wait_with_output reads from the one output or the other.
ReadOutput(p) ==
  /\ caller = "gathering" /\ inpipe[p] > 0
  /\ inpipe' = [inpipe EXCEPT ![p] = @ - 1]
  /\ UNCHANGED <<caller, writer, child, fed, eaten, owed, result>>

\* Both outputs have ended and ffprobe has been reaped.
Reaped ==
  /\ caller = "gathering" /\ Gone /\ \A p \in Outputs : inpipe[p] = 0
  /\ caller' = "joining"
  /\ UNCHANGED <<writer, child, fed, eaten, owed, inpipe, result>>

\* The writer is joined, and what was printed parsed: there may be no stream in it.
Joins ==
  /\ caller = "joining" /\ writer = "done"
  /\ caller' = "returned"
  /\ result' \in IF child = "succeeded" THEN {"probe", "error"} ELSE {"error"}
  /\ UNCHANGED <<writer, child, fed, eaten, owed, inpipe>>

ChildStep == Eat \/ SeesEnd \/ (\E p \in Outputs : PrintOn(p)) \/ Exits
WriterStep == WriteByte \/ WriterEnds
CallerStep == Start \/ (\E p \in Outputs : ReadOutput(p)) \/ Reaped \/ Joins

ProbeStep == ChildStep \/ StopsReading \/ Crashes \/ WriterStep \/ CallerStep

\* The two threads run and ffprobe goes on while it can.
ProbeSpec ==
  /\ ProbeInit /\ [][ProbeStep]_probeVars
  /\ WF_probeVars(ChildStep) /\ WF_probeVars(WriterStep) /\ WF_probeVars(CallerStep)

-----------------------------------------------------------------------------
ProbeTypeOK ==
  /\ caller \in {"starting", "gathering", "joining", "returned"}
  /\ writer \in {"none", "writing", "done"}
  /\ child \in {"none", "reading", "printing", "succeeded", "failed"}
  /\ fed \in 0..Preroll /\ eaten \in 0..fed /\ fed - eaten <= Pipe
  /\ owed \in [Outputs -> 0..MaxOutput] /\ inpipe \in [Outputs -> 0..Pipe]
  /\ (caller = "returned") = (result \in {"probe", "error"})

\* identify gets an answer from every ffprobe that does not hang, though the
\* preroll and the outputs are larger than the pipes and ffprobe need not read what
\* it is given (run: "writing inline would deadlock against ffprobe filling
\* stdout").
ProbeReturns == <>(caller = "returned")
=============================================================================

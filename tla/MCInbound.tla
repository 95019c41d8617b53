----------------------------- MODULE MCInbound -----------------------------
(* What comes in over sockets and pipes, for TLC: the client that decodes the    *)
(* engine's answers, the scanner and window that the stream's bytes go to, the   *)
(* requests of players, and ffprobe.  A behaviour is one of one of these, chosen *)
(* at the start.                                                                 *)
EXTENDS MCReplay, MCEngineClient, MCRequestHead, Probe

VARIABLE side

\* A client that has done what it was to do.
ClientIdle ==
  /\ purpose = "stop" /\ verdict = "stopped"
  /\ answer \in Answers["stop"] /\ answer = CHOOSE a \in Answers["stop"] : TRUE
  /\ asking = FALSE /\ hop = 0 /\ cut = 0 /\ taken = 0
  /\ left = 0 /\ done = FALSE /\ got = <<>> /\ ending = "refused"

\* A connection that has been answered.
HeadIdle ==
  /\ request \in Heads /\ request = CHOOSE h \in Heads : h.method = "OPTIONS"
  /\ arrives = 0 /\ after = "closed"
  /\ budget = MAX_HEAD_BYTES /\ line = 1 /\ headers = 0
  /\ phase = "refused" /\ status = 400

\* An ffprobe that has not been started.
ProbeIdle ==
  /\ caller = "returned" /\ writer = "none" /\ child = "none"
  /\ fed = 0 /\ eaten = 0
  /\ owed = [p \in Outputs |-> 0] /\ inpipe = [p \in Outputs |-> 0]
  /\ result = "error"

WindowIdle == input = (CHOOSE i \in Inputs : TRUE) /\ Init

MCInit ==
  \/ side = "client" /\ WindowIdle /\ HeadIdle /\ ProbeIdle /\ ClientInit
  \/ side = "window" /\ ClientIdle /\ HeadIdle /\ ProbeIdle /\ Init
  \/ side = "head" /\ WindowIdle /\ ClientIdle /\ ProbeIdle /\ HeadInit
  \/ side = "probe" /\ WindowIdle /\ ClientIdle /\ HeadIdle /\ ProbeInit

MCNext ==
  /\ UNCHANGED side
  /\ \/ side = "client" /\ ClientStep /\ UNCHANGED <<vars, headVars, probeVars>>
     \/ side = "window" /\ Next /\ UNCHANGED <<clientVars, headVars, probeVars>>
     \/ side = "head" /\ HeadStep /\ UNCHANGED <<vars, clientVars, probeVars>>
     \/ side = "probe" /\ ProbeStep /\ UNCHANGED <<vars, clientVars, headVars>>

\* The fairness of ClientSpec, HeadSpec and ProbeSpec, for their own behaviours.
MCSpec ==
  /\ MCInit /\ [][MCNext]_<<side, vars, clientVars, headVars, probeVars>>
  /\ WF_clientVars(side = "client" /\ ClientStep)
  /\ WF_headVars(side = "head" /\ HeadStep)
  /\ WF_probeVars(side = "probe" /\ ChildStep)
  /\ WF_probeVars(side = "probe" /\ WriterStep)
  /\ WF_probeVars(side = "probe" /\ CallerStep)

\* The type invariants of the four.
Types == TypeOK /\ ClientTypeOK /\ HeadTypeOK /\ ProbeTypeOK

\* An exchange with the engine, one with a player and a probe come to an end,
\* whatever the other end does (EngineClient, RequestHead, Probe).
Settles == ClientSettles /\ HeadSettles /\ ProbeReturns
=============================================================================

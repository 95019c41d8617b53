------------------------------ MODULE Broadcast ------------------------------
(***************************************************************************)
(* What an encoder promises its clients (src/src/registry.rs, "Tier 2"):   *)
(* one sequence of pieces for everybody, entered at a point that is safe   *)
(* to begin at and then followed piece by piece, without a gap, until the  *)
(* client is let go.  How joiners wait, pieces are found and lists are     *)
(* locked is Encoder's business.                                           *)
(***************************************************************************)
EXTENDS Integers, Sequences

CONSTANTS Clients,
          Kinds,    \* of pieces
          Points    \* those a client may begin with

VARIABLES
  log,      \* the kinds of the pieces published
  members,  \* the clients that follow
  sent      \* the pieces a client has been sent, by number

Init ==
  /\ log = <<>>
  /\ members = {}
  /\ sent = [c \in Clients |-> <<>>]

\* A client follows, but is sent nothing yet.
Join(c) ==
  /\ c \notin members /\ sent[c] = <<>>
  /\ members' = members \cup {c}
  /\ UNCHANGED <<log, sent>>

\* A piece goes to every member that is under way, and to those that wait if they
\* may begin with it; who cannot be sent it is let go instead.
Publish(kind, gone) ==
  /\ log' = Append(log, kind)
  /\ members' = members \ gone
  /\ sent' = [c \in Clients |->
                IF c \in members \ gone /\ (kind \in Points \/ sent[c] # <<>>)
                THEN Append(sent[c], Len(log) + 1) ELSE sent[c]]

\* Clients leave, one or all of them.
LetGo(gone) ==
  /\ members' = members \ gone
  /\ UNCHANGED <<log, sent>>

Next ==
  \/ \E c \in Clients : Join(c)
  \/ \E kind \in Kinds, gone \in SUBSET members : Publish(kind, gone)
  \/ \E gone \in SUBSET members : LetGo(gone)

Spec == Init /\ [][Next]_<<log, members, sent>>

-----------------------------------------------------------------------------
\* The promise: what a client is sent begins at a point and has no gap, and a
\* member that has begun has everything that there is.
Whole ==
  \A c \in Clients :
    sent[c] # <<>> =>
      /\ sent[c][1] \in DOMAIN log /\ log[sent[c][1]] \in Points
      /\ \A i \in DOMAIN sent[c] : sent[c][i] = sent[c][1] + i - 1
      /\ c \in members => sent[c][Len(sent[c])] = Len(log)
=============================================================================
